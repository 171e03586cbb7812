-------------------------- MODULE Reconnect_proof --------------------------
(***************************************************************************)
(* Types of Reconnect; that what the operator asked of a loco reaches it,  *)
(* and that a stop survives, through every loss of the connection; and     *)
(* that a reconnect makes the handset and the station agree on the locos   *)
(* of every slot in use.                                                   *)
(*                                                                         *)
(* The invariants speak of what is still to come: of a speed that is       *)
(* wanted, that the command which settles it is pending, buffered or in    *)
(* the channel, behind everything that would spoil it; of a loco, that     *)
(* handset and station, once the reports on their way are taken in, differ *)
(* only by an acquire or a release that is still to be forwarded.          *)
(***************************************************************************)
EXTENDS Reconnect, DomainState_proof, FiniteSetTheorems, WellFoundedInduction

(***************************************************************************)
(* reacquire_session_locos goes through the slots one by one.  What the    *)
(* loop keeps is shown for every number of slots: a set of numbers that is *)
(* closed under the step is all of them.                                   *)

LEMMA Induction ==
  ASSUME NEW N \in Nat, NEW S, 0 \in S, \A n \in 1..N : n - 1 \in S => n \in S
  PROVE  0..N \subseteq S
<1> DEFINE T == {n \in 0..N : n \notin S}
           R == OpToRel(<, Nat)
<1>1. SUFFICES ASSUME T # {} PROVE FALSE
  OBVIOUS
<1>2. IsWellFoundedOn(R, Nat)
  BY NatLessThanWellFounded
<1>3. T \subseteq Nat
  OBVIOUS
<1> HIDE DEF T, R
<1>4. PICK x \in T : \A y \in T : ~(<<y, x>> \in R)
  BY <1>1, <1>2, <1>3, WFMin
<1>5. \A y \in T : ~(y < x)
  BY <1>3, <1>4 DEF R, OpToRel
<1>6. x \in 1..N /\ x \notin S
  BY <1>4 DEF T
<1>7. x - 1 \in T
  BY <1>6 DEF T
<1> QED BY <1>5, <1>6, <1>7

\* The partial results of the loop, as one function.
Loop(d, g) ==
  g = [n \in 0..d.max_throttles |->
         IF n = 0 THEN d ELSE PushAll(g[n - 1], ReacquireSlot(d, n - 1))]

LEMMA LoopExists ==
  ASSUME NEW d \in Domain
  PROVE  \E g : Loop(d, g)
<1> DEFINE N == d.max_throttles
           Part(g, m) == g = [n \in 0..m |->
             IF n = 0 THEN d ELSE PushAll(g[n - 1], ReacquireSlot(d, n - 1))]
           S == {m \in 0..N : \E g : Part(g, m)}
<1>1. N \in Nat
  BY DomainAssumption DEF Domain
<1>2. 0 \in S
  <2> DEFINE g == [n \in 0..0 |-> d]
  <2>1. \A n \in 0..0 : n = 0
    OBVIOUS
  <2>2. Part(g, 0)
    BY <2>1
  <2> HIDE DEF g
  <2>3. \E k : Part(k, 0)
    BY <2>2
  <2> QED BY <1>1, <2>3
<1>3. ASSUME NEW m \in 1..N, m - 1 \in S PROVE m \in S
  <2>1. PICK g : Part(g, m - 1)
    BY <1>3
  <2> DEFINE last == PushAll(g[m - 1], ReacquireSlot(d, m - 1))
             h == [n \in 0..m |-> IF n = m THEN last ELSE g[n]]
  <2>2. \A n \in 0..(m - 1) : h[n] = g[n]
    BY <1>1
  <2>3. ASSUME NEW n \in 0..m
        PROVE  h[n] = IF n = 0 THEN d ELSE PushAll(h[n - 1], ReacquireSlot(d, n - 1))
    <3>1. CASE n = m
      <4>1. h[n] = last /\ m # 0 /\ m - 1 \in 0..(m - 1)
        BY <1>1, <3>1
      <4> QED BY <2>2, <3>1, <4>1
    <3>2. CASE n # m
      <4>1. n \in 0..(m - 1) /\ (n # 0 => n - 1 \in 0..(m - 1))
        BY <1>1, <3>2
      <4>2. g[n] = IF n = 0 THEN d ELSE PushAll(g[n - 1], ReacquireSlot(d, n - 1))
        BY <2>1, <4>1
      <4> QED BY <2>2, <4>1, <4>2
    <3> QED BY <3>1, <3>2
  <2>4. Part(h, m)
    <3> HIDE DEF h
    <3>1. h = [n \in 0..m |-> h[n]]
      BY DEF h
    <3> QED BY <2>3, <3>1
  <2> HIDE DEF h
  <2>5. \E k : Part(k, m)
    BY <2>4
  <2> QED BY <1>1, <2>5
<1>4. N \in S
  <2> HIDE DEF S, N
  <2>1. 0..N \subseteq S
    BY <1>1, <1>2, <1>3, Induction
  <2> QED BY <1>1, <2>1
<1> QED BY <1>4 DEF Loop

LEMMA LoopResult ==
  ASSUME NEW d \in Domain
  PROVE  \E g : Loop(d, g) /\ ReacquireSlots(d) = g[d.max_throttles]
<1> DEFINE f == CHOOSE g : Loop(d, g)
<1>1. Loop(d, f)
  BY LoopExists
<1>2. ReacquireSlots(d) = f[d.max_throttles]
  BY DEF ReacquireSlots, Loop
<1> QED BY <1>1, <1>2

\* What a reacquire says of throttle t.
Own(t) ==
  {c \in Command : c.op \in {"AddLoco", "SetDirection", "SetSpeed"} /\ c.throttle = t}

Resumed(d, t) == SetSpeed(t, d.throttles[t].speed)

LEMMA SlotCommands ==
  ASSUME NEW d \in Domain, NEW t \in Throttle
  PROVE  LET q == ReacquireSlot(d, t)
             n == Len(Consist(d, t))
         IN  /\ q \in Seq(Command) /\ n \in Nat
             /\ \A i \in DOMAIN q : q[i] \in Own(t)
             /\ ~HasLoco(d, t) => q = <<>>
             /\ HasLoco(d, t) =>
                  /\ Len(q) = n + 2
                  /\ \A i \in 1..n : q[i] = AddLoco(t, Consist(d, t)[i])
                  /\ q[n + 1] = SetDirection(t, None, d.throttles[t].direction)
                  /\ q[n + 2] = Resumed(d, t)
<1> DEFINE q == ReacquireSlot(d, t)
           c == Consist(d, t)
           n == Len(c)
<1>1. /\ c \in Seq(Locos) /\ n \in Nat /\ DOMAIN c = 1..n
      /\ d.throttles[t].speed \in Speed /\ d.throttles[t].direction \in Direction
  BY DEF Domain, Slot, Consist
<1>2. CASE ~HasLoco(d, t)
  BY <1>1, <1>2 DEF HasLoco, ReacquireSlot
<1>3. CASE HasLoco(d, t)
  <2> DEFINE a == [i \in 1..n |-> AddLoco(t, c[i])]
             x == SetDirection(t, None, d.throttles[t].direction)
             y == Resumed(d, t)
  <2>1. q = a \o <<x, y>>
    BY <1>3 DEF HasLoco, ReacquireSlot, Consist, Resumed
  <2>2. \A i \in 1..n : a[i] = AddLoco(t, c[i]) /\ c[i] \in Locos
    BY <1>1
  <2>3. \A l \in Locos : AddLoco(t, l) \in Own(t)
    BY DEF AddLoco, Own, Command
  <2>4. x \in Own(t) /\ y \in Own(t)
    BY <1>1 DEF SetDirection, SetSpeed, Resumed, Own, Command
  <2>5. Own(t) \in SUBSET Command
    BY DEF Own
  <2>6. a \in [1..n -> Own(t)]
    BY <2>2, <2>3
  <2> HIDE DEF x, y, q, c, a
  <2>7. a \in Seq(Own(t)) /\ Len(a) = n
    BY <1>1, <2>6
  <2>8. /\ a \o <<x, y>> \in Seq(Own(t)) /\ Len(a \o <<x, y>>) = n + 2
        /\ \A i \in 1..n : (a \o <<x, y>>)[i] = a[i]
        /\ (a \o <<x, y>>)[n + 1] = x /\ (a \o <<x, y>>)[n + 2] = y
    BY <1>1, <2>4, <2>7
  <2>9. q \in Seq(Own(t)) /\ DOMAIN q = 1..Len(q)
    BY <2>1, <2>8
  <2>10. q \in Seq(Command) /\ \A i \in DOMAIN q : q[i] \in Own(t)
    BY <2>5, <2>9
  <2> QED BY <1>1, <1>3, <2>1, <2>2, <2>8, <2>10 DEF x, y, q, c
<1> QED BY <1>2, <1>3

LEMMA FrontJoined ==
  ASSUME NEW V, NEW p \in Seq(V), NEW q \in Seq(V), NEW n \in 0..Len(q)
  PROVE  /\ SubSeq(q, 1, n) \in Seq(V) /\ Len(SubSeq(q, 1, n)) = n
         /\ \A i \in 1..n : SubSeq(q, 1, n)[i] = q[i]
         /\ SubSeq(p \o q, 1, Len(p) + n) = p \o SubSeq(q, 1, n)
<1> DEFINE m == Len(p)
           r == SubSeq(q, 1, n)
           s == SubSeq(p \o q, 1, m + n)
<1>1. m \in Nat /\ n \in Nat /\ Len(q) \in Nat /\ n <= Len(q)
  OBVIOUS
<1>2. r \in Seq(V) /\ Len(r) = n /\ \A i \in 1..n : r[i] = q[i]
  BY <1>1
<1> HIDE DEF r
<1>3. /\ p \o q \in Seq(V) /\ Len(p \o q) = m + Len(q)
      /\ \A i \in 1..m : (p \o q)[i] = p[i]
      /\ \A i \in 1..Len(q) : (p \o q)[m + i] = q[i]
  BY <1>1
<1>4. /\ p \o r \in Seq(V) /\ Len(p \o r) = m + n
      /\ \A i \in 1..m : (p \o r)[i] = p[i]
      /\ \A i \in 1..n : (p \o r)[m + i] = r[i]
  BY <1>1, <1>2
<1>5. s \in Seq(V) /\ Len(s) = m + n /\ \A i \in 1..(m + n) : s[i] = (p \o q)[i]
  BY <1>1, <1>3
<1> HIDE DEF s, m
<1>6. ASSUME NEW i \in 1..(m + n) PROVE s[i] = (p \o r)[i]
  <2>1. CASE i <= m
    <3>1. i \in 1..m
      BY <1>1, <2>1
    <3> QED BY <1>3, <1>4, <1>5, <3>1
  <2>2. CASE ~(i <= m)
    <3>1. i - m \in 1..n /\ i - m \in 1..Len(q) /\ m + (i - m) = i
      BY <1>1, <2>2
    <3>2. (p \o q)[i] = q[i - m] /\ (p \o r)[i] = r[i - m]
      BY <1>3, <1>4, <3>1
    <3> QED BY <1>2, <1>5, <3>1, <3>2
  <2> QED BY <2>1, <2>2
<1>7. s = p \o r
  <2> DEFINE x == p \o r
  <2>1. x \in Seq(V) /\ Len(x) = Len(s) /\ \A i \in 1..Len(s) : s[i] = x[i]
    BY <1>4, <1>5, <1>6
  <2> HIDE DEF x
  <2>2. s = x
    BY <1>5, <2>1
  <2> QED BY <2>2 DEF x
<1> QED BY <1>2, <1>7 DEF r, s, m

\* Of what is pushed, a first part arrives.
LEMMA PushAllFront ==
  ASSUME NEW d \in Domain, NEW q \in Seq(Command), Len(d.out) <= CmdBuf
  PROVE  \E n \in 0..Len(q) :
           /\ PushAll(d, q) = [d EXCEPT !.out = d.out \o SubSeq(q, 1, n)]
           /\ Len(d.out \o SubSeq(q, 1, n)) <= CmdBuf
<1> DEFINE m == Len(d.out)
<1>1. d.out \in Seq(Command) /\ m \in Nat /\ Len(q) \in Nat /\ CmdBuf \in Nat
  BY DomainAssumption DEF Domain
<1>2. \E n \in 0..Len(q) : AtMost(m + Len(q), CmdBuf) = m + n /\ m + n <= CmdBuf
  <2>1. CASE m + Len(q) <= CmdBuf
    <3>1. Len(q) \in 0..Len(q) /\ AtMost(m + Len(q), CmdBuf) = m + Len(q)
      BY <1>1, <2>1 DEF AtMost
    <3> QED BY <2>1, <3>1
  <2>2. CASE ~(m + Len(q) <= CmdBuf)
    <3>1. CmdBuf - m \in 0..Len(q) /\ m + (CmdBuf - m) = CmdBuf /\ CmdBuf <= CmdBuf
      BY <1>1, <2>2
    <3>2. AtMost(m + Len(q), CmdBuf) = CmdBuf
      BY <2>2 DEF AtMost
    <3> QED BY <3>1, <3>2
  <2> QED BY <2>1, <2>2
<1>3. PICK n \in 0..Len(q) : AtMost(m + Len(q), CmdBuf) = m + n /\ m + n <= CmdBuf
  BY <1>2
<1> DEFINE p == d.out
           r == SubSeq(q, 1, n)
<1>4. r \in Seq(Command) /\ Len(r) = n /\ SubSeq(p \o q, 1, Len(p) + n) = p \o r
  <2>1. p \in Seq(Command)
    BY <1>1
  <2> HIDE DEF p
  <2> QED BY <2>1, FrontJoined
<1>5. Len(p \o r) = m + n
  <2> HIDE DEF r, p
  <2> QED BY <1>1, <1>4 DEF p
<1>6. PushAll(d, q) = [d EXCEPT !.out = d.out \o r]
  BY <1>3, <1>4 DEF PushAll
<1> QED BY <1>3, <1>5, <1>6

\* If the speed of throttle t is in q, so are its locos, all before it.
Whole(d, t, q) ==
  Has({Resumed(d, t)}, q) =>
    /\ \A i \in DOMAIN Consist(d, t) : Has({AddLoco(t, Consist(d, t)[i])}, q)
    /\ Followed(Own(t) \ {Resumed(d, t)}, {Resumed(d, t)}, q)

\* e is d with commands for the slots below n instead of what was buffered.
Again(d, e, n) ==
  /\ e \in Domain /\ e = [d EXCEPT !.out = e.out] /\ Len(e.out) <= CmdBuf
  /\ \A i \in DOMAIN e.out : \E t \in Throttle : t < n /\ e.out[i] \in Own(t)
  /\ \A t \in Throttle : t < n /\ HasLoco(d, t) => Whole(d, t, e.out)

\* The commands of one slot do not disturb those of another, and come in order.
LEMMA WholeNext ==
  ASSUME NEW d \in Domain, NEW t \in Throttle, HasLoco(d, t), NEW u \in Throttle,
         NEW p \in Seq(Command), NEW n \in 0..Len(ReacquireSlot(d, u)),
         t # u => Whole(d, t, p), t = u => Avoids(Own(t), p)
  PROVE  Whole(d, t, p \o SubSeq(ReacquireSlot(d, u), 1, n))
<1> DEFINE q == ReacquireSlot(d, u)
           r == SubSeq(q, 1, n)
           c == Consist(d, t)
           y == Resumed(d, t)
<1>1. /\ q \in Seq(Command) /\ \A i \in DOMAIN q : q[i] \in Own(u)
      /\ DOMAIN q = 1..Len(q) /\ Len(q) \in Nat
  BY SlotCommands
<1>2. r \in Seq(Command) /\ Len(r) = n /\ \A i \in 1..n : r[i] = q[i]
  BY <1>1, FrontJoined
<1>3. DOMAIN r = 1..n /\ \A i \in DOMAIN r : i \in DOMAIN q /\ r[i] = q[i]
  BY <1>1, <1>2
<1>4. /\ c \in Seq(Locos) /\ \A i \in DOMAIN c : AddLoco(t, c[i]) \in Own(t)
      /\ y \in Own(t) /\ DOMAIN c = 1..Len(c) /\ Len(c) \in Nat
  <2>1. c \in Seq(Locos) /\ d.throttles[t].speed \in Speed
    BY DEF Domain, Slot, Consist
  <2>2. \A l \in Locos : AddLoco(t, l) \in Own(t)
    BY DEF AddLoco, Own, Command
  <2>3. y \in Own(t)
    BY <2>1 DEF SetSpeed, Resumed, Own, Command
  <2> QED BY <2>1, <2>2, <2>3
<1> HIDE DEF q, r, c, y
<1> SUFFICES ASSUME Has({y}, p \o r)
             PROVE  /\ \A i \in DOMAIN c : Has({AddLoco(t, c[i])}, p \o r)
                    /\ Followed(Own(t) \ {y}, {y}, p \o r)
  BY DEF Whole, c, y, r, q
<1>5. CASE t # u
  <2>1. Avoids(Own(t), r)
    BY <1>1, <1>3, <1>5 DEF Avoids, Own
  <2>2. ~Has({y}, r) /\ Avoids(Own(t) \ {y}, r)
    BY <1>4, <2>1 DEF Avoids, Has
  <2>3. Has({y}, p)
    BY <1>2, <2>2, HasJoined
  <2>4. /\ \A i \in DOMAIN c : Has({AddLoco(t, c[i])}, p)
        /\ Followed(Own(t) \ {y}, {y}, p)
    BY <1>5, <2>3 DEF Whole, c, y
  <2> QED BY <1>2, <2>2, <2>4, HasJoined, FollowedAvoids
<1>6. CASE t = u
  <2>1. ~Has({y}, p)
    BY <1>4, <1>6 DEF Avoids, Has
  <2>2. PICK k \in DOMAIN r : r[k] = y
    <3>1. Has({y}, r)
      BY <1>2, <2>1, HasJoined
    <3> QED BY <3>1 DEF Has
  <2>3. /\ Len(q) = Len(c) + 2
        /\ \A i \in 1..Len(c) : q[i] = AddLoco(t, c[i])
        /\ q[Len(c) + 1].op = "SetDirection"
        /\ q[Len(c) + 2] = y
    <3>1. /\ Len(q) = Len(c) + 2
          /\ \A i \in 1..Len(c) : q[i] = AddLoco(t, c[i])
          /\ q[Len(c) + 1] = SetDirection(t, None, d.throttles[t].direction)
          /\ q[Len(c) + 2] = y
      BY <1>6, SlotCommands DEF q, c, y
    <3> QED BY <3>1 DEF SetDirection
  <2>4. k = Len(q) /\ n = Len(q)
    <3>1. y.op = "SetSpeed" /\ \A i \in 1..Len(c) : q[i].op = "AddLoco"
      <4>1. y.op = "SetSpeed"
        BY DEF y, Resumed, SetSpeed
      <4>2. \A l : AddLoco(t, l).op = "AddLoco"
        BY DEF AddLoco
      <4> QED BY <2>3, <4>1, <4>2
    <3>2. k \in 1..Len(q) /\ q[k] = y /\ k <= n /\ n <= Len(q)
      BY <1>1, <1>3, <2>2
    <3>3. ~(k \in 1..Len(c)) /\ k # Len(c) + 1
      BY <2>3, <3>1, <3>2
    <3> QED BY <1>1, <1>4, <2>3, <3>2, <3>3
  <2>5. /\ p \o r \in Seq(Command) /\ DOMAIN (p \o r) = 1..(Len(p) + Len(r))
        /\ \A i \in 1..Len(p) : (p \o r)[i] = p[i]
        /\ \A i \in 1..Len(r) : (p \o r)[Len(p) + i] = r[i]
        /\ Len(p) \in Nat /\ Len(r) \in Nat
    <3>1. r \in Seq(Command)
      BY <1>2
    <3> QED BY <3>1, Joined
  <2>6. ASSUME NEW i \in DOMAIN c PROVE Has({AddLoco(t, c[i])}, p \o r)
    <3>1. i \in DOMAIN r /\ r[i] = AddLoco(t, c[i])
      BY <1>3, <1>4, <2>3, <2>4
    <3>2. Has({AddLoco(t, c[i])}, r)
      BY <3>1 DEF Has
    <3> QED BY <1>2, <3>2, HasJoined
  <2>7. Followed(Own(t) \ {y}, {y}, p \o r)
    <3> SUFFICES ASSUME NEW i \in DOMAIN (p \o r), (p \o r)[i] \in Own(t), (p \o r)[i] # y
                 PROVE  \E j \in DOMAIN (p \o r) : j > i /\ (p \o r)[j] = y
      BY DEF Followed
    <3>1. Len(p) + k \in DOMAIN (p \o r) /\ (p \o r)[Len(p) + k] = y
      BY <1>2, <1>3, <2>2, <2>5
    <3>2. i \in 1..(Len(p) + k) /\ i # Len(p) + k /\ Len(p) + k \in Nat
      BY <1>2, <2>4, <2>5, <3>1
    <3>3. Len(p) + k > i
      BY <3>2
    <3> QED BY <3>1, <3>3
  <2> QED BY <2>6, <2>7
<1> QED BY <1>5, <1>6

LEMMA AgainNext ==
  ASSUME NEW d \in Domain, NEW n \in 1..MaxThrottles, NEW e, Again(d, e, n - 1)
  PROVE  Again(d, PushAll(e, ReacquireSlot(d, n - 1)), n)
<1> DEFINE u == n - 1
           q == ReacquireSlot(d, u)
           f == PushAll(e, q)
           p == e.out
<1>1. u \in Throttle /\ MaxThrottles \in Nat
  BY DomainAssumption DEF Throttle
<1>2. q \in Seq(Command) /\ \A i \in DOMAIN q : q[i] \in Own(u)
  BY <1>1, SlotCommands
<1>3. e \in Domain /\ p \in Seq(Command) /\ Len(p) <= CmdBuf
  BY DEF Again, Domain
<1>4. PICK m \in 0..Len(q) :
        f = [e EXCEPT !.out = p \o SubSeq(q, 1, m)] /\ Len(p \o SubSeq(q, 1, m)) <= CmdBuf
  BY <1>2, <1>3, PushAllFront
<1> DEFINE r == SubSeq(q, 1, m)
<1>5. r \in Seq(Command) /\ \A i \in DOMAIN r : r[i] \in Own(u)
  <2>1. r \in Seq(Command) /\ Len(r) = m /\ \A i \in 1..m : r[i] = q[i]
    BY <1>2, FrontJoined
  <2>2. DOMAIN r = 1..m /\ 1..m \subseteq DOMAIN q
    BY <1>2, <2>1
  <2> QED BY <1>2, <2>1, <2>2
<1>6. f \in Domain /\ f = [d EXCEPT !.out = f.out] /\ f.out = p \o r /\ Len(f.out) <= CmdBuf
  <2>1. f \in Domain
    BY <1>2, <1>3, PushAllType
  <2>2. f = [e EXCEPT !.out = p \o r] /\ Len(p \o r) <= CmdBuf
    BY <1>4
  <2>3. e = [d EXCEPT !.out = e.out]
    BY DEF Again
  <2> HIDE DEF f, r, q
  <2> QED BY <1>3, <2>1, <2>2, <2>3 DEF Domain
<1> HIDE DEF f, r, q, p
<1>7. ASSUME NEW i \in DOMAIN (p \o r) PROVE \E t \in Throttle : t < n /\ (p \o r)[i] \in Own(t)
  <2>1. CASE i \in DOMAIN p /\ (p \o r)[i] = p[i]
    <3>1. PICK t \in Throttle : t < u /\ p[i] \in Own(t)
      BY <2>1 DEF Again, p
    <3> QED BY <1>1, <2>1, <3>1 DEF Throttle
  <2>2. CASE \E k \in DOMAIN r : i = Len(p) + k /\ (p \o r)[i] = r[k]
    BY <1>1, <1>5, <2>2
  <2>3. p \in Seq(Command) /\ r \in Seq(Command)
    BY <1>3, <1>5
  <2> QED BY <2>1, <2>2, <2>3, JoinedFrom
<1>8. ASSUME NEW t \in Throttle, t < n, HasLoco(d, t) PROVE Whole(d, t, p \o r)
  <2>1. t # u => t < u
    BY <1>1, <1>8 DEF Throttle
  <2>2. t # u => Whole(d, t, p)
    BY <1>8, <2>1 DEF Again, p
  <2>3. t = u => Avoids(Own(t), p)
    BY <1>1 DEF Again, p, Avoids, Own, Throttle
  <2> QED BY <1>1, <1>3, <1>8, <2>2, <2>3, WholeNext DEF r, q
<1> QED BY <1>6, <1>7, <1>8 DEF Again, f, q

LEMMA ReacquireAgain ==
  ASSUME NEW d \in Domain, d.out = <<>>
  PROVE  Again(d, ReacquireSlots(d), d.max_throttles)
<1> DEFINE N == d.max_throttles
<1>1. N \in 1..MaxThrottles /\ MaxThrottles \in Nat
  BY DomainAssumption DEF Domain
<1>2. PICK g : Loop(d, g) /\ ReacquireSlots(d) = g[N]
  BY LoopResult
<1> DEFINE S == {n \in 0..N : Again(d, g[n], n)}
<1>3. ASSUME NEW n \in 0..N
      PROVE  g[n] = IF n = 0 THEN d ELSE PushAll(g[n - 1], ReacquireSlot(d, n - 1))
  <2> DEFINE h == [k \in 0..N |->
                     IF k = 0 THEN d ELSE PushAll(g[k - 1], ReacquireSlot(d, k - 1))]
  <2>1. g = h
    BY <1>2 DEF Loop
  <2>2. h[n] = IF n = 0 THEN d ELSE PushAll(g[n - 1], ReacquireSlot(d, n - 1))
    OBVIOUS
  <2> QED BY <2>1, <2>2
<1>4. 0 \in S
  <2>1. g[0] = d /\ 0 \in 0..N
    BY <1>1, <1>3
  <2>2. d = [d EXCEPT !.out = d.out]
    BY DEF Domain
  <2>3. Len(d.out) = 0 /\ 0 <= CmdBuf /\ DOMAIN d.out = {}
    BY DomainAssumption
  <2>4. \A t \in Throttle : ~(t < 0)
    BY DomainAssumption DEF Throttle
  <2>5. Again(d, d, 0)
    BY <2>2, <2>3, <2>4 DEF Again
  <2> QED BY <2>1, <2>5
<1>5. ASSUME NEW n \in 1..N, n - 1 \in S PROVE n \in S
  <2>1. g[n] = PushAll(g[n - 1], ReacquireSlot(d, n - 1)) /\ n \in 1..MaxThrottles
    BY <1>1, <1>3
  <2>2. Again(d, g[n - 1], n - 1)
    BY <1>5
  <2>3. Again(d, g[n], n)
    BY <2>1, <2>2, AgainNext
  <2> QED BY <2>3
<1>6. N \in S
  <2> HIDE DEF S, N
  <2>1. N \in Nat
    BY <1>1
  <2>2. 0..N \subseteq S
    BY <1>4, <1>5, <2>1, Induction
  <2> QED BY <2>1, <2>2
<1> QED BY <1>2, <1>6

(* Types.                                                                  *)

Wanted == [Throttle -> Speed \cup {None}]

LEMMA Emptied ==
  ASSUME NEW d \in Domain
  PROVE  LET e == [d EXCEPT !.out = <<>>]
         IN  /\ e \in Domain /\ e.out = <<>> /\ e.throttles = d.throttles
             /\ e.pending_speed = d.pending_speed /\ e.current = d.current
             /\ e.max_throttles = d.max_throttles /\ e.sentAge = d.sentAge
<1>1. <<>> \in Seq(Command)
  OBVIOUS
<1> QED BY <1>1 DEF Domain

LEMMA RestoreType ==
  ASSUME NEW d \in Domain, d.out = <<>>
  PROVE  LET e == RestoreLocos(d)
         IN  /\ e \in Domain /\ e.throttles = d.throttles
             /\ e.pending_speed = d.pending_speed /\ e.current = 0
             /\ e.max_throttles = d.max_throttles /\ e.sentAge = d.sentAge
             /\ Len(e.out) <= CmdBuf
             /\ \A i \in DOMAIN e.out : e.out[i].op = "AddLoco"
<1> DEFINE q == [i \in DOMAIN Saved |-> AddLoco(Saved[i].throttle, Saved[i].loco)]
           e == PushAll(d, q)
<1>1. /\ DOMAIN Saved = 1..Len(Saved) /\ Len(Saved) \in Nat /\ Len(Saved) <= CmdBuf
      /\ \A i \in 1..Len(Saved) : Saved[i].throttle \in Throttle /\ Saved[i].loco \in Locos
  <2> DEFINE R == [throttle : Throttle, loco : Locos]
  <2>1. Saved \in Seq(R) /\ Len(Saved) <= CmdBuf
    BY ReconnectAssumption
  <2>2. \A r \in R : r.throttle \in Throttle /\ r.loco \in Locos
    OBVIOUS
  <2> HIDE DEF R
  <2>3. DOMAIN Saved = 1..Len(Saved) /\ Len(Saved) \in Nat /\ \A i \in 1..Len(Saved) : Saved[i] \in R
    BY <2>1
  <2> QED BY <2>1, <2>2, <2>3
<1>2. \A t \in Throttle, l \in Locos : AddLoco(t, l) \in Command /\ AddLoco(t, l).op = "AddLoco"
  BY DEF AddLoco, Command
<1>3. q \in [1..Len(Saved) -> Command] /\ \A i \in DOMAIN Saved : q[i].op = "AddLoco"
  BY <1>1, <1>2
<1> HIDE DEF q
<1>4. q \in Seq(Command) /\ Len(q) = Len(Saved) /\ DOMAIN q = DOMAIN Saved
  BY <1>1, <1>3
<1>5. Len(d.out) + Len(q) <= CmdBuf
  <2>1. Len(d.out) = 0
    OBVIOUS
  <2> QED BY <1>1, <1>4, <2>1
<1>6. e \in Domain /\ e = [d EXCEPT !.out = d.out \o q]
  BY <1>4, <1>5, PushAllFits, PushAllType
<1>7. d.out \o q = q
  BY <1>4
<1>8. RestoreLocos(d) = [e EXCEPT !.current = 0]
  BY DEF RestoreLocos, q
<1> HIDE DEF e
<1>9. 0 \in Throttle
  BY DomainAssumption DEF Throttle
<1>10. e.out = q
  BY <1>6, <1>7 DEF Domain
<1>11. /\ e.throttles = d.throttles /\ e.pending_speed = d.pending_speed
       /\ e.max_throttles = d.max_throttles /\ e.sentAge = d.sentAge
  BY <1>6 DEF Domain
<1> DEFINE f == [e EXCEPT !.current = 0]
<1>12. /\ f \in Domain /\ f.current = 0 /\ f.out = q /\ f.throttles = d.throttles
       /\ f.pending_speed = d.pending_speed
       /\ f.max_throttles = d.max_throttles /\ f.sentAge = d.sentAge
  BY <1>6, <1>9, <1>10, <1>11 DEF Domain
<1> HIDE DEF f
<1>13. Len(q) <= CmdBuf /\ \A i \in DOMAIN q : q[i].op = "AddLoco"
  BY <1>1, <1>3, <1>4
<1> QED BY <1>8, <1>12, <1>13 DEF f

\* A reacquire leaves everything of the driving state but what is selected.
LEMMA ReacquireType ==
  ASSUME NEW d \in Domain, d.out = <<>>
  PROVE  LET e == Reacquire(d)
         IN  /\ e \in Domain /\ e.throttles = d.throttles
             /\ e.pending_speed = d.pending_speed
             /\ e.current \in {0, d.current}
             /\ e.max_throttles = d.max_throttles /\ e.sentAge = d.sentAge
             /\ Len(e.out) <= CmdBuf
<1>1. CASE \E t \in InUse(d) : HasLoco(d, t)
  <2> DEFINE e == ReacquireSlots(d)
  <2>1. e \in Domain /\ e = [d EXCEPT !.out = e.out] /\ Len(e.out) <= CmdBuf
    BY ReacquireAgain DEF Again
  <2>2. Reacquire(d) = e
    BY <1>1 DEF Reacquire
  <2> HIDE DEF e
  <2> QED BY <2>1, <2>2 DEF Domain
<1>2. CASE ~(\E t \in InUse(d) : HasLoco(d, t))
  <2>1. Reacquire(d) = RestoreLocos(d)
    BY <1>2 DEF Reacquire
  <2> QED BY <2>1, RestoreType
<1> QED BY <1>1, <1>2

LEMMA IterationType ==
  ASSUME TypeOK, NEW d \in Domain, NEW asked \in Wanted, NEW taken \in BOOLEAN,
         Iteration(d, asked, taken)
  PROVE  /\ state' \in Domain /\ seen' \in ConnState /\ restored' \in BOOLEAN
         /\ wanted' \in Wanted /\ intact' \in BOOLEAN
         /\ UNCHANGED <<session, cmds, station>>
<1> DEFINE d0 == [d EXCEPT !.out = <<>>]
           e == IF Reconnected /\ ~restored THEN Reacquire(d0) ELSE d
<1>1. d0 \in Domain /\ d0.out = <<>>
  BY Emptied
<1>2. e \in Domain
  BY <1>1, ReacquireType
<1>3. state' = FlushPendingSpeed(e)
  BY DEF Iteration
<1>4. state' \in Domain
  <2> HIDE DEF e
  <2> QED BY <1>2, <1>3, FlushPendingSpeedType
<1>5. wanted' \in Wanted
  <2>1. wanted' = [t \in Throttle |-> wanted'[t]] /\ \A t \in Throttle : wanted'[t] \in {asked[t], None}
    BY DEF Iteration
  <2> QED BY <2>1 DEF Wanted
<1>6. seen' \in ConnState /\ restored' \in BOOLEAN
  BY DEF Iteration, TypeOK
<1>7. intact' \in BOOLEAN /\ UNCHANGED <<session, cmds, station>>
  BY DEF Iteration, TypeOK
<1> QED BY <1>4, <1>5, <1>6, <1>7

LEMMA AskedType ==
  ASSUME TypeOK, NEW s \in Speed
  PROVE  Asked(s) \in Wanted /\ [wanted EXCEPT ![cur] = None] \in Wanted /\ wanted \in Wanted
BY DEF TypeOK, Asked, Wanted

LEMMA ForgottenType ==
  ASSUME TypeOK, NEW S
  PROVE  Forgotten(S) \in Wanted
<1>1. Forgotten(S) = [t \in Throttle |-> IF t \in S THEN None ELSE wanted[t]]
  BY DEF Forgotten
<1>2. \A t \in Throttle : (IF t \in S THEN None ELSE wanted[t]) \in Speed \cup {None}
  BY DEF TypeOK
<1> QED BY <1>1, <1>2 DEF Wanted

\* What the loop of the domain task keeps of the types, whatever it was told.
LEMMA DomainType ==
  ASSUME TypeOK, NEW d \in Domain, NEW asked \in Wanted, NEW taken \in BOOLEAN,
         Iteration(d, asked, taken),
         events' \in Seq(Event), Len(events') <= EventsDepth, ops' \in 0..MaxOps
  PROVE  TypeOK'
BY IterationType DEF TypeOK, Wanted, session, station

LEMMA UserType ==
  ASSUME TypeOK, User
  PROVE  TypeOK'
<1>1. /\ state \in Domain /\ events \in Seq(Event) /\ Len(events) <= EventsDepth
      /\ ops \in 0..MaxOps /\ MaxOps \in Nat
  BY ReconnectAssumption DEF TypeOK
<1>2. ASSUME NEW name, Input(name)
      PROVE  events' \in Seq(Event) /\ Len(events') <= EventsDepth /\ ops' \in 0..MaxOps
  BY <1>1, <1>2 DEF Input
<1>3. 0 \in Speed /\ Speed \in SUBSET Nat
  BY DomainAssumption DEF Speed
<1>4. wanted \in Wanted /\ [wanted EXCEPT ![cur] = None] \in Wanted
  BY <1>3, AskedType
<1>5. ASSUME NEW s \in Speed, UserSpeedSet(s) PROVE TypeOK'
  <2>1. SpeedSet(state, s) \in Domain /\ Asked(s) \in Wanted
    BY <1>1, <1>3, SpeedSetType, AskedType
  <2> QED BY <1>2, <1>5, <2>1, DomainType DEF UserSpeedSet
<1>6. ASSUME UserEStopCurrent PROVE TypeOK'
  <2>1. EStopCurrent(state) \in Domain /\ Asked(0) \in Wanted
    BY <1>1, <1>3, EStopCurrentType, AskedType
  <2> QED BY <1>2, <1>6, <2>1, DomainType DEF UserEStopCurrent
<1>7. ASSUME NEW l \in Locos, UserAcquire(l) PROVE TypeOK'
  <2>1. AcquireFromUi(state, l, "Forward") \in Domain
    BY <1>1, AcquireFromUiType DEF Direction
  <2> QED BY <1>2, <1>4, <1>7, <2>1, DomainType DEF UserAcquire
<1>8. ASSUME UserRelease PROVE TypeOK'
  <2>1. ReleaseAll(state) \in Domain
    BY <1>1, CurrentSlot, ReleaseType DEF ReleaseAll
  <2> QED BY <1>2, <1>4, <1>8, <2>1, DomainType DEF UserRelease
<1>9. ASSUME UserNextThrottle PROVE TypeOK'
  <2>1. NextThrottle(state) \in Domain
    BY <1>1, NextThrottleType
  <2> QED BY <1>2, <1>4, <1>9, <2>1, DomainType DEF UserNextThrottle
<1> QED BY <1>5, <1>6, <1>7, <1>8, <1>9 DEF User

LEMMA DomainEventType ==
  ASSUME TypeOK, DomainEvent
  PROVE  /\ Head(events) \in Event /\ Tail(events) \in Seq(Event)
         /\ ApplyEvent(state, Head(events)) \in Domain
         /\ (~Refused(Head(events))) \in BOOLEAN
         /\ TypeOK'
<1>1. events \in Seq(Event) /\ events # <<>> /\ Len(events) <= EventsDepth /\ EventsDepth \in Nat
  BY ReconnectAssumption DEF DomainEvent, TypeOK
<1>2. /\ Head(events) \in Event /\ Tail(events) \in Seq(Event)
      /\ Len(Tail(events)) <= EventsDepth
  <2>1. Len(Tail(events)) = Len(events) - 1 /\ Len(events) \in Nat
    BY <1>1
  <2> QED BY <1>1, <2>1
<1>3. ApplyEvent(state, Head(events)) \in Domain
  BY <1>2, ApplyEventType DEF TypeOK
<1>4. wanted \in Wanted /\ ops \in 0..MaxOps
  BY DEF TypeOK, Wanted
<1>5. events' = Tail(events) /\ ops' = ops
  BY DEF DomainEvent
<1>6. (~Refused(Head(events))) \in BOOLEAN
  BY DEF Refused
<1>7. TypeOK'
  BY <1>2, <1>3, <1>4, <1>5, <1>6, DomainType DEF DomainEvent
<1> QED BY <1>2, <1>3, <1>6, <1>7

LEMMA DomainTickType ==
  ASSUME TypeOK, DomainTick
  PROVE  TypeOK'
<1>1. /\ state \in Domain /\ wanted \in Wanted /\ TRUE \in BOOLEAN /\ events' = events /\ ops' = ops
      /\ events \in Seq(Event) /\ Len(events) <= EventsDepth /\ ops \in 0..MaxOps
  BY DEF TypeOK, DomainTick, Wanted
<1> QED BY <1>1, DomainType DEF DomainTick

LEMMA FlushSendType ==
  ASSUME TypeOK, FlushSend
  PROVE  TypeOK'
<1>1. /\ state \in Domain /\ state.out \in Seq(Command) /\ state.out # <<>>
      /\ cmds \in Seq(Command) /\ Len(cmds) <= Depth /\ Len(cmds) < Depth /\ Depth \in Nat
  BY ReconnectAssumption DEF FlushSend, TypeOK, Domain, Room
<1>2. Tail(state.out) \in Seq(Command) /\ Head(state.out) \in Command
  BY <1>1
<1>3. state' \in Domain
  BY <1>1, <1>2 DEF FlushSend, Domain
<1>4. cmds' \in Seq(Command) /\ Len(cmds') <= Depth
  BY <1>1, <1>2 DEF FlushSend
<1> QED BY <1>3, <1>4 DEF FlushSend, TypeOK, session, station

LEMMA FlushDropType ==
  ASSUME TypeOK, FlushDrop
  PROVE  TypeOK'
<1>1. state \in Domain /\ state.out \in Seq(Command) /\ DOMAIN state.out = 1..Len(state.out)
  BY DEF TypeOK, Domain
<1>2. PICK i \in DOMAIN state.out :
        /\ state' = [state EXCEPT !.out = WithoutIndex(@, i)]
        /\ wanted' = IF IsSpeed(state.out[i]) THEN Forgotten({state.out[i].throttle}) ELSE wanted
  BY DEF FlushDrop
<1>3. WithoutIndex(state.out, i) \in Seq(Command)
  BY <1>1, <1>2, WithoutIndexType
<1>4. state' \in Domain
  BY <1>1, <1>2, <1>3 DEF Domain
<1>5. wanted' \in Wanted
  BY <1>2, ForgottenType DEF TypeOK, Wanted
<1> QED BY <1>4, <1>5 DEF FlushDrop, TypeOK, session, station, Wanted

LEMMA AnswerType ==
  ASSUME TypeOK, NEW evs \in Seq(Event), Answer(evs)
  PROVE  /\ events' \in Seq(Event) /\ Len(events') <= EventsDepth /\ intact' \in BOOLEAN
         /\ \E n \in 0..Len(evs) : events' = events \o SubSeq(evs, 1, n)
         /\ intact' => intact /\ events' = events \o evs
<1> DEFINE m == Len(events)
           k == AtMost(m + Len(evs), EventsDepth)
<1>1. /\ events \in Seq(Event) /\ m \in Nat /\ m <= EventsDepth /\ EventsDepth \in Nat
      /\ Len(evs) \in Nat /\ intact \in BOOLEAN
  BY ReconnectAssumption DEF TypeOK
<1>2. k - m \in 0..Len(evs) /\ m + (k - m) = k /\ k <= EventsDepth
      /\ (m + Len(evs) <= EventsDepth => k - m = Len(evs))
  BY <1>1 DEF AtMost
<1> DEFINE n == k - m
           r == SubSeq(evs, 1, n)
<1>3. events' = SubSeq(events \o evs, 1, m + n)
  BY <1>2 DEF Answer
<1> HIDE DEF k
<1>4. r \in Seq(Event) /\ Len(r) = n /\ events' = events \o r
  <2>1. n \in 0..Len(evs)
    BY <1>2
  <2> HIDE DEF n
  <2> QED BY <1>1, <1>3, <2>1, FrontJoined
<1>5. events' \in Seq(Event) /\ Len(events') = m + n
  <2>1. n \in Nat
    BY <1>1, <1>2
  <2> HIDE DEF r, n
  <2> QED BY <1>1, <1>4, <2>1
<1>6. intact' \in BOOLEAN
  BY <1>1 DEF Answer
<1>7. ASSUME intact' PROVE intact /\ events' = events \o evs
  <2>1. intact /\ n = Len(evs)
    BY <1>2, <1>7 DEF Answer
  <2>2. SubSeq(evs, 1, Len(evs)) = evs
    OBVIOUS
  <2> QED BY <1>4, <2>1, <2>2
<1> QED BY <1>1, <1>2, <1>4, <1>5, <1>6, <1>7

\* What the station reports on a command.
LEMMA AnswersType ==
  /\ \A t \in Throttle, l \in Locos, s \in Speed :
       Report("slot", <<[op |-> "AddressAdded", throttle |-> t, loco |-> l]>>)
         \o Report("speed", <<[op |-> "Speed", throttle |-> t, speed |-> s]>>) \in Seq(Event)
  /\ \A t \in Throttle, S \in SUBSET Locos : \A q \in EachRemoved(t, S) : Report("slot", q) \in Seq(Event)
  /\ \A t \in Throttle, s \in Speed :
       Report("speed", <<[op |-> "Speed", throttle |-> t, speed |-> s]>>) \in Seq(Event)
  /\ <<>> \in Seq(Event)
<1>1. /\ \A t \in Throttle, l \in Locos :
           Report("slot", <<[op |-> "AddressAdded", throttle |-> t, loco |-> l]>>) \in Seq(Event)
      /\ \A t \in Throttle, s \in Speed :
           Report("speed", <<[op |-> "Speed", throttle |-> t, speed |-> s]>>) \in Seq(Event)
      /\ <<>> \in Seq(Event)
  BY ReportsType DEF Report
<1>2. \A p, q \in Seq(Event) : p \o q \in Seq(Event)
  OBVIOUS
<1>3. ASSUME NEW t \in Throttle, NEW S \in SUBSET Locos, NEW q \in EachRemoved(t, S)
      PROVE  Report("slot", q) \in Seq(Event)
  <2>1. q \in [1..Cardinality(S) -> [op : {"AddressRemoved"}, throttle : {t}, loco : S]]
    BY DEF EachRemoved
  <2>2. [op : {"AddressRemoved"}, throttle : {t}, loco : S] \in SUBSET Event
    BY DEF Event
  <2>3. Cardinality(S) \in Nat
    BY ReconnectAssumption, FS_Subset, FS_CardinalityType
  <2>4. q \in Seq(Event)
    BY <2>1, <2>2, <2>3
  <2> QED BY <1>1, <2>4 DEF Report
<1> QED BY <1>1, <1>2, <1>3

LEMMA StationType ==
  ASSUME TypeOK, NEW c \in Command,
         StationAdd(c) \/ StationRelease(c) \/ StationSpeed(c) \/ StationOther(c)
  PROVE  /\ served' \in [Throttle -> SUBSET Locos] /\ locoSpeed' \in [Locos -> Speed]
         /\ events' \in Seq(Event) /\ Len(events') <= EventsDepth /\ intact' \in BOOLEAN
<1>1. /\ served \in [Throttle -> SUBSET Locos] /\ locoSpeed \in [Locos -> Speed]
      /\ events \in Seq(Event) /\ Len(events) <= EventsDepth /\ intact \in BOOLEAN
  BY DEF TypeOK
<1>2. CASE StationAdd(c)
  <2>1. c.throttle \in Throttle /\ c.loco \in Locos
    BY <1>2 DEF StationAdd, Command
  <2>2. locoSpeed[c.loco] \in Speed
    BY <1>1, <2>1
  <2>3. events' \in Seq(Event) /\ Len(events') <= EventsDepth /\ intact' \in BOOLEAN
    BY <1>2, <2>1, <2>2, AnswersType, AnswerType DEF StationAdd
  <2>4. served' \in [Throttle -> SUBSET Locos] /\ locoSpeed' = locoSpeed
    BY <1>1, <1>2, <2>1 DEF StationAdd
  <2> QED BY <1>1, <2>3, <2>4
<1>3. CASE StationRelease(c)
  <2>1. c.throttle \in Throttle
    BY <1>3 DEF StationRelease, Command
  <2>2. PICK q \in EachRemoved(c.throttle, served[c.throttle]) : Answer(Report("slot", q))
    BY <1>3 DEF StationRelease
  <2>3. served[c.throttle] \in SUBSET Locos
    BY <1>1, <2>1
  <2>4. Report("slot", q) \in Seq(Event)
    BY <2>1, <2>2, <2>3, AnswersType
  <2>5. events' \in Seq(Event) /\ Len(events') <= EventsDepth /\ intact' \in BOOLEAN
    BY <2>2, <2>4, AnswerType
  <2>6. served' \in [Throttle -> SUBSET Locos] /\ locoSpeed' = locoSpeed
    BY <1>1, <1>3 DEF StationRelease
  <2> QED BY <1>1, <2>5, <2>6
<1>4. CASE StationSpeed(c)
  <2> DEFINE s == IF c.op = "EStop" THEN 0 ELSE c.speed
  <2>1. c.throttle \in Throttle /\ s \in Speed
    <3>1. 0 \in Speed
      BY DomainAssumption DEF Speed
    <3> QED BY <1>4, <3>1 DEF StationSpeed, Command
  <2>2. /\ locoSpeed' = [l \in Locos |-> IF l \in served[c.throttle] THEN s ELSE locoSpeed[l]]
        /\ Answer(IF served[c.throttle] = {} THEN <<>> ELSE Report("speed",
             <<[op |-> "Speed", throttle |-> c.throttle, speed |-> s]>>))
        /\ served' = served
    BY <1>4 DEF StationSpeed
  <2> HIDE DEF s
  <2>3. (IF served[c.throttle] = {} THEN <<>> ELSE Report("speed",
          <<[op |-> "Speed", throttle |-> c.throttle, speed |-> s]>>)) \in Seq(Event)
    BY <2>1, AnswersType
  <2>4. events' \in Seq(Event) /\ Len(events') <= EventsDepth /\ intact' \in BOOLEAN
    BY <2>2, <2>3, AnswerType
  <2>5. locoSpeed' \in [Locos -> Speed]
    BY <1>1, <2>1, <2>2
  <2> QED BY <1>1, <2>2, <2>4, <2>5
<1>5. CASE StationOther(c)
  BY <1>1, <1>5 DEF StationOther, station
<1> QED BY <1>2, <1>3, <1>4, <1>5

LEMMA SessionForwardType ==
  ASSUME TypeOK, SessionForward
  PROVE  TypeOK'
<1> DEFINE c == Head(cmds)
<1>1. c \in Command /\ cmds' \in Seq(Command) /\ Len(cmds') <= Depth
  <2>1. cmds \in Seq(Command) /\ cmds # <<>> /\ Len(cmds) <= Depth /\ Depth \in Nat
    BY ReconnectAssumption DEF TypeOK, SessionForward
  <2>2. Head(cmds) \in Command /\ Tail(cmds) \in Seq(Command) /\ Len(Tail(cmds)) = Len(cmds) - 1
        /\ Len(cmds) \in Nat
    BY <2>1
  <2> QED BY <2>1, <2>2 DEF SessionForward
<1>2. UNCHANGED <<state, seen, restored, session, ops>>
  BY DEF SessionForward
<1>3. /\ served' \in [Throttle -> SUBSET Locos] /\ locoSpeed' \in [Locos -> Speed]
      /\ events' \in Seq(Event) /\ Len(events') <= EventsDepth /\ intact' \in BOOLEAN
  <2>1. CASE link = "up"
    BY <1>1, <2>1, StationType DEF SessionForward
  <2>2. CASE link # "up"
    BY <2>2 DEF SessionForward, station, TypeOK
  <2> QED BY <2>1, <2>2
<1>4. wanted' \in Wanted
  <2>1. wanted' = wanted \/ \E S : wanted' = Forgotten(S)
    BY DEF SessionForward
  <2> QED BY <2>1, ForgottenType DEF TypeOK, Wanted
<1> QED BY <1>1, <1>2, <1>3, <1>4 DEF TypeOK, session, Wanted

LEMMA LinkDropType ==
  ASSUME TypeOK, LinkDrop
  PROVE  TypeOK'
<1>1. drops' \in 0..MaxDrops
  BY ReconnectAssumption DEF LinkDrop, TypeOK
<1>2. served' \in [Throttle -> SUBSET Locos] /\ locoSpeed' \in [Locos -> Speed]
  <2>1. 0 \in Speed
    BY DomainAssumption DEF Speed
  <2> QED BY <2>1 DEF LinkDrop, TypeOK
<1>3. events' \in Seq(Event) /\ Len(events') <= EventsDepth
  <2>1. events \in Seq(Event) /\ Len(events) <= EventsDepth /\ EventsDepth \in Nat
    BY ReconnectAssumption DEF TypeOK
  <2>2. PICK n \in 0..Len(events) : events' = SubSeq(events, 1, n)
    BY DEF LinkDrop
  <2>3. SubSeq(events, 1, n) \in Seq(Event) /\ Len(SubSeq(events, 1, n)) = n
    BY <2>1, FrontJoined
  <2> QED BY <2>1, <2>2, <2>3
<1> QED BY <1>1, <1>2, <1>3 DEF LinkDrop, TypeOK

LEMMA TimePassesType ==
  ASSUME TypeOK, TimePasses
  PROVE  TypeOK'
<1>1. state' \in Domain
  BY DEF TimePasses, TypeOK, Domain, SentAge
<1> QED BY <1>1 DEF TimePasses, TypeOK, session, station

LEMMA InitType == Init => TypeOK
<1> SUFFICES ASSUME Init PROVE TypeOK
  OBVIOUS
<1>1. state \in Domain
  BY NewType DEF Init
<1>2. /\ 0 \in Speed /\ 0 \in 0..MaxOps /\ 0 \in 0..MaxDrops /\ 0 <= Depth /\ 0 <= EventsDepth
      /\ Len(<<>>) = 0 /\ <<>> \in Seq(Command) /\ <<>> \in Seq(Event)
  BY DomainAssumption, ReconnectAssumption DEF Speed
<1> QED BY <1>1, <1>2 DEF Init, TypeOK, ConnState

LEMMA NextType ==
  ASSUME TypeOK, [Next]_vars
  PROVE  TypeOK'
<1>1. CASE User
  BY <1>1, UserType
<1>2. CASE DomainEvent
  BY <1>2, DomainEventType
<1>3. CASE DomainTick
  BY <1>3, DomainTickType
<1>4. CASE Flush
  BY <1>4, FlushSendType, FlushDropType DEF Flush
<1>5. CASE SessionRetry
  BY <1>5 DEF SessionRetry, TypeOK, station, ConnState
<1>6. CASE SessionUp
  BY <1>6 DEF SessionUp, TypeOK, station, ConnState
<1>7. CASE SessionRefused
  BY <1>7 DEF SessionRefused, TypeOK, station, ConnState
<1>8. CASE SessionLost
  BY <1>8 DEF SessionLost, TypeOK, station, ConnState
<1>9. CASE SessionForward
  BY <1>9, SessionForwardType
<1>10. CASE LinkDrop
  BY <1>10, LinkDropType
<1>11. CASE TimePasses
  BY <1>11, TimePassesType
<1>12. CASE UNCHANGED vars
  BY <1>12 DEF vars, TypeOK, session, station
<1> QED BY <1>1, <1>2, <1>3, <1>4, <1>5, <1>6, <1>7, <1>8, <1>9, <1>10, <1>11, <1>12 DEF Next

(* Through any number of lost connections every variable keeps its type:   *)
(* the channels never hold more than they are deep, the coalescing slot a  *)
(* speed of a throttle or none, and what is wanted a speed (session.rs,    *)
(* domain/task.rs).                                                        *)
THEOREM TypeCorrect == Spec => []TypeOK
<1>1. Init => TypeOK
  BY InitType
<1>2. TypeOK /\ [Next]_vars => TypeOK'
  BY NextType
<1> QED BY <1>1, <1>2, PTL DEF Spec

-----------------------------------------------------------------------------
(* What the operator asked of a loco stays with it.  For every throttle of *)
(* which a speed is wanted the slot shows it, and it is coalesced or on    *)
(* its way: what would spoil it, a loco that is added or another speed of  *)
(* that throttle, comes before a command that settles it.                  *)

Differs(t, v) ==
  Adds(t) \cup {c \in Command : IsSpeed(c) /\ c.throttle = t /\ Value(c) # v}

Tells(t) == {c \in Command : c.op \in {"SetSpeed", "EStop", "AddLoco"} /\ c.throttle = t}

Runs(t, v) == \A l \in served[t] : locoSpeed[l] = v

Delivers(t, v) ==
  /\ Followed(Differs(t, v), Settles(t, v), Pipeline)
  /\ Has(Settles(t, v), Pipeline) \/ Runs(t, v)

\* The coalescing slot p is taken for throttle t.
For(p, t) == p # None /\ p.throttle = t

Heard(t, v) ==
  IF For(state.pending_speed, t) THEN state.pending_speed.speed = v ELSE Delivers(t, v)

Shows(d, t, v) == t \in InUse(d) /\ HasLoco(d, t) /\ d.throttles[t].speed = v

WantedKept ==
  /\ state.current \in InUse(state)
  /\ state.pending_speed # None => state.pending_speed.speed # 0
  /\ \A t \in Throttle : wanted[t] # None => Shows(state, t, wanted[t]) /\ Heard(t, wanted[t])
  /\ link # "up" => \A t \in Throttle : served[t] = {}
  /\ \A i \in DOMAIN events : events[i].op # "Speed"

LEMMA DiffersTells ==
  ASSUME NEW t \in Throttle, NEW v
  PROVE  Differs(t, v) \subseteq Tells(t) /\ Settles(t, v) \subseteq Tells(t)
BY DEF Differs, Settles, Tells, Adds, IsSpeed

LEMMA FollowedLater ==
  ASSUME NEW q \in Seq(Command), NEW r \in Seq(Command), NEW M, NEW Z,
         Followed(M, Z, r), Has(Z, r)
  PROVE  Followed(M, Z, q \o r)
<1>1. /\ DOMAIN q = 1..Len(q) /\ DOMAIN r = 1..Len(r)
      /\ DOMAIN (q \o r) = 1..(Len(q) + Len(r))
      /\ Len(q) \in Nat /\ Len(r) \in Nat
      /\ \A i \in 1..Len(q) : (q \o r)[i] = q[i]
      /\ \A i \in 1..Len(r) : (q \o r)[Len(q) + i] = r[i]
  BY Joined
<1> SUFFICES ASSUME NEW i \in DOMAIN (q \o r), (q \o r)[i] \in M
             PROVE  \E j \in DOMAIN (q \o r) : j > i /\ (q \o r)[j] \in Z
  BY DEF Followed
<1>2. \A k \in DOMAIN r : Len(q) + k \in DOMAIN (q \o r) /\ (q \o r)[Len(q) + k] = r[k]
  BY <1>1
<1>3. CASE i \in 1..Len(q)
  <2>1. PICK k \in DOMAIN r : r[k] \in Z
    BY DEF Has
  <2>2. Len(q) + k > i
    BY <1>1, <1>3, <2>1
  <2> QED BY <1>2, <2>1, <2>2
<1>4. CASE ~(i \in 1..Len(q))
  <2>1. i - Len(q) \in DOMAIN r /\ Len(q) + (i - Len(q)) = i
    BY <1>1, <1>4
  <2>2. r[i - Len(q)] \in M
    BY <1>2, <2>1
  <2>3. PICK k \in DOMAIN r : k > i - Len(q) /\ r[k] \in Z
    BY <2>1, <2>2 DEF Followed
  <2>4. Len(q) + k > i
    BY <1>1, <2>1, <2>3
  <2> QED BY <1>2, <2>3, <2>4
<1> QED BY <1>3, <1>4

\* What one branch of the loop may make of the driving state, and of what is wanted.
Kept(d, asked, t) ==
  /\ asked[t] = wanted[t]
  /\ d.throttles[t].speed = state.throttles[t].speed
  /\ Avoids(Tells(t), d.out)
  /\ For(state.pending_speed, t) \/ For(d.pending_speed, t) =>
       d.pending_speed = state.pending_speed \/ (t # state.current /\ For(state.pending_speed, t))

Told(d, asked, t) ==
  /\ t \in InUse(state) /\ d.throttles[t].speed = asked[t]
  /\ \/ \E c \in Settles(t, asked[t]) : d.out = <<c>> /\ d.pending_speed = None
     \/ d.out = <<>> /\ d.pending_speed = [throttle |-> t, speed |-> asked[t]]

Says(d, asked) ==
  /\ state.out = <<>> /\ Len(d.out) < CmdBuf
  /\ d.max_throttles = state.max_throttles /\ d.current \in InUse(state)
  /\ d.pending_speed # None => d.pending_speed.speed # 0
  /\ \A t \in Throttle : asked[t] # None /\ HasLoco(d, t) =>
       Kept(d, asked, t) \/ Told(d, asked, t)

\* The coalesced speed, let out at the end of the iteration.
LEMMA FlushPendingFields ==
  ASSUME NEW d \in Domain, Len(d.out) <= CmdBuf
  PROVE  LET e == FlushPendingSpeed(d)
             p == d.pending_speed
         IN  /\ e \in Domain /\ e.throttles = d.throttles /\ e.current = d.current
             /\ e.max_throttles = d.max_throttles
             /\ p # None => p.throttle \in Throttle /\ p.speed \in Speed
             /\ \/ e.out = d.out /\ e.pending_speed = p
                \/ /\ p # None /\ e.pending_speed = None
                   /\ \/ e.out = d.out \o <<SetSpeed(p.throttle, p.speed)>>
                      \/ e.out = d.out /\ Len(d.out) = CmdBuf
<1> DEFINE p == d.pending_speed
           e == FlushPendingSpeed(d)
           c == SetSpeed(p.throttle, p.speed)
<1>1. e \in Domain
  BY FlushPendingSpeedType
<1>2. p # None => p.throttle \in Throttle /\ p.speed \in Speed
  BY DEF Domain
<1>3. CASE ~(p # None /\ Due(d))
  BY <1>1, <1>2, <1>3 DEF FlushPendingSpeed
<1>4. CASE p # None /\ Due(d)
  <2>1. c \in Command /\ <<c>> \in Seq(Command) /\ Len(<<c>>) = 1
    BY <1>2, <1>4 DEF SetSpeed, Command
  <2> HIDE DEF c
  <2>2. PICK n \in 0..Len(<<c>>) :
          /\ PushAll(d, <<c>>) = [d EXCEPT !.out = d.out \o SubSeq(<<c>>, 1, n)]
          /\ Len(d.out \o SubSeq(<<c>>, 1, n)) <= CmdBuf
    BY <2>1, PushAllFront
  <2>3. Len(d.out) < CmdBuf => PushAll(d, <<c>>) = [d EXCEPT !.out = d.out \o <<c>>]
    <3>1. Len(d.out) \in Nat /\ CmdBuf \in Nat
      BY DomainAssumption DEF Domain
    <3>2. Len(d.out) < CmdBuf => Len(d.out) + Len(<<c>>) <= CmdBuf
      BY <2>1, <3>1
    <3> QED BY <2>1, <3>2, PushAllFits
  <2>4. Len(d.out) = CmdBuf => PushAll(d, <<c>>) = [d EXCEPT !.out = d.out]
    <3>1. d.out \in Seq(Command) /\ Len(d.out) \in Nat /\ CmdBuf \in Nat
      BY DomainAssumption DEF Domain
    <3>2. /\ SubSeq(<<c>>, 1, n) \in Seq(Command) /\ Len(SubSeq(<<c>>, 1, n)) = n
      BY <2>1, FrontJoined
    <3>3. Len(d.out \o SubSeq(<<c>>, 1, n)) = Len(d.out) + n
      <4> DEFINE r == SubSeq(<<c>>, 1, n)
                 q == d.out
      <4>1. q \in Seq(Command) /\ r \in Seq(Command) /\ Len(r) = n
        BY <3>1, <3>2
      <4> HIDE DEF q, r
      <4>2. Len(q \o r) = Len(q) + n
        BY <4>1
      <4> QED BY <4>2 DEF q, r
    <3>4. Len(d.out) = CmdBuf => n = 0
      BY <2>1, <2>2, <3>1, <3>3
    <3>5. SubSeq(<<c>>, 1, 0) = <<>> /\ d.out \o <<>> = d.out
      BY <3>1
    <3> QED BY <2>2, <3>4, <3>5
  <2>5. e = [PushAll(d, <<c>>) EXCEPT !.last_speed_sent = p.speed,
               !.last_speed_throttle = p.throttle, !.sentAge = "window", !.pending_speed = None]
    BY <1>4 DEF FlushPendingSpeed, EmitSpeed, PushCmd, c
  <2>6. Len(d.out) < CmdBuf \/ Len(d.out) = CmdBuf
    <3>1. Len(d.out) \in Nat /\ CmdBuf \in Nat
      BY DomainAssumption DEF Domain
    <3> QED BY <3>1
  <2>7. \E q : /\ q = d.out \o <<c>> \/ (q = d.out /\ Len(d.out) = CmdBuf)
               /\ PushAll(d, <<c>>) = [d EXCEPT !.out = q]
    BY <2>3, <2>4, <2>6
  <2> HIDE DEF e, p
  <2>8. /\ e.throttles = d.throttles /\ e.current = d.current
        /\ e.max_throttles = d.max_throttles /\ e.pending_speed = None
        /\ e.out = d.out \o <<c>> \/ (e.out = d.out /\ Len(d.out) = CmdBuf)
    BY <2>5, <2>7 DEF Domain
  <2> QED BY <1>1, <1>2, <1>4, <2>8 DEF e, p, c
<1> QED BY <1>3, <1>4

LEMMA KeptSame ==
  ASSUME NEW d, NEW asked, NEW t, asked[t] = wanted[t],
         d.throttles[t].speed = state.throttles[t].speed,
         d.out = <<>>, d.pending_speed = state.pending_speed
  PROVE  Kept(d, asked, t)
BY DEF Kept, Avoids

LEMMA OneFits == \A x : Len(<<x>>) = 1 /\ Len(<<x>>) < CmdBuf
<1>1. \A x : Len(<<x>>) = 1
  OBVIOUS
<1> QED BY <1>1, EmptyFits

LEMMA CommandSpeaks ==
  ASSUME NEW t \in Throttle, NEW s \in Speed
  PROVE  /\ SetSpeed(t, s) \in Settles(t, s)
         /\ EStop(t) \in Settles(t, 0)
BY DEF SetSpeed, EStop, Settles, IsSpeed, Value, Command

LEMMA SpeedSetSays ==
  ASSUME TypeOK, WantedKept, state.out = <<>>, NEW s \in Speed
  PROVE  Says(SpeedSet(state, s), Asked(s))
<1> DEFINE d == SpeedSet(state, s)
<1>1. /\ state \in Domain /\ s \in Nat /\ AtMost(s, MaxSpeed) = s
      /\ cur \in Throttle /\ cur \in InUse(state) /\ state.throttles \in [Throttle -> Slot]
      /\ wanted \in Wanted
  BY DomainAssumption DEF TypeOK, Speed, AtMost, cur, Domain, WantedKept, Wanted
<1>2. Len(<<>>) = 0 /\ 0 < CmdBuf /\ 1 < CmdBuf
  BY EmptyFits
<1>3. CASE ~HasLoco(state, cur)
  <2>1. d = state /\ Asked(s) = wanted
    BY <1>3 DEF SpeedSet, Asked, cur
  <2>2. \A t \in Throttle : Kept(state, wanted, t)
    BY KeptSame
  <2> QED BY <1>1, <1>2, <2>1, <2>2 DEF Says, WantedKept, cur
<1>4. CASE HasLoco(state, cur)
  <2>1. \/ d.out = <<SetSpeed(cur, s)>> /\ d.pending_speed = None
        \/ s # 0 /\ d.out = <<>> /\ d.pending_speed = [throttle |-> cur, speed |-> s]
    BY <1>1, <1>4, SpeedSetOut DEF cur
  <2>2. d.throttles[cur].speed = s
    BY <1>1, <1>4, SpeedSetShows DEF cur
  <2>3. /\ \A t \in Throttle : t # cur => d.throttles[t] = state.throttles[t]
        /\ d.max_throttles = state.max_throttles /\ d.current = cur
    BY <1>1, <1>4 DEF SpeedSet, EmitSpeed, PushCmd, PushAll, Domain, cur
  <2>4. Asked(s) = [wanted EXCEPT ![cur] = s]
    BY <1>4 DEF Asked
  <2> HIDE DEF d
  <2>5. Told(d, Asked(s), cur)
    BY <1>1, <2>1, <2>2, <2>4, CommandSpeaks DEF Told, Wanted
  <2>6. ASSUME NEW t \in Throttle, t # cur PROVE Kept(d, Asked(s), t)
    <3>1. Avoids(Tells(t), d.out)
      BY <2>1, <2>6 DEF Avoids, Tells, SetSpeed
    <3>2. ~For(d.pending_speed, t)
      BY <2>1, <2>6 DEF For
    <3> QED BY <1>1, <2>3, <2>4, <2>6, <3>1, <3>2 DEF Kept, cur, Wanted
  <2>7. Len(d.out) < CmdBuf
    BY <1>2, <2>1, OneFits
  <2>8. d.pending_speed # None => d.pending_speed.speed # 0
    BY <2>1
  <2> QED BY <1>1, <2>3, <2>5, <2>6, <2>7, <2>8 DEF Says, cur, d
<1> QED BY <1>3, <1>4

LEMMA EStopSays ==
  ASSUME TypeOK, WantedKept, state.out = <<>>
  PROVE  Says(EStopCurrent(state), Asked(0))
<1> DEFINE d == EStopCurrent(state)
<1>1. /\ state \in Domain /\ 0 \in Speed
      /\ cur \in Throttle /\ cur \in InUse(state) /\ state.throttles \in [Throttle -> Slot]
      /\ wanted \in Wanted
  BY DomainAssumption DEF TypeOK, Speed, cur, Domain, WantedKept, Wanted
<1>2. Len(<<>>) = 0 /\ 0 < CmdBuf /\ 1 < CmdBuf
  BY EmptyFits
<1>3. CASE ~HasLoco(state, cur)
  <2>1. d = state /\ Asked(0) = wanted
    BY <1>3 DEF EStopCurrent, Asked, cur
  <2>2. \A t \in Throttle : Kept(state, wanted, t)
    BY KeptSame
  <2> QED BY <1>1, <1>2, <2>1, <2>2 DEF Says, WantedKept, cur
<1>4. CASE HasLoco(state, cur)
  <2>1. d.out = <<EStop(cur)>> /\ d.pending_speed = None
    BY <1>1, <1>4, EStopCurrentOut DEF cur
  <2>2. /\ \A t \in Throttle : t # cur => d.throttles[t] = state.throttles[t]
        /\ d.throttles[cur].speed = 0
        /\ d.max_throttles = state.max_throttles /\ d.current = cur
    BY <1>1, <1>4 DEF EStopCurrent, PushCmd, PushAll, Domain, Slot, cur
  <2>3. Asked(0) = [wanted EXCEPT ![cur] = 0]
    BY <1>4 DEF Asked
  <2> HIDE DEF d
  <2>4. Told(d, Asked(0), cur)
    BY <1>1, <2>1, <2>2, <2>3, CommandSpeaks DEF Told, Wanted
  <2>5. ASSUME NEW t \in Throttle, t # cur PROVE Kept(d, Asked(0), t)
    <3>1. Avoids(Tells(t), d.out)
      BY <2>1, <2>5 DEF Avoids, Tells, EStop
    <3>2. ~For(d.pending_speed, t)
      BY <2>1 DEF For
    <3> QED BY <1>1, <2>2, <2>3, <2>5, <3>1, <3>2 DEF Kept, cur, Wanted
  <2>6. Len(d.out) < CmdBuf
    BY <1>2, <2>1
  <2> QED BY <1>1, <2>1, <2>2, <2>4, <2>5, <2>6 DEF Says, cur, d
<1> QED BY <1>3, <1>4

\* The slot selected is emptied or filled anew, the others are left alone.
LEMMA SlotSays ==
  ASSUME TypeOK, WantedKept, state.out = <<>>, NEW d \in Domain,
         d.pending_speed = state.pending_speed, d.current = cur, Len(d.out) < CmdBuf,
         d.max_throttles = state.max_throttles,
         \A t \in Throttle : t # cur =>
           d.throttles[t] = state.throttles[t] /\ Avoids(Tells(t), d.out)
  PROVE  Says(d, [wanted EXCEPT ![cur] = None])
<1> DEFINE asked == [wanted EXCEPT ![cur] = None]
<1>1. cur \in Throttle /\ cur \in InUse(state) /\ wanted \in Wanted
  BY DEF TypeOK, cur, Domain, WantedKept, Wanted
<1>2. asked[cur] = None
  BY <1>1 DEF Wanted
<1>3. ASSUME NEW t \in Throttle, t # cur PROVE Kept(d, asked, t)
  <2>1. asked[t] = wanted[t]
    BY <1>1, <1>3 DEF Wanted
  <2> QED BY <1>3, <2>1 DEF Kept
<1> HIDE DEF asked
<1>4. d.pending_speed # None => d.pending_speed.speed # 0
  BY DEF WantedKept
<1>5. Says(d, asked)
  BY <1>1, <1>2, <1>3, <1>4 DEF Says
<1> QED BY <1>5 DEF asked

LEMMA ReleaseSays ==
  ASSUME TypeOK, WantedKept, state.out = <<>>
  PROVE  Says(ReleaseAll(state), [wanted EXCEPT ![cur] = None])
<1> DEFINE d == ReleaseAll(state)
<1>1. /\ state \in Domain /\ cur \in Throttle /\ state.throttles \in [Throttle -> Slot]
      /\ d \in Domain
  BY SMTT(60), CurrentSlot, ReleaseType DEF TypeOK, cur, Domain, ReleaseAll
<1>2. Len(<<>>) = 0 /\ 0 < CmdBuf /\ 1 < CmdBuf
  BY EmptyFits
<1>3. /\ d.pending_speed = state.pending_speed /\ d.current = cur
      /\ d.max_throttles = state.max_throttles
      /\ \A t \in Throttle : t # cur => d.throttles[t] = state.throttles[t]
  BY <1>1 DEF ReleaseAll, Release, ClearConsist, PushCmd, PushAll, Domain, cur
<1>4. d.out = <<>> \/ d.out = <<ReleaseThrottle(cur)>>
  <2>1. CASE HasLoco(state, cur)
    BY <1>1, <2>1, ReleaseOut DEF ReleaseAll, cur
  <2>2. CASE ~HasLoco(state, cur)
    BY <2>2 DEF ReleaseAll, Release, cur
  <2> QED BY <2>1, <2>2
<1> HIDE DEF d
<1>5. Len(d.out) < CmdBuf /\ \A t \in Throttle : t # cur => Avoids(Tells(t), d.out)
  <2>1. Len(d.out) < CmdBuf
    BY <1>2, <1>4, OneFits
  <2>2. ASSUME NEW i \in DOMAIN d.out PROVE d.out[i] = ReleaseThrottle(cur)
    BY <1>4
  <2> QED BY <2>1, <2>2 DEF Avoids, Tells, ReleaseThrottle
<1> QED BY <1>1, <1>3, <1>5, SlotSays DEF d

\* An acquire leaves the slots that are not selected alone.
LEMMA AcquireLeaves ==
  ASSUME TypeOK, NEW l \in Locos
  PROVE  LET d == AcquireFromUi(state, l, "Forward")
         IN  /\ d.current = cur /\ d.max_throttles = state.max_throttles
             /\ \A t \in Throttle : t # cur => d.throttles[t] = state.throttles[t]
<1> DEFINE d == AcquireFromUi(state, l, "Forward")
<1>0. /\ state \in Domain /\ cur \in Throttle /\ state.throttles \in [Throttle -> Slot]
  BY CurrentSlot DEF TypeOK, cur, Domain
<1> DEFINE e == Acquire(state, l)
           r == ReleaseAll(state)
<1>1. /\ r \in Domain /\ r.current = cur /\ r.max_throttles = state.max_throttles
      /\ \A t \in Throttle : t # cur => r.throttles[t] = state.throttles[t]
  <2>1. r \in Domain
    BY <1>0, ReleaseType DEF ReleaseAll, cur
  <2>2. CASE ~HasLoco(state, cur)
    BY <1>0, <2>1, <2>2 DEF ReleaseAll, Release, cur
  <2>3. CASE HasLoco(state, cur)
    <3> DEFINE p == PushCmd(state, ReleaseThrottle(cur))
               q == ClearConsist(p, cur)
    <3>1. ReleaseThrottle(cur) \in Command
      BY <1>0 DEF ReleaseThrottle, Command
    <3>2. p \in Domain /\ q \in Domain
      BY <1>0, <3>1, PushCmdType, ClearConsistType
    <3>3. /\ p.current = cur /\ p.max_throttles = state.max_throttles
          /\ p.throttles = state.throttles
      BY <1>0 DEF PushCmd, PushAll, Domain, cur
    <3>4. r = [q EXCEPT !.throttles[cur].speed = 0]
      BY <2>3 DEF ReleaseAll, Release, cur
    <3> HIDE DEF p, r
    <3>5. /\ q.current = cur /\ q.max_throttles = state.max_throttles
          /\ \A t \in Throttle : t # cur => q.throttles[t] = state.throttles[t]
      BY <1>0, <3>2, <3>3 DEF ClearConsist, Domain
    <3> HIDE DEF q
    <3> QED BY <1>0, <2>1, <3>2, <3>4, <3>5 DEF Domain
  <2> QED BY <2>2, <2>3
<1> HIDE DEF r
<1>2. /\ e.current = cur /\ e.max_throttles = state.max_throttles
      /\ \A t \in Throttle : t # cur => e.throttles[t] = state.throttles[t]
  BY <1>0, <1>1 DEF Acquire, AcquireLoco, PushCmd, PushAll, Domain, r
<1>3. e \in Domain
  BY <1>0, AcquireType
<1>4. d = ChangeDirection(e, cur, "Forward")
  BY <1>2 DEF AcquireFromUi
<1> HIDE DEF e, d
<1>5. /\ d.current = cur /\ d.max_throttles = state.max_throttles
      /\ \A t \in Throttle : t # cur => d.throttles[t] = state.throttles[t]
  BY <1>0, <1>2, <1>3, <1>4 DEF ChangeDirection, PushAll, Domain
<1> QED BY <1>5 DEF d

LEMMA AcquireSays ==
  ASSUME TypeOK, WantedKept, state.out = <<>>, NEW l \in Locos
  PROVE  Says(AcquireFromUi(state, l, "Forward"), [wanted EXCEPT ![cur] = None])
<1> DEFINE d == AcquireFromUi(state, l, "Forward")
           f == IF HasLoco(state, cur) THEN <<ReleaseThrottle(cur), AddLoco(cur, l)>>
                ELSE <<AddLoco(cur, l)>>
<1>1. /\ state \in Domain /\ cur \in Throttle /\ state.throttles \in [Throttle -> Slot]
      /\ "Forward" \in Direction /\ d \in Domain
  BY AcquireFromUiType DEF TypeOK, cur, Domain, Direction
<1>2. /\ d.pending_speed = state.pending_speed /\ Len(d.out) < CmdBuf
      /\ \E r \in Seq(Command) : d.out = f \o r /\ \A i \in DOMAIN r : r[i].op = "SetDirection"
  BY <1>1, AcquireFromUiOut DEF cur
<1>3. /\ d.current = cur /\ d.max_throttles = state.max_throttles
      /\ \A t \in Throttle : t # cur => d.throttles[t] = state.throttles[t]
  BY AcquireLeaves
<1>4. ASSUME NEW t \in Throttle, t # cur PROVE Avoids(Tells(t), d.out)
  <2>1. PICK r \in Seq(Command) : d.out = f \o r /\ \A i \in DOMAIN r : r[i].op = "SetDirection"
    BY <1>2
  <2>2. f \in Seq(Command)
    <3>1. ReleaseThrottle(cur) \in Command /\ AddLoco(cur, l) \in Command
      BY <1>1 DEF ReleaseThrottle, AddLoco, Command
    <3> QED BY <3>1
  <2>3. Avoids(Tells(t), f)
    BY <1>4 DEF Avoids, Tells, ReleaseThrottle, AddLoco
  <2>4. Avoids(Tells(t), r)
    BY <2>1 DEF Avoids, Tells
  <2> HIDE DEF f
  <2> QED BY <2>1, <2>2, <2>3, <2>4, AvoidsJoined
<1> HIDE DEF d
<1>5. Says(d, [wanted EXCEPT ![cur] = None])
  BY <1>1, <1>2, <1>3, <1>4, SlotSays
<1> QED BY <1>5 DEF d

\* The driving state keeps its speeds where locos are left, and nothing is said.
LEMMA IdleSays ==
  ASSUME TypeOK, WantedKept, state.out = <<>>, NEW d \in Domain,
         d.out = <<>>, d.pending_speed = state.pending_speed,
         d.max_throttles = state.max_throttles, d.current \in InUse(state),
         \A t \in Throttle : HasLoco(d, t) => d.throttles[t].speed = state.throttles[t].speed
  PROVE  Says(d, wanted)
<1>1. Len(<<>>) = 0 /\ 0 < CmdBuf
  BY EmptyFits
<1>2. \A t \in Throttle : HasLoco(d, t) => Kept(d, wanted, t)
  BY KeptSame
<1> QED BY <1>1, <1>2 DEF Says, WantedKept

LEMMA NextThrottleSays ==
  ASSUME TypeOK, WantedKept, state.out = <<>>
  PROVE  Says(NextThrottle(state), wanted)
<1>1. state \in Domain /\ NextThrottle(state) \in Domain
  BY NextThrottleType DEF TypeOK
<1>2. (state.current + 1) % state.max_throttles \in InUse(state)
  <2>1. state.current \in Nat /\ state.max_throttles \in Nat /\ state.max_throttles > 0
    BY <1>1, DomainAssumption DEF Domain, Throttle
  <2> QED BY <2>1 DEF InUse
<1>3. /\ NextThrottle(state).current = (state.current + 1) % state.max_throttles
      /\ NextThrottle(state).out = state.out
      /\ NextThrottle(state).pending_speed = state.pending_speed
      /\ NextThrottle(state).max_throttles = state.max_throttles
      /\ NextThrottle(state).throttles = state.throttles
  BY <1>1 DEF NextThrottle, Domain
<1> QED BY <1>1, <1>2, <1>3, IdleSays

LEMMA EventSays ==
  ASSUME TypeOK, WantedKept, state.out = <<>>, NEW ev \in Event, ev.op # "Speed"
  PROVE  Says(ApplyEvent(state, ev), wanted)
<1> DEFINE d == ApplyEvent(state, ev)
           t == ev.throttle
<1>1. state \in Domain /\ d \in Domain
  BY ApplyEventType DEF TypeOK
<1>2. d.out = <<>> /\ d.pending_speed = state.pending_speed
  BY <1>1, ApplyEventOut
<1>3. t \in Throttle /\ ev.op \in {"AddressAdded", "AddressRemoved"}
  BY DEF Event
<1>4. CASE ev.op = "AddressAdded"
  <2>1. d = [state EXCEPT !.throttles[t] = JoinConsist(@, ev.loco)]
    BY <1>4 DEF ApplyEvent, OnAddressAdded
  <2>2. ASSUME NEW s \in Slot PROVE JoinConsist(s, ev.loco).speed = s.speed
    BY DEF JoinConsist, Slot
  <2>3. state.throttles \in [Throttle -> Slot] /\ state.throttles[t] \in Slot
    BY <1>1, <1>3 DEF Domain
  <2>4. JoinConsist(state.throttles[t], ev.loco).speed = state.throttles[t].speed
    BY <2>2, <2>3
  <2> HIDE DEF d
  <2>5. d.max_throttles = state.max_throttles /\ d.current = state.current
        /\ \A u \in Throttle : d.throttles[u].speed = state.throttles[u].speed
    BY <1>1, <1>3, <2>1, <2>3, <2>4 DEF Domain
  <2> QED BY <1>1, <1>2, <2>5, IdleSays DEF WantedKept, d
<1>5. CASE ev.op = "AddressRemoved"
  <2> DEFINE l == ev.loco
             e == OnAddressRemoved(state, t, l)
             slot == state.throttles[t]
  <2>1. d = e /\ l \in Locos \cup {None}
    BY <1>3, <1>5 DEF ApplyEvent, Event
  <2>2. slot \in Slot /\ state.throttles \in [Throttle -> Slot]
    BY <1>1, <1>3 DEF Domain
  <2>3. /\ e.max_throttles = state.max_throttles /\ e.current = state.current
        /\ \A u \in Throttle : u # t => e.throttles[u] = state.throttles[u]
    BY <1>1, <1>3 DEF OnAddressRemoved, ClearConsist, Domain
  <2>4. HasLoco(e, t) => e.throttles[t].speed = slot.speed
    <3>1. CASE l = None
      <4>1. Consist(e, t) = <<>>
        BY <1>1, <1>3, <2>1, <3>1, RemovedConsist
      <4> QED BY <4>1 DEF HasLoco, Consist
    <3>2. CASE l # None /\ ~Holds(slot, l)
      BY <3>2 DEF OnAddressRemoved
    <3>3. CASE l # None /\ Holds(slot, l)
      <4>1. e.throttles[t].speed = IF Len(slot.consist) = 1 THEN 0 ELSE slot.speed
        BY <1>1, <1>3, <2>2, <3>3 DEF OnAddressRemoved, Domain, Slot
      <4>2. CASE Len(slot.consist) = 1
        <5>1. PICK n \in 1..Len(slot.consist) : Consist(e, t) = WithoutIndex(slot.consist, n)
          BY <1>1, <1>3, <2>1, <3>3, RemovedConsist DEF Consist
        <5>2. slot.consist \in Seq(Locos)
          BY <2>2 DEF Slot
        <5>3. Len(WithoutIndex(slot.consist, n)) = 0 /\ WithoutIndex(slot.consist, n) \in Seq(Locos)
          <6> DEFINE q == slot.consist
          <6>1. q \in Seq(Locos) /\ n \in 1..Len(q) /\ Len(q) = 1
            BY <4>2, <5>2
          <6> HIDE DEF q
          <6>2. WithoutIndex(q, n) \in Seq(Locos) /\ Len(WithoutIndex(q, n)) = Len(q) - 1
            BY <6>1, WithoutIndexType
          <6> QED BY <6>1, <6>2 DEF q
        <5>4. Consist(e, t) = <<>>
          BY <5>1, <5>3
        <5> QED BY <5>4 DEF HasLoco, Consist
      <4> QED BY <4>1, <4>2
    <3> QED BY <3>1, <3>2, <3>3
  <2> HIDE DEF e, d
  <2> QED BY <1>1, <1>2, <2>1, <2>3, <2>4, IdleSays DEF WantedKept, d
<1> QED BY <1>3, <1>4, <1>5

LEMMA Chained ==
  ASSUME NEW q \in Seq(Command), NEW r \in Seq(Command), NEW s \in Seq(Command)
  PROVE  q \o r \in Seq(Command) /\ q \o (r \o s) = (q \o r) \o s
OBVIOUS

\* The commands of an iteration, without a reacquire.
LEMMA SaysHeard ==
  ASSUME TypeOK, WantedKept, NEW d \in Domain, NEW asked \in Wanted, Says(d, asked),
         NEW t \in Throttle, NEW v \in Speed, asked[t] = v, HasLoco(d, t),
         ~(t # state.current /\ For(state.pending_speed, t) /\ d.pending_speed # state.pending_speed),
         state' = FlushPendingSpeed(d), UNCHANGED <<cmds, served, locoSpeed>>
  PROVE  Heard(t, v)'
<1> DEFINE p == d.pending_speed
           c == SetSpeed(p.throttle, p.speed)
<1>1. /\ cmds \in Seq(Command) /\ d.out \in Seq(Command) /\ state.out = <<>>
      /\ Len(d.out) < CmdBuf /\ Len(d.out) <= CmdBuf
      /\ Pipeline = cmds /\ None # v
      /\ d.pending_speed # None => d.pending_speed.speed # 0
  <2>1. Len(d.out) \in Nat /\ CmdBuf \in Nat
    BY DomainAssumption DEF Domain
  <2>2. cmds \o <<>> = cmds
    BY DEF TypeOK
  <2> QED BY <2>1, <2>2, NoneAssumption DEF TypeOK, Domain, Pipeline, Says
<1>2. /\ p # None => p.throttle \in Throttle /\ p.speed \in Speed
      /\ \/ state'.out = d.out /\ state'.pending_speed = p
         \/ /\ p # None /\ state'.pending_speed = None /\ state'.out = d.out \o <<c>>
  BY <1>1, FlushPendingFields
<1>3. Pipeline' = cmds \o state'.out
  BY DEF Pipeline
<1>4. ASSUME p # None, state'.out = d.out \o <<c>>, For(p, t), p.speed = v
      PROVE  Delivers(t, v)'
  <2>1. <<c>> \in Seq(Command) /\ c \in Settles(t, v)
    BY <1>2, <1>4, CommandSpeaks DEF For, Settles
  <2> HIDE DEF c
  <2>2. Avoids(Differs(t, v), <<c>>) /\ Has(Settles(t, v), <<c>>)
    <3>1. c \notin Differs(t, v)
      BY <2>1 DEF Settles, Differs, Adds, IsSpeed
    <3> QED BY <2>1, <3>1, AvoidsOne DEF Has
  <2>3. Pipeline' = (cmds \o d.out) \o <<c>> /\ cmds \o d.out \in Seq(Command)
    <3> DEFINE q == d.out
    <3>1. Pipeline' = cmds \o (q \o <<c>>)
      BY <1>3, <1>4
    <3>2. cmds \in Seq(Command) /\ q \in Seq(Command)
      BY <1>1
    <3> HIDE DEF q
    <3>3. cmds \o (q \o <<c>>) = (cmds \o q) \o <<c>> /\ cmds \o q \in Seq(Command)
      BY <2>1, <3>2, Chained
    <3> QED BY <3>1, <3>3 DEF q
  <2>4. Followed(Differs(t, v), Settles(t, v), Pipeline') /\ Has(Settles(t, v), Pipeline')
    BY <2>1, <2>2, <2>3, FollowedHas, HasJoined
  <2> QED BY <2>4 DEF Delivers
<1>5. CASE Told(d, asked, t)
  <2>1. CASE \E x \in Settles(t, v) : d.out = <<x>> /\ d.pending_speed = None
    <3>1. PICK x \in Settles(t, v) : d.out = <<x>> /\ d.pending_speed = None
      BY <2>1
    <3>2. Pipeline' = cmds \o <<x>> /\ state'.pending_speed = None /\ <<x>> \in Seq(Command)
      BY <1>1, <1>2, <1>3, <3>1
    <3>3. Avoids(Differs(t, v), <<x>>) /\ Has(Settles(t, v), <<x>>)
      <4>1. x \notin Differs(t, v)
        BY DEF Settles, Differs, Adds, IsSpeed
      <4>2. x \in Command /\ x \in Settles(t, v)
        BY DEF Settles
      <4>3. Has(Settles(t, v), <<x>>)
        BY <4>2 DEF Has
      <4> QED BY <4>1, <4>2, <4>3, AvoidsOne
    <3>4. Followed(Differs(t, v), Settles(t, v), Pipeline') /\ Has(Settles(t, v), Pipeline')
      BY <1>1, <3>2, <3>3, FollowedHas, HasJoined
    <3> QED BY <3>2, <3>4 DEF Heard, Delivers, For
  <2>2. CASE d.out = <<>> /\ d.pending_speed = [throttle |-> t, speed |-> v]
    <3>1. For(p, t) /\ p.speed = v /\ p # None
      BY <2>2, NoneAssumption DEF For
    <3>2. CASE state'.pending_speed = p
      BY <3>1, <3>2 DEF Heard
    <3>3. CASE p # None /\ state'.pending_speed = None /\ state'.out = d.out \o <<c>>
      BY <1>4, <3>1, <3>3 DEF Heard, For
    <3> QED BY <1>2, <3>2, <3>3
  <2> QED BY <1>5, <2>1, <2>2 DEF Told
<1>6. CASE Kept(d, asked, t)
  <2>1. wanted[t] = v /\ Heard(t, v)
    BY <1>1, <1>6 DEF Kept, WantedKept
  <2>2. CASE For(state.pending_speed, t)
    <3>1. p = state.pending_speed /\ For(p, t) /\ p.speed = v
      BY <1>6, <2>1, <2>2 DEF Kept, Heard
    <3>2. CASE state'.pending_speed = p
      BY <3>1, <3>2 DEF Heard
    <3>3. CASE p # None /\ state'.pending_speed = None /\ state'.out = d.out \o <<c>>
      BY <1>4, <3>1, <3>3 DEF Heard, For
    <3> QED BY <1>2, <3>2, <3>3
  <2>3. CASE ~For(state.pending_speed, t)
    <3>1. ~For(p, t) /\ Delivers(t, v) /\ Avoids(Tells(t), d.out)
      BY <1>6, <2>1, <2>3 DEF Kept, Heard
    <3>2. \E r \in Seq(Command) : Pipeline' = cmds \o r /\ Avoids(Tells(t), r) /\ ~For(state'.pending_speed, t)
      <4>1. CASE state'.out = d.out /\ state'.pending_speed = p
        BY <1>1, <1>3, <3>1, <4>1
      <4>2. CASE p # None /\ state'.pending_speed = None /\ state'.out = d.out \o <<c>>
        <5>1. c \in Command /\ c \notin Tells(t)
          BY <1>2, <3>1, <4>2 DEF For, Tells, SetSpeed, Command
        <5> HIDE DEF c
        <5>2. <<c>> \in Seq(Command) /\ Avoids(Tells(t), <<c>>)
          BY <5>1, AvoidsOne
        <5>3. d.out \o <<c>> \in Seq(Command) /\ Avoids(Tells(t), d.out \o <<c>>)
          <6> DEFINE q == d.out
          <6>1. q \in Seq(Command) /\ Avoids(Tells(t), q)
            BY <1>1, <3>1
          <6> HIDE DEF q
          <6>2. q \o <<c>> \in Seq(Command) /\ Avoids(Tells(t), q \o <<c>>)
            BY <5>2, <6>1, Chained, AvoidsJoined
          <6> QED BY <6>2 DEF q
        <5> QED BY <1>3, <4>2, <5>3 DEF For
      <4> QED BY <1>2, <4>1, <4>2
    <3>3. PICK r \in Seq(Command) :
            Pipeline' = cmds \o r /\ Avoids(Tells(t), r) /\ ~For(state'.pending_speed, t)
      BY <3>2
    <3>4. Avoids(Differs(t, v), r)
      BY <3>3, DiffersTells, AvoidsLess
    <3>5. Followed(Differs(t, v), Settles(t, v), Pipeline')
      BY <1>1, <3>1, <3>3, <3>4, FollowedAvoids DEF Delivers
    <3>6. Has(Settles(t, v), Pipeline') \/ Runs(t, v)'
      <4>1. Runs(t, v)' <=> Runs(t, v)
        BY DEF Runs
      <4> QED BY <1>1, <3>1, <3>3, <4>1, HasJoined DEF Delivers
    <3> QED BY <3>3, <3>5, <3>6 DEF Heard, Delivers
  <2> QED BY <2>2, <2>3
<1> QED BY <1>1, <1>5, <1>6 DEF Says

\* And with one: the slot that has its speed in the buffer has it as wanted.
LEMMA ReacquireHeard ==
  ASSUME TypeOK, WantedKept, NEW d \in Domain, NEW asked \in Wanted, Says(d, asked),
         NEW t \in Throttle, NEW v \in Speed, asked[t] = v, HasLoco(d, t),
         ~(t # state.current /\ For(state.pending_speed, t) /\ d.pending_speed # state.pending_speed),
         t \notin CutShort([d EXCEPT !.out = <<>>]),
         state' = FlushPendingSpeed(Reacquire([d EXCEPT !.out = <<>>])),
         UNCHANGED <<cmds, served, locoSpeed>>
  PROVE  Heard(t, v)'
<1> DEFINE d0 == [d EXCEPT !.out = <<>>]
           e == ReacquireSlots(d0)
           p == d.pending_speed
           c == SetSpeed(p.throttle, p.speed)
           y == SetSpeed(t, v)
           M == Differs(t, v)
           Z == Settles(t, v)
<1>1. /\ d0 \in Domain /\ d0.out = <<>> /\ d0.throttles = d.throttles
      /\ d0.pending_speed = p /\ d0.current = d.current /\ d0.max_throttles = d.max_throttles
  BY Emptied
<1> HIDE DEF d0
<1>2. t \in InUse(d0) /\ HasLoco(d0, t) /\ d0.throttles[t].speed = v
  <2>1. Kept(d, asked, t) \/ Told(d, asked, t)
    BY NoneAssumption DEF Says
  <2>2. t \in InUse(state) /\ d.throttles[t].speed = v
    BY <2>1, NoneAssumption DEF Kept, Told, WantedKept, Shows
  <2> QED BY <1>1, <2>2 DEF InUse, HasLoco, Says
<1>3. Reacquire(d0) = e
  BY <1>2 DEF Reacquire
<1>4. Again(d0, e, d0.max_throttles)
  BY <1>1, ReacquireAgain
<1>5. e \in Domain /\ e.out \in Seq(Command) /\ Len(e.out) <= CmdBuf /\ e.pending_speed = p
  <2>1. e \in Domain /\ e = [d0 EXCEPT !.out = e.out] /\ Len(e.out) <= CmdBuf
    BY <1>4 DEF Again
  <2> HIDE DEF e
  <2> QED BY <1>1, <2>1 DEF Domain
<1>6. Resumed(d0, t) = y /\ y \in Z
  BY <1>2, CommandSpeaks DEF Resumed
<1>7. Has({y}, e.out)
  <2>1. y \in {e.out[i] : i \in DOMAIN e.out}
    BY <1>2 DEF CutShort, d0
  <2> QED BY <2>1 DEF Has
<1>8. Whole(d0, t, e.out)
  <2>1. t < d0.max_throttles
    BY <1>1, <1>2 DEF InUse, Domain
  <2> QED BY <1>2, <1>4, <2>1 DEF Again
<1>9. Followed(Own(t) \ {y}, {y}, e.out)
  BY <1>6, <1>7, <1>8 DEF Whole
<1>10. Followed(M, Z, e.out) /\ Has(Z, e.out)
  <2>1. \A i \in DOMAIN e.out : e.out[i] \in M => e.out[i] \in Own(t) \ {y}
    <3> SUFFICES ASSUME NEW i \in DOMAIN e.out, e.out[i] \in M PROVE e.out[i] \in Own(t) \ {y}
      OBVIOUS
    <3>1. PICK u \in Throttle : e.out[i] \in Own(u)
      BY <1>4 DEF Again
    <3>2. e.out[i].throttle = t
      BY DEF Differs, Adds
    <3>3. e.out[i] \in Own(t)
      BY <3>1, <3>2 DEF Own
    <3>4. e.out[i] # y
      BY <1>6 DEF Differs, Settles, Adds, IsSpeed
    <3> QED BY <3>3, <3>4
  <2> QED BY <1>6, <1>7, <1>9, <2>1 DEF Followed, Has
<1>11. /\ p # None => p.throttle \in Throttle /\ p.speed \in Speed
       /\ \/ state'.out = e.out /\ state'.pending_speed = p
          \/ /\ p # None /\ state'.pending_speed = None
             /\ state'.out = e.out \o <<c>> \/ state'.out = e.out
  BY ZenonT(90), <1>3, <1>5, FlushPendingFields DEF d0
<1>12. For(p, t) => p.speed = v
  <2>1. CASE Told(d, asked, t)
    BY <2>1 DEF Told, For
  <2>2. CASE Kept(d, asked, t)
    <3>1. wanted[t] = v /\ Heard(t, v)
      BY <2>2, NoneAssumption DEF Kept, WantedKept
    <3> QED BY <2>2, <3>1 DEF Kept, Heard
  <2> QED BY <2>1, <2>2, NoneAssumption DEF Says
<1> HIDE DEF e, p
<1>13. Followed(M, Z, state'.out) /\ Has(Z, state'.out) /\ state'.out \in Seq(Command)
  <2>1. CASE state'.out = e.out
    BY <1>5, <1>10, <2>1
  <2>2. CASE p # None /\ state'.out = e.out \o <<c>>
    <3>1. c \in Command /\ c \notin M
      <4>1. c.op = "SetSpeed" /\ c.throttle = p.throttle /\ c.speed = p.speed /\ c \in Command
        BY <1>11, <2>2 DEF SetSpeed, Command
      <4> QED BY <1>12, <2>2, <4>1 DEF Differs, Adds, Value, For
    <3> HIDE DEF c
    <3>2. <<c>> \in Seq(Command) /\ Avoids(M, <<c>>)
      BY <3>1, AvoidsOne
    <3>3. e.out \o <<c>> \in Seq(Command)
      BY <1>5, <3>2
    <3> HIDE DEF M, Z
    <3> QED BY <1>5, <1>10, <2>2, <3>2, <3>3, FollowedAvoids, HasJoined
  <2> QED BY <1>11, <2>1, <2>2
<1>14. Pipeline' = cmds \o state'.out /\ cmds \in Seq(Command)
  BY DEF Pipeline, TypeOK
<1>15. Followed(M, Z, Pipeline') /\ Has(Z, Pipeline')
  <2> HIDE DEF M, Z
  <2> QED BY <1>13, <1>14, FollowedLater, HasJoined
<1>16. For(state'.pending_speed, t) => state'.pending_speed.speed = v
  BY <1>11, <1>12 DEF For
<1> QED BY <1>15, <1>16 DEF Heard, Delivers

\* What an iteration leaves of the driving state, whether it reacquires or not.
LEMMA Iterated ==
  ASSUME TypeOK, NEW d \in Domain, NEW asked, NEW taken, Iteration(d, asked, taken),
         Len(d.out) < CmdBuf
  PROVE  LET again == Reconnected /\ ~restored
             d0 == [d EXCEPT !.out = <<>>]
             e == IF again THEN Reacquire(d0) ELSE d
         IN  /\ state' = FlushPendingSpeed(e) /\ e \in Domain /\ Len(e.out) <= CmdBuf
             /\ e.pending_speed = d.pending_speed /\ e.throttles = d.throttles
             /\ state'.throttles = d.throttles /\ state'.max_throttles = d.max_throttles
             /\ state'.current \in {0, d.current}
             /\ state'.pending_speed \in {None, d.pending_speed}
             /\ \A t \in Throttle : wanted'[t] # None =>
                  /\ asked[t] = wanted'[t] /\ HasLoco(d, t)
                  /\ ~(t # state.current /\ For(state.pending_speed, t)
                         /\ d.pending_speed # state.pending_speed)
                  /\ again => t \notin CutShort(d0)
             /\ UNCHANGED <<cmds, served, locoSpeed, link>>
<1> DEFINE again == Reconnected /\ ~restored
           d0 == [d EXCEPT !.out = <<>>]
           e == IF again THEN Reacquire(d0) ELSE d
<1>1. /\ d0 \in Domain /\ d0.out = <<>> /\ d0.throttles = d.throttles
      /\ d0.pending_speed = d.pending_speed /\ d0.current = d.current
      /\ d0.max_throttles = d.max_throttles
  BY Emptied
<1>2. Len(d.out) <= CmdBuf
  BY DomainAssumption DEF Domain
<1>3. /\ e \in Domain /\ Len(e.out) <= CmdBuf /\ e.pending_speed = d.pending_speed
      /\ e.throttles = d.throttles /\ e.max_throttles = d.max_throttles
      /\ e.current \in {0, d.current}
  <2> HIDE DEF d0
  <2>1. CASE again
    BY <1>1, <2>1, ReacquireType
  <2>2. CASE ~again
    BY <1>2, <2>2
  <2> QED BY <2>1, <2>2
<1>4. state' = FlushPendingSpeed(e)
  BY DEF Iteration
<1>5. /\ state'.throttles = d.throttles /\ state'.max_throttles = d.max_throttles
      /\ state'.current \in {0, d.current}
      /\ state'.pending_speed \in {None, d.pending_speed}
  <2> HIDE DEF e
  <2> QED BY <1>3, <1>4, FlushPendingFields
<1>6. ASSUME NEW t \in Throttle, wanted'[t] # None
      PROVE  /\ asked[t] = wanted'[t] /\ HasLoco(d, t)
             /\ ~(t # state.current /\ For(state.pending_speed, t)
                    /\ d.pending_speed # state.pending_speed)
             /\ again => t \notin CutShort(d0)
  BY <1>6 DEF Iteration, For
<1>7. UNCHANGED <<cmds, served, locoSpeed, link>>
  BY DEF Iteration, station, session
<1> HIDE DEF e, d0, again
<1> QED BY <1>3, <1>4, <1>5, <1>6, <1>7 DEF e, d0, again

LEMMA IterationSpeeds ==
  ASSUME TypeOK, WantedKept, NEW d \in Domain, NEW asked \in Wanted, NEW taken \in BOOLEAN,
         Iteration(d, asked, taken), Says(d, asked),
         \A i \in DOMAIN events' : events'[i].op # "Speed"
  PROVE  WantedKept'
<1> DEFINE again == Reconnected /\ ~restored
           d0 == [d EXCEPT !.out = <<>>]
           e == IF again THEN Reacquire(d0) ELSE d
<1>1. /\ state' = FlushPendingSpeed(e)
      /\ state'.throttles = d.throttles /\ state'.max_throttles = d.max_throttles
      /\ state'.current \in {0, d.current}
      /\ state'.pending_speed \in {None, d.pending_speed}
      /\ \A t \in Throttle : wanted'[t] # None =>
           /\ asked[t] = wanted'[t] /\ HasLoco(d, t)
           /\ ~(t # state.current /\ For(state.pending_speed, t)
                  /\ d.pending_speed # state.pending_speed)
           /\ again => t \notin CutShort(d0)
      /\ UNCHANGED <<cmds, served, locoSpeed, link>>
  BY Iterated DEF Says
<1>2. state.max_throttles \in Nat \ {0} /\ d.max_throttles = state.max_throttles
  BY DomainAssumption DEF TypeOK, Domain, Says
<1>3. state'.current \in InUse(state')
  BY <1>1, <1>2 DEF InUse, Says
<1>4. state'.pending_speed # None => state'.pending_speed.speed # 0
  BY <1>1 DEF Says
<1>5. ASSUME NEW t \in Throttle, wanted'[t] # None
      PROVE  (Shows(state, t, wanted[t]) /\ Heard(t, wanted[t]))'
  <2>0. PICK v : v = wanted'[t]
    OBVIOUS
  <2>1. /\ asked[t] = v /\ HasLoco(d, t)
        /\ ~(t # state.current /\ For(state.pending_speed, t)
               /\ d.pending_speed # state.pending_speed)
        /\ again => t \notin CutShort(d0)
    BY <1>1, <1>5, <2>0
  <2>2. v \in Speed /\ v # None
    BY <1>5, <2>0, <2>1 DEF Wanted
  <2>3. t \in InUse(state) /\ d.throttles[t].speed = v
    <3>1. Kept(d, asked, t) \/ Told(d, asked, t)
      BY <2>1, <2>2 DEF Says
    <3> QED BY <2>1, <2>2, <3>1 DEF Kept, Told, WantedKept, Shows
  <2>4. Shows(state', t, v)
    BY <1>1, <1>2, <2>1, <2>3 DEF Shows, InUse, HasLoco
  <2>5. Heard(t, v)'
    <3>0. UNCHANGED <<cmds, served, locoSpeed>>
      BY <1>1
    <3>1. CASE again
      <4>1. /\ state' = FlushPendingSpeed(Reacquire([d EXCEPT !.out = <<>>]))
            /\ t \notin CutShort([d EXCEPT !.out = <<>>])
        BY <1>1, <2>1, <3>1
      <4> HIDE DEF again, d0, e
      <4> QED BY <2>1, <2>2, <3>0, <4>1, ReacquireHeard
    <3>2. CASE ~again
      <4>1. state' = FlushPendingSpeed(d)
        BY <1>1, <3>2
      <4> HIDE DEF again, d0, e
      <4> QED BY <2>1, <2>2, <3>0, <4>1, SaysHeard
    <3> QED BY <3>1, <3>2
  <2>6. (v = wanted[t])'
    BY <2>0
  <2> QED BY <2>4, <2>5, <2>6
<1>6. link' # "up" => \A t \in Throttle : served'[t] = {}
  BY <1>1 DEF WantedKept
<1> HIDE DEF again, d0, e
<1>7. (link # "up" => \A t \in Throttle : served[t] = {})'
  BY <1>1, <1>6
<1>8. (\A t \in Throttle : wanted[t] # None => Shows(state, t, wanted[t]) /\ Heard(t, wanted[t]))'
  BY <1>5
<1>9. (\A i \in DOMAIN events : events[i].op # "Speed")'
  OBVIOUS
<1> QED BY <1>3, <1>4, <1>7, <1>8, <1>9 DEF WantedKept

LEMMA DomainSpeeds ==
  ASSUME TypeOK, WantedKept, User \/ DomainEvent \/ DomainTick
  PROVE  WantedKept'
<1>1. /\ state \in Domain /\ cur \in Throttle /\ wanted \in Wanted
      /\ [wanted EXCEPT ![cur] = None] \in Wanted /\ 0 \in Speed /\ Speed \in SUBSET Nat
      /\ \A s \in Speed : Asked(s) \in Wanted
  <2>1. 0 \in Speed /\ Speed \in SUBSET Nat
    BY DomainAssumption DEF Speed
  <2> QED BY <2>1, AskedType, CurrentSlot DEF TypeOK, cur
<1>2. ASSUME User PROVE \A i \in DOMAIN events' : events'[i].op # "Speed"
  BY <1>2 DEF User, UserSpeedSet, UserEStopCurrent, UserAcquire, UserRelease,
     UserNextThrottle, Input, WantedKept
<1>3. ASSUME NEW d, NEW asked, NEW taken, Iteration(d, asked, taken) PROVE state.out = <<>>
  BY <1>3 DEF Iteration
<1>4. ASSUME NEW s \in Speed, UserSpeedSet(s), User PROVE WantedKept'
  <2>1. Iteration(SpeedSet(state, s), Asked(s), TRUE)
    BY <1>4 DEF UserSpeedSet
  <2>2. Says(SpeedSet(state, s), Asked(s)) /\ SpeedSet(state, s) \in Domain
    BY <1>1, <1>3, <2>1, SpeedSetSays, SpeedSetType
  <2> QED BY <1>1, <1>2, <1>4, <2>1, <2>2, IterationSpeeds
<1>5. ASSUME UserEStopCurrent, User PROVE WantedKept'
  <2>1. Iteration(EStopCurrent(state), Asked(0), TRUE)
    BY <1>5 DEF UserEStopCurrent
  <2>2. Says(EStopCurrent(state), Asked(0)) /\ EStopCurrent(state) \in Domain
    BY <1>1, <1>3, <2>1, EStopSays, EStopCurrentType
  <2> QED BY <1>1, <1>2, <1>5, <2>1, <2>2, IterationSpeeds
<1>6. ASSUME NEW l \in Locos, UserAcquire(l), User PROVE WantedKept'
  <2>1. Iteration(AcquireFromUi(state, l, "Forward"), [wanted EXCEPT ![cur] = None], TRUE)
    BY <1>6 DEF UserAcquire
  <2>2. /\ Says(AcquireFromUi(state, l, "Forward"), [wanted EXCEPT ![cur] = None])
        /\ AcquireFromUi(state, l, "Forward") \in Domain
    BY <1>1, <1>3, <2>1, AcquireSays, AcquireFromUiType DEF Direction
  <2> QED BY <1>1, <1>2, <1>6, <2>1, <2>2, IterationSpeeds
<1>7. ASSUME UserRelease, User PROVE WantedKept'
  <2>1. Iteration(ReleaseAll(state), [wanted EXCEPT ![cur] = None], TRUE)
    BY <1>7 DEF UserRelease
  <2>2. /\ Says(ReleaseAll(state), [wanted EXCEPT ![cur] = None])
        /\ ReleaseAll(state) \in Domain
    BY <1>1, <1>3, <2>1, ReleaseSays, ReleaseType DEF ReleaseAll, cur
  <2> QED BY <1>1, <1>2, <1>7, <2>1, <2>2, IterationSpeeds
<1>8. ASSUME UserNextThrottle, User PROVE WantedKept'
  <2>1. Iteration(NextThrottle(state), wanted, TRUE)
    BY <1>8 DEF UserNextThrottle
  <2>2. Says(NextThrottle(state), wanted) /\ NextThrottle(state) \in Domain
    BY <1>1, <1>3, <2>1, NextThrottleSays, NextThrottleType
  <2> QED BY <1>1, <1>2, <1>8, <2>1, <2>2, IterationSpeeds
<1>9. ASSUME DomainEvent PROVE WantedKept'
  <2> DEFINE ev == Head(events)
             d == ApplyEvent(state, ev)
  <2>1. /\ ev \in Event /\ d \in Domain /\ (~Refused(ev)) \in BOOLEAN
        /\ events \in Seq(Event) /\ events # <<>>
    BY <1>9, DomainEventType DEF DomainEvent, TypeOK
  <2>2. Iteration(d, wanted, ~Refused(ev)) /\ events' = Tail(events)
    BY <1>9 DEF DomainEvent
  <2>3. /\ ev = events[1] /\ 1 \in DOMAIN events
        /\ \A i \in DOMAIN Tail(events) : i + 1 \in DOMAIN events /\ Tail(events)[i] = events[i + 1]
    BY <2>1, TailOf
  <2>4. ev.op # "Speed" /\ \A i \in DOMAIN events' : events'[i].op # "Speed"
    BY <2>2, <2>3 DEF WantedKept
  <2> HIDE DEF ev
  <2>5. Says(d, wanted)
    BY <1>3, <2>1, <2>2, <2>4, EventSays
  <2> HIDE DEF d
  <2> QED BY <1>1, <2>1, <2>2, <2>4, <2>5, IterationSpeeds
<1>10. ASSUME DomainTick PROVE WantedKept'
  <2>1. Iteration(state, wanted, TRUE) /\ events' = events
    BY <1>10 DEF DomainTick
  <2>2. Says(state, wanted)
    BY <1>1, <1>3, <2>1, IdleSays DEF WantedKept
  <2>3. \A i \in DOMAIN events' : events'[i].op # "Speed"
    BY <2>1 DEF WantedKept
  <2> QED BY <1>1, <2>1, <2>2, <2>3, IterationSpeeds
<1> QED BY <1>4, <1>5, <1>6, <1>7, <1>8, <1>9, <1>10 DEF User

\* A step that leaves the driving state alone, up to the commands it hands on.
LEMMA SpeedsForget ==
  ASSUME TypeOK, WantedKept, NEW T \in SUBSET Throttle,
         state'.pending_speed = state.pending_speed, state'.throttles = state.throttles,
         state'.current = state.current, state'.max_throttles = state.max_throttles,
         wanted' = [t \in Throttle |-> IF t \in T THEN None ELSE wanted[t]],
         \A t \in Throttle \ T, v \in Speed : Delivers(t, v) => Delivers(t, v)',
         link' # "up" => \A t \in Throttle : served'[t] = {},
         \A i \in DOMAIN events' : events'[i].op # "Speed"
  PROVE  WantedKept'
<1>1. state'.current \in InUse(state')
  BY DEF WantedKept, InUse
<1>2. state'.pending_speed # None => state'.pending_speed.speed # 0
  BY DEF WantedKept
<1>3. ASSUME NEW t \in Throttle, wanted'[t] # None
      PROVE  (Shows(state, t, wanted[t]) /\ Heard(t, wanted[t]))'
  <2>1. PICK v : v = wanted[t]
    OBVIOUS
  <2>2. wanted'[t] = v /\ t \in Throttle \ T /\ v # None
    BY <1>3, <2>1
  <2>3. v \in Speed
    BY <2>1, <2>2 DEF TypeOK
  <2>4. Shows(state, t, v) /\ Heard(t, v)
    BY <2>1, <2>2 DEF WantedKept
  <2>5. Shows(state', t, v)
    BY <2>4 DEF Shows, InUse, HasLoco
  <2>6. Heard(t, v)'
    BY <2>2, <2>3, <2>4 DEF Heard
  <2>7. (wanted[t] = v)'
    BY <2>2
  <2> QED BY <2>5, <2>6, <2>7
<1>4. (\A t \in Throttle : wanted[t] # None => Shows(state, t, wanted[t]) /\ Heard(t, wanted[t]))'
  BY <1>3
<1> QED BY <1>1, <1>2, <1>4 DEF WantedKept

LEMMA SpeedsSame ==
  ASSUME TypeOK, WantedKept, Pipeline' = Pipeline, UNCHANGED <<served, locoSpeed, wanted>>,
         state'.pending_speed = state.pending_speed, state'.throttles = state.throttles,
         state'.current = state.current, state'.max_throttles = state.max_throttles,
         link' = link \/ link' = "up" \/ \A t \in Throttle : served'[t] = {},
         events' = events
  PROVE  WantedKept'
<1> DEFINE T == {}
<1>1. T \in SUBSET Throttle /\ wanted' = [t \in Throttle |-> IF t \in T THEN None ELSE wanted[t]]
  BY DEF TypeOK
<1>2. \A t \in Throttle \ T, v \in Speed : Delivers(t, v) => Delivers(t, v)'
  BY DEF Delivers, Runs
<1>3. link' # "up" => \A t \in Throttle : served'[t] = {}
  BY DEF WantedKept
<1>4. \A i \in DOMAIN events' : events'[i].op # "Speed"
  BY DEF WantedKept
<1> HIDE DEF T
<1> QED BY <1>1, <1>2, <1>3, <1>4, SpeedsForget

LEMMA FlushSendSpeeds ==
  ASSUME TypeOK, WantedKept, FlushSend
  PROVE  WantedKept'
<1> DEFINE o == state.out
<1>1. /\ state \in Domain /\ cmds \in Seq(Command) /\ o \in Seq(Command) /\ o # <<>>
  BY DEF TypeOK, Domain, FlushSend
<1>2. /\ state'.out = Tail(o) /\ state'.pending_speed = state.pending_speed
      /\ state'.throttles = state.throttles /\ state'.current = state.current
      /\ state'.max_throttles = state.max_throttles
  BY <1>1 DEF FlushSend, Domain
<1>3. cmds' = Append(cmds, Head(o)) /\ UNCHANGED <<served, locoSpeed, wanted, link, events>>
  BY DEF FlushSend, station, session
<1>4. Append(cmds, Head(o)) \o Tail(o) = cmds \o o
  <2> HIDE DEF o
  <2> QED BY <1>1
<1>5. Pipeline' = Pipeline
  BY <1>2, <1>3, <1>4 DEF Pipeline
<1> QED BY <1>2, <1>3, <1>5, SpeedsSame

LEMMA FlushDropSpeeds ==
  ASSUME TypeOK, WantedKept, FlushDrop
  PROVE  WantedKept'
<1> DEFINE o == state.out
<1>1. /\ state \in Domain /\ cmds \in Seq(Command) /\ o \in Seq(Command)
      /\ DOMAIN o = 1..Len(o)
  BY DEF TypeOK, Domain
<1>2. PICK i \in DOMAIN state.out :
        /\ state' = [state EXCEPT !.out = WithoutIndex(@, i)]
        /\ wanted' = IF IsSpeed(state.out[i]) THEN Forgotten({state.out[i].throttle}) ELSE wanted
  BY DEF FlushDrop
<1> DEFINE c == o[i]
           n == Len(cmds) + i
           T == IF IsSpeed(c) THEN {c.throttle} ELSE {}
<1>3. c \in Command /\ T \in SUBSET Throttle /\ i \in 1..Len(o)
  BY <1>1, <1>2 DEF IsSpeed, Command
<1>4. /\ state'.out = WithoutIndex(o, i) /\ state'.pending_speed = state.pending_speed
      /\ state'.throttles = state.throttles /\ state'.current = state.current
      /\ state'.max_throttles = state.max_throttles
  BY <1>1, <1>2 DEF Domain
<1>5. UNCHANGED <<cmds, served, locoSpeed, link, events>>
  BY DEF FlushDrop, station, session
<1>6. wanted' = [t \in Throttle |-> IF t \in T THEN None ELSE wanted[t]]
  BY <1>2 DEF Forgotten, TypeOK
<1> HIDE DEF T
<1>7. Pipeline' = WithoutIndex(Pipeline, n)
  BY <1>1, <1>3, <1>4, <1>5, WithoutLater DEF Pipeline
<1>8. /\ Pipeline \in Seq(Command) /\ n \in 1..Len(Pipeline) /\ Pipeline[n] = c
  <2>1. /\ cmds \o o \in Seq(Command) /\ DOMAIN (cmds \o o) = 1..(Len(cmds) + Len(o))
        /\ \A k \in 1..Len(o) : (cmds \o o)[Len(cmds) + k] = o[k]
        /\ Len(cmds) \in Nat /\ Len(o) \in Nat
    BY <1>1, Joined
  <2>2. Len(cmds \o o) = Len(cmds) + Len(o)
    BY <1>1, ConcatProperties
  <2>3. n \in 1..(Len(cmds) + Len(o))
    BY <1>3, <2>1
  <2> QED BY <1>3, <2>1, <2>2, <2>3 DEF Pipeline
<1> HIDE DEF c, n
<1>9. ASSUME NEW t \in Throttle \ T, NEW v \in Speed, Delivers(t, v) PROVE Delivers(t, v)'
  <2>1. c \notin Settles(t, v)
    BY <1>9 DEF Settles, T
  <2>2. Followed(Differs(t, v), Settles(t, v), WithoutIndex(Pipeline, n))
    BY <1>8, <1>9, <2>1, FollowedWithout DEF Delivers
  <2>3. Has(Settles(t, v), Pipeline) => Has(Settles(t, v), WithoutIndex(Pipeline, n))
    BY <1>8, <2>1, HasWithout
  <2> QED BY <1>5, <1>7, <1>9, <2>2, <2>3 DEF Delivers, Runs
<1>10. /\ link' # "up" => \A t \in Throttle : served'[t] = {}
       /\ \A k \in DOMAIN events' : events'[k].op # "Speed"
  BY <1>5 DEF WantedKept
<1> QED BY <1>3, <1>4, <1>6, <1>9, <1>10, SpeedsForget

\* What the head of the channel does at the station, and to what is on its way.
LEMMA Forwarded ==
  ASSUME TypeOK, SessionForward, link = "up"
  PROVE  LET c == Head(cmds)
         IN  /\ c.throttle \in Throttle => served'[c.throttle] \in SUBSET Locos
             /\ \A t \in Throttle : served'[t] \subseteq served[t] \/ c \in Adds(t)
             /\ IF IsSpeed(c)
                  THEN /\ served' = served
                       /\ locoSpeed' = [l \in Locos |->
                            IF l \in served[c.throttle] THEN Value(c) ELSE locoSpeed[l]]
                  ELSE locoSpeed' = locoSpeed
<1> DEFINE c == Head(cmds)
<1>1. c \in Command /\ served \in [Throttle -> SUBSET Locos] /\ locoSpeed \in [Locos -> Speed]
  BY DEF TypeOK, SessionForward
<1>2. TypeOK'
  BY SessionForwardType
<1> HIDE DEF c
<1>3. CASE StationAdd(c)
  <2>1. ~IsSpeed(c) /\ c \in Adds(c.throttle) /\ c.throttle \in Throttle
    BY <1>1, <1>3 DEF StationAdd, IsSpeed, Adds, Command
  <2> QED BY <1>1, <1>2, <1>3, <2>1 DEF StationAdd, TypeOK, c
<1>4. CASE StationRelease(c)
  <2>1. ~IsSpeed(c) /\ c.throttle \in Throttle
    BY <1>1, <1>4 DEF StationRelease, IsSpeed, Command
  <2> QED BY <1>1, <1>2, <1>4, <2>1 DEF StationRelease, TypeOK, c
<1>5. CASE StationSpeed(c)
  BY <1>1, <1>2, <1>5 DEF StationSpeed, IsSpeed, Value, TypeOK, c
<1>6. CASE StationOther(c)
  BY <1>1, <1>2, <1>6 DEF StationOther, IsSpeed, TypeOK, station, c
<1> QED BY <1>3, <1>4, <1>5, <1>6 DEF SessionForward, c

\* Reports of speeds are what the station does not send.
LEMMA SlotReports ==
  ASSUME TypeOK, WantedKept, SessionForward, "speed" \notin Reports
  PROVE  \A i \in DOMAIN events' : events'[i].op # "Speed"
<1> DEFINE c == Head(cmds)
<1>1. c \in Command /\ served \in [Throttle -> SUBSET Locos] /\ locoSpeed \in [Locos -> Speed]
      /\ events \in Seq(Event)
  BY DEF TypeOK, SessionForward
<1>2. Report("speed", <<>>) = <<>> /\ \A q : Report("speed", q) = <<>>
  BY DEF Report
<1> DEFINE NoSpeeds(q) == \A i \in DOMAIN q : q[i].op # "Speed"
<1>3. ASSUME NEW q \in Seq(Event), NoSpeeds(q), Answer(q) PROVE NoSpeeds(events')
  <2>1. PICK n \in 0..Len(q) : events' = events \o SubSeq(q, 1, n)
    BY <1>3, AnswerType
  <2>2. /\ SubSeq(q, 1, n) \in Seq(Event) /\ DOMAIN SubSeq(q, 1, n) = 1..n
        /\ \A i \in 1..n : SubSeq(q, 1, n)[i] = q[i] /\ i \in DOMAIN q
    BY <1>3
  <2> DEFINE r == SubSeq(q, 1, n)
  <2>3. r \in Seq(Event) /\ NoSpeeds(r)
    BY <1>3, <2>2
  <2> HIDE DEF r
  <2>4. NoSpeeds(events \o r)
    <3>1. NoSpeeds(events)
      BY DEF WantedKept
    <3> QED BY <1>1, <2>3, <3>1
  <2> QED BY <2>1, <2>4 DEF r
<1> HIDE DEF c
<1>4. CASE StationAdd(c)
  <2>1. c.throttle \in Throttle /\ c.loco \in Locos
    BY <1>1, <1>4 DEF StationAdd, Command
  <2> DEFINE x == [op |-> "AddressAdded", throttle |-> c.throttle, loco |-> c.loco]
  <2>2. x \in Event /\ x.op # "Speed"
    BY <2>1 DEF Event
  <2>3. Answer(Report("slot", <<x>>) \o <<>>)
    BY <1>2, <1>4 DEF StationAdd
  <2> HIDE DEF x
  <2>4. <<x>> \in Seq(Event) /\ <<x>> \o <<>> = <<x>> /\ NoSpeeds(<<x>>) /\ NoSpeeds(<<>>)
        /\ <<>> \in Seq(Event) /\ <<>> \o <<>> = <<>>
    BY <2>2
  <2>5. Answer(<<x>>) \/ Answer(<<>>)
    BY <2>3, <2>4 DEF Report
  <2> QED BY <1>3, <2>4, <2>5
<1>5. CASE StationRelease(c)
  <2>1. PICK q \in EachRemoved(c.throttle, served[c.throttle]) : Answer(Report("slot", q))
    BY <1>5 DEF StationRelease
  <2>2. c.throttle \in Throttle /\ served[c.throttle] \in SUBSET Locos
    BY <1>1, <1>5 DEF StationRelease, Command
  <2>3. Report("slot", q) \in Seq(Event)
    BY <2>2, AnswersType
  <2>4. NoSpeeds(Report("slot", q))
    BY DEF Report, EachRemoved
  <2> QED BY <1>3, <2>1, <2>3, <2>4
<1>6. CASE StationSpeed(c)
  <2>1. Answer(<<>>)
    BY <1>2, <1>6 DEF StationSpeed
  <2> QED BY <1>3, <2>1, FewEvents
<1>7. CASE events' = events
  BY <1>7 DEF WantedKept
<1> QED BY <1>4, <1>5, <1>6, <1>7 DEF SessionForward, StationOther, c

\* The head of the pipeline reaches the station.
LEMMA DeliversNext ==
  ASSUME NEW t, NEW v, Delivers(t, v),
         Pipeline \in Seq(Command), Pipeline # <<>>, Pipeline' = Tail(Pipeline),
         Head(Pipeline) \in Settles(t, v) => Runs(t, v)',
         Runs(t, v) /\ Head(Pipeline) \notin Differs(t, v)
             /\ ~Has(Settles(t, v), Tail(Pipeline)) => Runs(t, v)'
  PROVE  Delivers(t, v)'
<1>1. /\ Followed(Differs(t, v), Settles(t, v), Tail(Pipeline))
      /\ Head(Pipeline) \in Differs(t, v) => Has(Settles(t, v), Tail(Pipeline))
  BY FollowedTail DEF Delivers
<1>2. Has(Settles(t, v), Pipeline) =>
        Head(Pipeline) \in Settles(t, v) \/ Has(Settles(t, v), Tail(Pipeline))
  BY HasTail
<1> QED BY <1>1, <1>2 DEF Delivers

LEMMA SessionForwardSpeeds ==
  ASSUME TypeOK, WantedKept, SessionForward, "speed" \notin Reports
  PROVE  WantedKept'
<1> DEFINE c == Head(cmds)
           o == state.out
           T == IF link = "up" THEN Overruled(c) ELSE {}
<1>1. /\ cmds \in Seq(Command) /\ cmds # <<>> /\ cmds' = Tail(cmds) /\ state' = state
      /\ o \in Seq(Command) /\ link' = link
  BY DEF TypeOK, Domain, SessionForward, session
<1>2. /\ Tail(cmds) \o o = Tail(cmds \o o) /\ cmds \o o \in Seq(Command)
      /\ cmds \o o # <<>> /\ Head(cmds \o o) = c /\ c \in Command
  <2> HIDE DEF o
  <2>1. Tail(cmds) \o o = Tail(cmds \o o)
    BY <1>1
  <2>2. cmds \o o \in Seq(Command) /\ Len(cmds \o o) = Len(cmds) + Len(o) /\ Len(cmds) > 0
        /\ Len(o) \in Nat
    BY <1>1, ConcatProperties
  <2>3. cmds \o o # <<>>
    BY <2>2
  <2>4. Head(cmds \o o) = c
    BY <1>1
  <2> QED BY <1>1, <2>1, <2>2, <2>3, <2>4
<1>3. /\ Pipeline \in Seq(Command) /\ Pipeline # <<>> /\ Pipeline' = Tail(Pipeline)
      /\ c = Head(Pipeline) /\ Tail(Pipeline) = Tail(cmds) \o o
  BY <1>1, <1>2 DEF Pipeline
<1>4. T \in SUBSET Throttle
  BY DEF Overruled
<1>5. wanted' = [t \in Throttle |-> IF t \in T THEN None ELSE wanted[t]]
  BY DEF SessionForward, Forgotten, TypeOK
<1>6. served \in [Throttle -> SUBSET Locos] /\ locoSpeed \in [Locos -> Speed]
  BY DEF TypeOK
<1>7. link' # "up" => served' = served /\ \A t \in Throttle : served'[t] = {}
  BY <1>1 DEF SessionForward, WantedKept, station
<1>8. ASSUME NEW t \in Throttle \ T, NEW v \in Speed, Delivers(t, v)
      PROVE  Delivers(t, v)'
  <2>1. CASE link # "up"
    <3>1. Runs(t, v)'
      BY <1>1, <1>7, <2>1 DEF Runs
    <3> HIDE DEF c, T
    <3> QED BY <1>3, <1>8, <3>1, DeliversNext
  <2>2. CASE link = "up"
    <3>1. /\ \A u \in Throttle : served'[u] \subseteq served[u] \/ c \in Adds(u)
          /\ IF IsSpeed(c)
               THEN /\ served' = served
                    /\ locoSpeed' = [l \in Locos |->
                         IF l \in served[c.throttle] THEN Value(c) ELSE locoSpeed[l]]
               ELSE locoSpeed' = locoSpeed
      BY <2>2, Forwarded
    <3>2. c \in Settles(t, v) => Runs(t, v)'
      <4> HIDE DEF c
      <4> QED BY <1>6, <3>1 DEF Runs, Settles
    <3>3. ASSUME Runs(t, v), c \notin Differs(t, v), ~Has(Settles(t, v), Tail(Pipeline))
          PROVE  Runs(t, v)'
      <4>1. CASE ~IsSpeed(c)
        <5>1. c \notin Adds(t)
          BY <3>3 DEF Differs
        <5> HIDE DEF c
        <5> QED BY <1>6, <3>1, <3>3, <4>1, <5>1 DEF Runs
      <4>2. CASE IsSpeed(c) /\ c.throttle = t
        <5>1. Value(c) = v
          BY <1>2, <3>3, <4>2 DEF Differs
        <5> HIDE DEF c
        <5> QED BY <1>6, <3>1, <4>2, <5>1 DEF Runs
      <4>3. CASE IsSpeed(c) /\ c.throttle # t
        <5> DEFINE still == Tail(cmds) \o state.out
        <5>1. still \in Seq(Command) /\ still = Tail(Pipeline)
          BY ZenonT(90), <1>3, TailOf
        <5>2. ASSUME NEW i \in DOMAIN still, IsSpeed(still[i]), still[i].throttle = t
              PROVE  FALSE
          <6>1. still[i] \in Command
            BY <5>1
          <6>2. CASE Value(still[i]) = v
            <7>1. still[i] \in Settles(t, v)
              BY <5>2, <6>1, <6>2 DEF Settles
            <7> QED BY <3>3, <5>1, <7>1 DEF Has
          <6>3. CASE Value(still[i]) # v
            <7>1. still[i] \in Differs(t, v)
              BY <5>2, <6>1, <6>3 DEF Differs
            <7>2. Followed(Differs(t, v), Settles(t, v), Tail(Pipeline))
              BY <1>3, <1>8, FollowedTail DEF Delivers
            <7> HIDE DEF still
            <7> QED BY <3>3, <5>1, <7>1, <7>2 DEF Followed, Has
          <6> QED BY <6>2, <6>3
        <5>3. t \notin Overruled(c)
          BY <1>8, <2>2
        <5>4. served[t] \cap served[c.throttle] = {}
          BY <4>3, <5>2, <5>3 DEF Overruled
        <5> HIDE DEF c
        <5> QED BY <1>6, <3>1, <3>3, <4>3, <5>4 DEF Runs
      <4> QED BY <4>1, <4>2, <4>3
    <3> HIDE DEF c, T
    <3> QED BY <1>3, <1>8, <3>2, <3>3, DeliversNext
  <2> QED BY <2>1, <2>2
<1>9. \A i \in DOMAIN events' : events'[i].op # "Speed"
  BY SlotReports
<1>10. link' # "up" => \A t \in Throttle : served'[t] = {}
  BY <1>7
<1> HIDE DEF T, c, o
<1> QED BY <1>1, <1>4, <1>5, <1>8, <1>9, <1>10, SpeedsForget

LEMMA LinkDropSpeeds ==
  ASSUME TypeOK, WantedKept, LinkDrop
  PROVE  WantedKept'
<1> DEFINE T == {}
<1>1. T \in SUBSET Throttle /\ wanted' = [t \in Throttle |-> IF t \in T THEN None ELSE wanted[t]]
  BY DEF TypeOK, LinkDrop
<1>2. state' = state /\ Pipeline' = Pipeline /\ \A t \in Throttle : served'[t] = {}
  BY DEF LinkDrop, Pipeline
<1>3. \A t \in Throttle \ T, v \in Speed : Delivers(t, v) => Delivers(t, v)'
  BY <1>2 DEF Delivers, Runs
<1>4. \A i \in DOMAIN events' : events'[i].op # "Speed"
  <2>1. events \in Seq(Event)
    BY DEF TypeOK
  <2>2. PICK n \in 0..Len(events) : events' = SubSeq(events, 1, n)
    BY DEF LinkDrop
  <2>3. \A i \in DOMAIN SubSeq(events, 1, n) :
          i \in DOMAIN events /\ SubSeq(events, 1, n)[i] = events[i]
    BY <2>1
  <2> QED BY <2>2, <2>3 DEF WantedKept
<1> HIDE DEF T
<1> QED BY <1>1, <1>2, <1>3, <1>4, SpeedsForget

LEMMA InitSpeeds == Init => WantedKept
<1> SUFFICES ASSUME Init PROVE WantedKept
  OBVIOUS
<1>1. state.current \in InUse(state) /\ state.pending_speed = None
  BY NewType, DomainAssumption DEF Init, New, InUse, Domain
<1>2. \A t \in Throttle : wanted[t] = None /\ served[t] = {}
  BY DEF Init
<1>3. \A i \in DOMAIN events : events[i].op # "Speed"
  BY FewEvents DEF Init
<1> QED BY <1>1, <1>2, <1>3 DEF WantedKept

LEMMA NextSpeeds ==
  ASSUME TypeOK, WantedKept, [Next]_vars, "speed" \notin Reports
  PROVE  WantedKept'
<1>1. CASE User \/ DomainEvent \/ DomainTick
  BY <1>1, DomainSpeeds
<1>2. CASE Flush
  BY <1>2, FlushSendSpeeds, FlushDropSpeeds DEF Flush
<1>3. CASE SessionRetry
  BY <1>3, SpeedsSame DEF SessionRetry, Pipeline, station
<1>4. CASE SessionUp
  BY <1>4, SpeedsSame DEF SessionUp, Pipeline, station
<1>5. CASE SessionRefused
  BY <1>5, SpeedsSame DEF SessionRefused, Pipeline, station
<1>6. CASE SessionLost
  <2>1. \A t \in Throttle : served'[t] = {}
    BY <1>6 DEF SessionLost, WantedKept, station
  <2> QED BY <1>6, <2>1, SpeedsSame DEF SessionLost, Pipeline, station
<1>7. CASE SessionForward
  BY <1>7, SessionForwardSpeeds
<1>8. CASE LinkDrop
  BY <1>8, LinkDropSpeeds
<1>9. CASE TimePasses
  <2>1. /\ state'.out = state.out /\ state'.pending_speed = state.pending_speed
        /\ state'.throttles = state.throttles /\ state'.current = state.current
        /\ state'.max_throttles = state.max_throttles
    BY <1>9 DEF TimePasses, TypeOK, Domain
  <2> QED BY <1>9, <2>1, SpeedsSame DEF TimePasses, Pipeline, station, session
<1>10. CASE UNCHANGED vars
  BY <1>10, SpeedsSame DEF vars, Pipeline, station, session
<1> QED BY <1>1, <1>2, <1>3, <1>4, <1>5, <1>6, <1>7, <1>8, <1>9, <1>10 DEF Next

LEMMA SpeedsAlways == "speed" \notin Reports => (Spec => [](TypeOK /\ WantedKept))
<1> SUFFICES ASSUME "speed" \notin Reports PROVE Spec => [](TypeOK /\ WantedKept)
  OBVIOUS
<1>1. Init => TypeOK /\ WantedKept
  BY InitType, InitSpeeds
<1>2. (TypeOK /\ WantedKept) /\ [Next]_vars => (TypeOK /\ WantedKept)'
  BY NextType, NextSpeeds
<1> QED BY <1>1, <1>2, PTL DEF Spec

LEMMA SpeedsResume == TypeOK /\ WantedKept => SpeedResumes
<1> SUFFICES ASSUME TypeOK, WantedKept, Settled, NEW t \in Throttle, wanted[t] # None,
                    NEW l \in served[t]
             PROVE  locoSpeed[l] = wanted[t]
  BY DEF SpeedResumes
<1>1. Pipeline = <<>> /\ DOMAIN Pipeline = {} /\ state.pending_speed = None
  BY DEF Settled
<1>2. Delivers(t, wanted[t])
  BY <1>1 DEF WantedKept, Heard, For
<1>3. ~Has(Settles(t, wanted[t]), Pipeline)
  BY <1>1 DEF Has
<1> QED BY <1>2, <1>3 DEF Delivers, Runs

LEMMA StopsSurvive == TypeOK /\ WantedKept => StopSurvivesReconnect
<1> SUFFICES ASSUME TypeOK, WantedKept, NEW t \in Throttle, wanted[t] = 0,
                    NEW i \in DOMAIN Pipeline, Moves(t, Pipeline[i])
             PROVE  \E j \in DOMAIN Pipeline : j > i /\ Stops(t, Pipeline[j])
  BY DEF StopSurvivesReconnect
<1>1. 0 \in Speed /\ 0 # None
  BY NoneAssumption, DomainAssumption DEF Speed
<1>2. Heard(t, 0) /\ (state.pending_speed # None => state.pending_speed.speed # 0)
  BY <1>1 DEF WantedKept
<1>3. Delivers(t, 0)
  BY <1>2 DEF Heard, For
<1>4. Pipeline[i] \in Differs(t, 0)
  <2>1. Pipeline \in Seq(Command)
    BY DEF Pipeline, TypeOK, Domain
  <2>2. Pipeline[i] \in Command
    BY <2>1
  <2> QED BY <2>2 DEF Differs, Moves, IsSpeed, Value, Command, Speed
<1>5. PICK j \in DOMAIN Pipeline : j > i /\ Pipeline[j] \in Settles(t, 0)
  BY <1>3, <1>4 DEF Delivers, Followed
<1>6. Stops(t, Pipeline[j])
  BY <1>5 DEF Settles, IsSpeed, Value, Stops
<1> QED BY <1>5, <1>6

(* When the station reports no speeds, the speed the operator last asked of *)
(* a loco, offline or not, is the speed it runs at once the connection is   *)
(* back (domain/state.rs, reacquire_session_locos: the slot's speed is sent *)
(* after its locos).                                                        *)
THEOREM SpeedsAlwaysResume == "speed" \notin Reports => (Spec => []SpeedResumes)
<1>1. TypeOK /\ WantedKept => SpeedResumes
  BY SpeedsResume
<1> QED BY <1>1, SpeedsAlways, PTL

(* When the station reports no speeds, a throttle the operator stopped is   *)
(* not set in motion again by anything a reconnect leaves or sends.         *)
THEOREM StopsAlwaysSurvive == "speed" \notin Reports => (Spec => []StopSurvivesReconnect)
<1>1. TypeOK /\ WantedKept => StopSurvivesReconnect
  BY StopsSurvive
<1> QED BY <1>1, SpeedsAlways, PTL

-----------------------------------------------------------------------------
(* The handset and the station on each other's locos.  A connection starts *)
(* with a station that serves nothing: until the domain has seen it, the   *)
(* reports on their way tell all that the station serves.  From then on    *)
(* what the handset will hold once it has taken them in and what the       *)
(* station serves differ only by a command that is still to be forwarded.  *)

Sessions ==
  /\ phase = "running" <=> conn = "Connected"
  /\ phase # "running" => link = "down"
  /\ phase = "connecting" => conn = "Connecting"
  /\ restored => seen = "Connected"
  /\ link # "up" => \A t \in Throttle : served[t] = {}

Reported(t, l) == Will(t, l, Holds(state.throttles[t], l), events)

Agrees(t, l) ==
  /\ Reported(t, l) /\ l \notin served[t] => Has({AddLoco(t, l)}, Pipeline)
  /\ ~Reported(t, l) /\ l \in served[t] =>
       Has({AddLoco(t, l), ReleaseThrottle(t)}, Pipeline)

Fresh ==
  /\ state.out = <<>>
  /\ \A t \in Throttle, l \in Locos : l \in served[t] <=> Will(t, l, FALSE, events)

Slots ==
  link = "up" /\ intact =>
    IF seen = "Connected" THEN \A t \in InUse(state), l \in Locos : Agrees(t, l) ELSE Fresh

LEMMA InitSessions == Init => Sessions /\ Trains(state) /\ Slots
<1> SUFFICES ASSUME Init PROVE Sessions /\ Trains(state) /\ Slots
  OBVIOUS
<1>1. \A t \in Throttle : Consist(state, t) = <<>>
  BY DEF Init, New, NewSlot, Consist
<1>2. Proper(<<>>)
  BY DomainAssumption DEF Proper
<1> QED BY <1>1, <1>2 DEF Init, Sessions, Trains, Slots

LEMMA NextSessions ==
  ASSUME TypeOK, Sessions, [Next]_vars
  PROVE  Sessions'
<1>1. ASSUME NEW d, NEW asked, NEW taken, Iteration(d, asked, taken) PROVE Sessions'
  <2>1. restored' => seen' = "Connected"
    BY <1>1 DEF Iteration, Reconnected, Lapsed, Sessions, TypeOK, ConnState
  <2>2. UNCHANGED <<conn, phase, link, served>>
    BY <1>1 DEF Iteration, session, station
  <2> QED BY <2>1, <2>2 DEF Sessions
<1>2. CASE User \/ DomainEvent \/ DomainTick
  BY <1>1, <1>2 DEF User, UserSpeedSet, UserEStopCurrent, UserAcquire, UserRelease,
     UserNextThrottle, DomainEvent, DomainTick
<1>3. CASE Flush
  BY <1>3 DEF Flush, FlushSend, FlushDrop, Sessions, session, station
<1>4. CASE SessionRetry
  BY <1>4 DEF SessionRetry, Sessions, station
<1>5. CASE SessionUp
  BY <1>5 DEF SessionUp, Sessions, station
<1>6. CASE SessionRefused
  BY <1>6 DEF SessionRefused, Sessions, station
<1>7. CASE SessionLost
  BY <1>7 DEF SessionLost, Sessions, station
<1>8. CASE SessionForward
  BY <1>8 DEF SessionForward, Sessions, session, station
<1>9. CASE LinkDrop
  BY <1>9 DEF LinkDrop, Sessions
<1>10. CASE TimePasses
  BY <1>10 DEF TimePasses, Sessions, session, station
<1>11. CASE UNCHANGED vars
  BY <1>11 DEF vars, Sessions, session, station
<1> QED BY <1>2, <1>3, <1>4, <1>5, <1>6, <1>7, <1>8, <1>9, <1>10, <1>11 DEF Next

LEMMA SlotsInUse ==
  ASSUME NEW d \in Domain
  PROVE  /\ InUse(d) \subseteq Throttle
         /\ \A t \in InUse(d) : t < d.max_throttles /\ d.throttles[t].consist \in Seq(Locos)
<1>1. d.max_throttles \in 1..MaxThrottles /\ MaxThrottles \in Nat
  BY DomainAssumption DEF Domain
<1>2. InUse(d) \subseteq Throttle /\ \A t \in InUse(d) : t < d.max_throttles
  BY <1>1 DEF InUse, Throttle
<1> QED BY <1>2 DEF Domain, Slot

LEMMA SlotsHeal == TypeOK /\ Slots => ReconnectHeals
<1> SUFFICES ASSUME TypeOK, Slots, Settled, intact, NEW t \in InUse(state)
             PROVE  Held(t) = served[t]
  BY DEF ReconnectHeals, Agree
<1> DEFINE q == state.throttles[t].consist
<1>0. t \in Throttle
  BY SlotsInUse DEF TypeOK
<1>1. q \in Seq(Locos) /\ served[t] \in SUBSET Locos
  BY <1>0 DEF TypeOK, Domain, Slot
<1>2. \A i \in DOMAIN q : q[i] \in Locos
  BY <1>1
<1>3. Pipeline = <<>> /\ \A Z : ~Has(Z, Pipeline)
  BY DEF Settled, Has
<1>4. \A l : Reported(t, l) <=> Holds(state.throttles[t], l)
  BY DEF Reported, Will, Settled
<1>5. \A l \in Locos : Holds(state.throttles[t], l) <=> l \in served[t]
  BY <1>3, <1>4 DEF Slots, Agrees, Settled
<1>6. Held(t) = {q[i] : i \in DOMAIN q}
  BY DEF Held
<1> HIDE DEF q
<1>7. \A l \in Locos : (\E i \in DOMAIN q : q[i] = l) <=> l \in served[t]
  BY <1>5 DEF Holds, q
<1> QED BY <1>1, <1>2, <1>6, <1>7

-----------------------------------------------------------------------------
(* The iterations of the domain.                                           *)

\* What a reconnect has the handset hold and ask for.
LEMMA ReacquireSlotsHeld ==
  ASSUME NEW d \in Domain, d.out = <<>>, CutShort(d) = {}, NEW t \in InUse(d), NEW l \in Locos,
         Holds(d.throttles[t], l)
  PROVE  Reacquire(d) = ReacquireSlots(d) /\ Has({AddLoco(t, l)}, Reacquire(d).out)
<1> DEFINE e == ReacquireSlots(d)
<1>1. t \in Throttle /\ t < d.max_throttles /\ HasLoco(d, t)
  <2>1. t \in Throttle /\ t < d.max_throttles /\ d.throttles[t].consist \in Seq(Locos)
    BY SlotsInUse
  <2>2. HasLoco(d, t)
    BY <2>1, EmptyFits DEF Holds, HasLoco
  <2> QED BY <2>1, <2>2
<1>2. Reacquire(d) = e
  BY <1>1 DEF Reacquire
<1>3. Whole(d, t, e.out)
  BY <1>1, ReacquireAgain DEF Again
<1>4. Has({Resumed(d, t)}, e.out)
  <2>1. SetSpeed(t, d.throttles[t].speed) \in {e.out[i] : i \in DOMAIN e.out}
    BY <1>1 DEF CutShort
  <2> QED BY <2>1 DEF Has, Resumed
<1>5. PICK i \in DOMAIN Consist(d, t) : Consist(d, t)[i] = l
  BY DEF Holds, Consist
<1>6. Has({AddLoco(t, Consist(d, t)[i])}, e.out)
  BY <1>3, <1>4 DEF Whole
<1>7. Has({AddLoco(t, l)}, e.out)
  <2> HIDE DEF e
  <2> QED BY <1>5, <1>6
<1> HIDE DEF e
<1>8. Has({AddLoco(t, l)}, Reacquire(d).out)
  BY <1>2, <1>7
<1> QED BY <1>2, <1>8 DEF e

LEMMA ReacquireTrains ==
  ASSUME TypeOK, NEW d \in Domain, NEW asked, NEW taken, Iteration(d, asked, taken),
         Len(d.out) < CmdBuf
  PROVE  /\ state'.throttles = d.throttles /\ InUse(state') = InUse(d)
         /\ SameTrains(d, state')
<1>1. state'.throttles = d.throttles /\ state'.max_throttles = d.max_throttles
  BY Iterated
<1> QED BY <1>1 DEF InUse, SameTrains, Consist

LEMMA FreshAgrees ==
  ASSUME TypeOK, Sessions, Fresh, link = "up", seen # "Connected",
         NEW d \in Domain, NEW asked, NEW taken, Iteration(d, asked, taken), Len(d.out) < CmdBuf,
         intact',
         \A t \in Throttle, l \in Locos :
           LET held == Holds(d.throttles[t], l)
           IN  /\ Will(t, l, held, events') /\ ~held => Will(t, l, FALSE, events)
               /\ Will(t, l, FALSE, events) => Will(t, l, held, events')
  PROVE  Slots'
<1>1. conn = "Connected" /\ Reconnected /\ ~restored
  BY DEF Sessions, Reconnected
<1> DEFINE d0 == [d EXCEPT !.out = <<>>]
           e == Reacquire(d0)
<1>2. state' = FlushPendingSpeed(e) /\ e \in Domain /\ Len(e.out) <= CmdBuf /\ served' = served
      /\ cmds' = cmds
  BY <1>1, Iterated
<1>3. CutShort(d0) = {}
  BY <1>1 DEF Iteration
<1>4. d0 \in Domain /\ d0.out = <<>> /\ d0.throttles = d.throttles
      /\ d0.max_throttles = d.max_throttles
  BY Emptied
<1> HIDE DEF d0, e
<1>5. state'.throttles = d.throttles /\ InUse(state') = InUse(d) /\ InUse(d0) = InUse(d)
  BY <1>4, ReacquireTrains DEF InUse
<1>6. \A Z : Has(Z, e.out) => Has(Z, Pipeline')
  <2>1. \A Z : Has(Z, e.out) => Has(Z, state'.out)
    <3> DEFINE p == e.pending_speed
               c == SetSpeed(p.throttle, p.speed)
               q == e.out
    <3>1. /\ q \in Seq(Command)
          /\ p # None => p.throttle \in Throttle /\ p.speed \in Speed
          /\ \/ state'.out = q
             \/ p # None /\ state'.out = q \o <<c>>
      BY <1>2, FlushPendingFields DEF Domain
    <3>2. p # None => <<c>> \in Seq(Command)
      <4>1. p # None => c \in Command
        BY <3>1 DEF SetSpeed, Command
      <4> HIDE DEF c
      <4> QED BY <4>1
    <3> HIDE DEF q, c, p
    <3>3. \A Z : Has(Z, q) => Has(Z, state'.out)
      BY ZenonT(90), <3>1, <3>2, HasJoined
    <3> QED BY <3>3 DEF q
  <2>2. cmds \in Seq(Command) /\ state'.out \in Seq(Command)
    BY <1>2, FlushPendingFields DEF TypeOK, Domain
  <2>3. Pipeline' = cmds \o state'.out
    BY <1>2 DEF Pipeline
  <2> QED BY <2>1, <2>2, <2>3, HasJoined
<1>7. ASSUME NEW t \in InUse(state'), NEW l \in Locos PROVE Agrees(t, l)'
  <2> DEFINE held == Holds(d.throttles[t], l)
  <2>1. t \in Throttle /\ t \in InUse(d0)
    BY <1>4, <1>5, SlotsInUse
  <2>2. Reported(t, l)' <=> Will(t, l, held, events')
    BY <1>5 DEF Reported
  <2>3. l \in served[t] <=> Will(t, l, FALSE, events)
    BY <2>1 DEF Fresh
  <2>4. /\ Will(t, l, held, events') /\ ~held => Will(t, l, FALSE, events)
        /\ Will(t, l, FALSE, events) => Will(t, l, held, events')
    BY <2>1
  <2>5. held => Has({AddLoco(t, l)}, Pipeline')
    BY <1>3, <1>4, <1>6, <2>1, ReacquireSlotsHeld DEF e
  <2> HIDE DEF held
  <2> QED BY <1>2, <2>2, <2>3, <2>4, <2>5 DEF Agrees
<1>8. seen' = "Connected"
  BY <1>1 DEF Iteration
<1> QED BY <1>7, <1>8 DEF Slots

LEMMA UserHandles ==
  ASSUME TypeOK, User
  PROVE  \E d \in Domain : \E asked :
           /\ Iteration(d, asked, TRUE) /\ Handles(state, d)
           /\ events' = events /\ d.max_throttles = state.max_throttles
<1>1. /\ state \in Domain /\ cur = state.current /\ cur \in Throttle
      /\ Speed \in SUBSET Nat /\ 0 \in Nat
  BY CurrentSlot DEF TypeOK, cur, Speed
<1>2. ASSUME NEW d, NEW asked, Iteration(d, asked, TRUE) PROVE state.out = <<>>
  BY <1>2 DEF Iteration
<1> DEFINE Goal(d) == \E asked : /\ Iteration(d, asked, TRUE) /\ Handles(state, d)
                                 /\ events' = events /\ d.max_throttles = state.max_throttles
<1>3. ASSUME NEW s \in Speed, UserSpeedSet(s) PROVE \E d \in Domain : Goal(d)
  <2>1. SpeedSet(state, s).max_throttles = state.max_throttles
    BY <1>1 DEF SpeedSet, EmitSpeed, PushCmd, PushAll, Domain
  <2> QED BY <1>1, <1>2, <1>3, <2>1, SpeedSetType, SpeedSetHandles DEF UserSpeedSet, Input
<1>4. ASSUME UserEStopCurrent PROVE \E d \in Domain : Goal(d)
  <2>1. EStopCurrent(state).max_throttles = state.max_throttles
    BY <1>1 DEF EStopCurrent, PushCmd, PushAll, Domain
  <2> QED BY <1>1, <1>2, <1>4, <2>1, EStopCurrentType, EStopHandles DEF UserEStopCurrent, Input
<1>5. ASSUME NEW l \in Locos, UserAcquire(l) PROVE \E d \in Domain : Goal(d)
  <2> DEFINE d == AcquireFromUi(state, l, "Forward")
  <2>1. Iteration(d, [wanted EXCEPT ![cur] = None], TRUE) /\ events' = events
    BY <1>5 DEF UserAcquire, Input
  <2>2. d \in Domain /\ Handles(state, d)
    BY <1>1, <1>2, <2>1, AcquireFromUiType, AcquireHandles DEF Direction
  <2>3. d.max_throttles = state.max_throttles
    BY AcquireLeaves
  <2> QED BY <2>1, <2>2, <2>3
<1>6. ASSUME UserRelease PROVE \E d \in Domain : Goal(d)
  <2>1. ReleaseAll(state).max_throttles = state.max_throttles
    BY <1>1 DEF ReleaseAll, Release, ClearConsist, PushCmd, PushAll, Domain
  <2> QED BY <1>1, <1>2, <1>6, <2>1, ReleaseType, ReleaseHandles
      DEF UserRelease, ReleaseAll, Input
<1>7. ASSUME UserNextThrottle PROVE \E d \in Domain : Goal(d)
  <2> DEFINE d == NextThrottle(state)
  <2>1. d \in Domain /\ Iteration(d, wanted, TRUE) /\ events' = events
    BY <1>1, <1>7, NextThrottleType DEF UserNextThrottle, Input
  <2>2. state.out = <<>> /\ SameTrains(state, d) /\ d.out = state.out
    BY <1>1, <1>2, <2>1, SelectionOut
  <2>3. d.max_throttles = state.max_throttles
    BY <1>1 DEF NextThrottle, Domain
  <2> HIDE DEF d
  <2> QED BY <1>1, <2>1, <2>2, <2>3, IdleHandles
<1> QED BY <1>3, <1>4, <1>5, <1>6, <1>7 DEF User

\* What comes behind the pipeline makes good what it changes in the consist.
LEMMA AgreesPushed ==
  ASSUME NEW t \in Throttle, NEW l \in Locos, Agrees(t, l), NEW q \in Seq(Command),
         Pipeline \in Seq(Command), Pipeline' = Pipeline \o q,
         events' = events, served' = served,
         \/ Holds(state'.throttles[t], l) <=> Holds(state.throttles[t], l)
         \/ Has({AddLoco(t, l)}, q)
         \/ ~Holds(state'.throttles[t], l) /\ Has({ReleaseThrottle(t)}, q)
  PROVE  Agrees(t, l)'
<1> DEFINE A == {AddLoco(t, l)}
           B == {AddLoco(t, l), ReleaseThrottle(t)}
<1>1. \A Z : Has(Z, Pipeline') <=> Has(Z, Pipeline) \/ Has(Z, q)
  BY HasJoined
<1>2. (Has(A, q) => Has(B, q)) /\ (Has({ReleaseThrottle(t)}, q) => Has(B, q))
  BY DEF Has
<1>3. Reported(t, l) <=> Will(t, l, Holds(state.throttles[t], l), events)
  BY DEF Reported
<1>4. Reported(t, l)' <=> Will(t, l, Holds(state'.throttles[t], l), events)
  BY DEF Reported
<1>5. Agrees(t, l)' <=>
        /\ Reported(t, l)' /\ l \notin served[t] => Has(A, Pipeline')
        /\ ~Reported(t, l)' /\ l \in served[t] => Has(B, Pipeline')
  BY DEF Agrees
<1>6. /\ Reported(t, l) /\ l \notin served[t] => Has(A, Pipeline)
      /\ ~Reported(t, l) /\ l \in served[t] => Has(B, Pipeline)
  BY DEF Agrees
<1> HIDE DEF A, B
<1>7. CASE Holds(state'.throttles[t], l) <=> Holds(state.throttles[t], l)
  <2>1. Reported(t, l)' <=> Reported(t, l)
    BY <1>3, <1>4, <1>7 DEF Will
  <2> QED BY <1>1, <1>5, <1>6, <2>1
<1>8. CASE Has(A, q)
  BY <1>1, <1>2, <1>5, <1>8
<1>9. CASE ~Holds(state'.throttles[t], l) /\ Has({ReleaseThrottle(t)}, q)
  <2>1. Reported(t, l)' => Reported(t, l)
    BY <1>3, <1>4, <1>9 DEF Will
  <2> QED BY <1>1, <1>2, <1>5, <1>6, <1>9, <2>1
<1> QED BY <1>7, <1>8, <1>9 DEF A

\* An iteration without a reacquire adds to the pipeline what is in `out`.
LEMMA IterationPushes ==
  ASSUME TypeOK, NEW d \in Domain, NEW asked, NEW taken, Iteration(d, asked, taken),
         Len(d.out) < CmdBuf, ~(Reconnected /\ ~restored)
  PROVE  /\ Pipeline \in Seq(Command) /\ served' = served
         /\ \E q \in Seq(Command) : Pipeline' = Pipeline \o q /\ \A Z : Has(Z, d.out) => Has(Z, q)
<1>1. state' = FlushPendingSpeed(d) /\ served' = served /\ cmds' = cmds /\ Len(d.out) <= CmdBuf
  BY Iterated
<1>2. state.out = <<>>
  BY DEF Iteration
<1>3. cmds \in Seq(Command) /\ Pipeline = cmds
  BY <1>2 DEF TypeOK, Pipeline
<1>4. \E q \in Seq(Command) : state'.out = q /\ \A Z : Has(Z, d.out) => Has(Z, q)
  <2> DEFINE p == d.pending_speed
             c == SetSpeed(p.throttle, p.speed)
             o == d.out
  <2>1. /\ o \in Seq(Command)
        /\ p # None => p.throttle \in Throttle /\ p.speed \in Speed
        /\ \/ state'.out = o
           \/ p # None /\ state'.out = o \o <<c>>
    BY <1>1, FlushPendingFields DEF Domain
  <2>2. p # None => <<c>> \in Seq(Command)
    <3>1. p # None => c \in Command
      BY <2>1 DEF SetSpeed, Command
    <3> HIDE DEF c
    <3> QED BY <3>1
  <2> HIDE DEF o, c, p
  <2>3. \/ state'.out = o
        \/ /\ state'.out = o \o <<c>> /\ o \o <<c>> \in Seq(Command)
           /\ \A Z : Has(Z, o) => Has(Z, o \o <<c>>)
    BY <2>1, <2>2, HasJoined, Joined
  <2> QED BY <2>1, <2>3 DEF o
<1>5. Pipeline' = cmds \o state'.out
  BY <1>1 DEF Pipeline
<1> QED BY <1>1, <1>3, <1>4, <1>5

LEMMA UserSlots ==
  ASSUME TypeOK, Sessions, Trains(state), Slots, User
  PROVE  Trains(state)' /\ Slots'
<1>0. PICK d \in Domain : \E asked :
        /\ Iteration(d, asked, TRUE) /\ Handles(state, d)
        /\ events' = events /\ d.max_throttles = state.max_throttles
  BY UserHandles
<1>1. PICK asked : /\ Iteration(d, asked, TRUE) /\ Handles(state, d)
                   /\ events' = events /\ d.max_throttles = state.max_throttles
  BY <1>0
<1>2. Len(d.out) < CmdBuf /\ state \in Domain
  BY <1>1 DEF Handles, TypeOK
<1>3. state'.throttles = d.throttles /\ InUse(state') = InUse(d) /\ SameTrains(d, state')
  BY <1>1, <1>2, ReacquireTrains
<1>4. Trains(state)'
  BY <1>1, <1>2, <1>3, HandlesTrains DEF Trains, SameTrains
<1>5. InUse(state') = InUse(state)
  BY <1>1, <1>3 DEF InUse
<1>6. ASSUME link' = "up", intact' PROVE Slots'
  <2>1. link = "up" /\ intact /\ conn = "Connected"
    BY <1>1, <1>6 DEF Iteration, session, Sessions, TypeOK
  <2>2. CASE seen # "Connected"
    <3>1. Fresh
      BY <2>1, <2>2 DEF Slots
    <3>2. \A t \in Throttle, l \in Locos :
            LET held == Holds(d.throttles[t], l)
            IN  /\ Will(t, l, held, events') /\ ~held => Will(t, l, FALSE, events)
                /\ Will(t, l, FALSE, events) => Will(t, l, held, events')
      BY <1>1 DEF Will
    <3> QED BY <1>1, <1>2, <1>6, <2>1, <2>2, <3>1, <3>2, FreshAgrees
  <2>3. CASE seen = "Connected"
    <3>1. ~(Reconnected /\ ~restored)
      BY <2>1, <2>3 DEF Reconnected
    <3>2. seen' = "Connected"
      BY <1>1, <2>1 DEF Iteration
    <3>3. ASSUME NEW t \in InUse(state'), NEW l \in Locos PROVE Agrees(t, l)'
      <4>1. PICK q \in Seq(Command) :
              Pipeline' = Pipeline \o q /\ \A Z : Has(Z, d.out) => Has(Z, q)
        BY <1>1, <1>2, <3>1, IterationPushes
      <4>2. Pipeline \in Seq(Command) /\ served' = served
        BY <1>1, <1>2, <3>1, IterationPushes
      <4>3. t \in Throttle /\ Agrees(t, l)
        BY <1>2, <1>5, <2>1, <2>3, <3>3, SlotsInUse DEF Slots
      <4>4. \/ Holds(d.throttles[t], l) <=> Holds(state.throttles[t], l)
            \/ Has({AddLoco(t, l)}, d.out)
            \/ ~Holds(d.throttles[t], l) /\ Has({ReleaseThrottle(t)}, d.out)
        BY <1>1, <1>2, <4>3, HandlesSlot
      <4> QED BY <1>1, <1>3, <4>1, <4>2, <4>3, <4>4, AgreesPushed
    <3> QED BY <3>2, <3>3 DEF Slots
  <2> QED BY <2>2, <2>3
<1> QED BY <1>4, <1>6 DEF Slots

LEMMA TickSlots ==
  ASSUME TypeOK, Sessions, Trains(state), Slots, DomainTick
  PROVE  Trains(state)' /\ Slots'
<1>1. Iteration(state, wanted, TRUE) /\ events' = events
  BY DEF DomainTick
<1>2. Len(state.out) < CmdBuf /\ state \in Domain
  BY <1>1, EmptyFits DEF Iteration, TypeOK
<1>3. /\ state'.throttles = state.throttles /\ InUse(state') = InUse(state)
      /\ SameTrains(state, state')
  BY <1>1, <1>2, ReacquireTrains
<1>4. Trains(state)'
  BY <1>3 DEF Trains, SameTrains
<1>5. ASSUME link' = "up", intact' PROVE Slots'
  <2>1. link = "up" /\ intact /\ conn = "Connected"
    BY <1>1, <1>5 DEF Iteration, session, Sessions, TypeOK
  <2>2. CASE seen # "Connected"
    <3>1. Fresh
      BY <2>1, <2>2 DEF Slots
    <3>2. \A t \in Throttle, l \in Locos :
            LET held == Holds(state.throttles[t], l)
            IN  /\ Will(t, l, held, events') /\ ~held => Will(t, l, FALSE, events)
                /\ Will(t, l, FALSE, events) => Will(t, l, held, events')
      BY <1>1 DEF Will
    <3> QED BY <1>1, <1>2, <1>5, <2>1, <2>2, <3>1, <3>2, FreshAgrees
  <2>3. CASE seen = "Connected"
    <3>1. ~(Reconnected /\ ~restored)
      BY <2>1, <2>3 DEF Reconnected
    <3>2. seen' = "Connected"
      BY <1>1, <2>1 DEF Iteration
    <3>3. ASSUME NEW t \in InUse(state'), NEW l \in Locos PROVE Agrees(t, l)'
      <4>1. PICK q \in Seq(Command) : Pipeline' = Pipeline \o q
        BY <1>1, <1>2, <3>1, IterationPushes
      <4>2. Pipeline \in Seq(Command) /\ served' = served
        BY <1>1, <1>2, <3>1, IterationPushes
      <4>3. t \in Throttle /\ Agrees(t, l)
        BY <1>2, <1>3, <2>1, <2>3, <3>3, SlotsInUse DEF Slots
      <4> QED BY <1>1, <1>3, <4>1, <4>2, <4>3, AgreesPushed
    <3> QED BY <3>2, <3>3 DEF Slots
  <2> QED BY <2>2, <2>3
<1> QED BY <1>4, <1>5 DEF Slots

LEMMA EventSlots ==
  ASSUME TypeOK, Sessions, Trains(state), Slots, DomainEvent
  PROVE  Trains(state)' /\ Slots'
<1> DEFINE ev == Head(events)
           d == ApplyEvent(state, ev)
<1>1. /\ ev \in Event /\ d \in Domain /\ events \in Seq(Event) /\ events # <<>>
      /\ Iteration(d, wanted, ~Refused(ev)) /\ events' = Tail(events) /\ state \in Domain
  BY DomainEventType DEF DomainEvent, TypeOK
<1>2. Len(d.out) < CmdBuf /\ d.max_throttles = state.max_throttles
  <2>1. state.out = <<>> /\ d.out = state.out
    BY <1>1, ApplyEventOut DEF Iteration
  <2>2. Len(d.out) < CmdBuf
    BY <2>1, EmptyFits
  <2>3. CASE ev.op = "AddressAdded"
    BY SMTT(60), <1>1, <2>2, <2>3 DEF ApplyEvent, OnAddressAdded, Domain
  <2>4. CASE ev.op = "AddressRemoved"
    BY <1>1, <2>2, <2>4 DEF ApplyEvent, OnAddressRemoved, ClearConsist, Domain
  <2>5. CASE ev.op = "Speed"
    BY <1>1, <2>2, <2>5 DEF ApplyEvent, OnSpeedEcho, Domain
  <2> QED BY <1>1, <2>3, <2>4, <2>5 DEF Event
<1> HIDE DEF d, ev
<1>3. state'.throttles = d.throttles /\ InUse(state') = InUse(d) /\ SameTrains(d, state')
  BY <1>1, <1>2, ReacquireTrains
<1>4. Trains(state)'
  <2>1. Trains(d)
    BY <1>1, EventTrains DEF d
  <2> QED BY <1>3, <2>1 DEF Trains, SameTrains
<1>5. InUse(state') = InUse(state)
  BY <1>2, <1>3 DEF InUse
<1>6. ASSUME link' = "up", intact' PROVE Slots'
  <2>1. link = "up" /\ intact /\ conn = "Connected" /\ ~Refused(ev)
    BY <1>1, <1>6 DEF Iteration, session, Sessions, TypeOK
  <2>2. ev.op = "AddressAdded" =>
          Holds(state.throttles[ev.throttle], ev.loco) \/ Len(Consist(state, ev.throttle)) < MaxLocos
    <3>1. ev.op = "AddressAdded" => ev.throttle \in Throttle
      BY <1>1 DEF Event
    <3>2. \A u \in Throttle : Len(Consist(state, u)) \in Nat /\ Consist(state, u) = state.throttles[u].consist
      <4>1. \A u \in Throttle : Consist(state, u) \in Seq(Locos)
        BY <1>1 DEF Domain, Slot, Consist
      <4> QED BY <4>1 DEF Consist
    <3> QED BY <2>1, <3>1, <3>2, DomainAssumption DEF Refused
  <2>3. ASSUME NEW t \in Throttle, NEW l \in Locos
        PROVE  Holds(d.throttles[t], l)
                 <=> (Holds(state.throttles[t], l) \/ Came(t, l, ev)) /\ ~Gone(t, l, ev)
    BY <1>1, <2>2, EventHolds DEF d
  <2>4. ASSUME NEW t \in Throttle, NEW l \in Locos
        PROVE  Will(t, l, Holds(d.throttles[t], l), Tail(events))
                 <=> Will(t, l, Holds(state.throttles[t], l), events)
    BY <1>1, <2>3, WillHead DEF Holds, ev
  <2>5. CASE seen # "Connected"
    <3>1. Fresh
      BY <2>1, <2>5 DEF Slots
    <3>2. ASSUME NEW t \in Throttle, NEW l \in Locos
          PROVE  LET held == Holds(d.throttles[t], l)
                 IN  /\ Will(t, l, held, events') /\ ~held => Will(t, l, FALSE, events)
                     /\ Will(t, l, FALSE, events) => Will(t, l, held, events')
      <4> DEFINE held == Holds(d.throttles[t], l)
                 before == Holds(state.throttles[t], l)
      <4>1. held \in BOOLEAN /\ before \in BOOLEAN
        BY DEF Holds
      <4>2. (held <=> (before \/ Came(t, l, ev)) /\ ~Gone(t, l, ev))
            /\ (Will(t, l, held, Tail(events)) <=> Will(t, l, before, events))
        BY <2>3, <2>4
      <4> HIDE DEF held, before
      <4>3. Will(t, l, FALSE, events) => Will(t, l, before, events)
        BY DEF Will
      <4>4. ASSUME Will(t, l, held, Tail(events)), ~held PROVE Will(t, l, FALSE, events)
        <5> DEFINE next == Came(t, l, ev) /\ ~Gone(t, l, ev)
        <5>1. ~next
          BY <4>2, <4>4
        <5>2. Will(t, l, FALSE, Tail(events))
          BY <4>4 DEF Will
        <5>3. FALSE <=> (FALSE \/ Came(t, l, Head(events))) /\ ~Gone(t, l, Head(events))
          BY <5>1 DEF ev
        <5>4. FALSE \in BOOLEAN
          OBVIOUS
        <5> QED BY <1>1, <5>2, <5>3, <5>4, WillHead
      <4> QED BY <1>1, <4>2, <4>3, <4>4 DEF held
    <3> QED BY <1>1, <1>2, <1>6, <2>1, <2>5, <3>1, <3>2, FreshAgrees
  <2>6. CASE seen = "Connected"
    <3>1. ~(Reconnected /\ ~restored)
      BY <2>1, <2>6 DEF Reconnected
    <3>2. seen' = "Connected"
      BY <1>1, <2>1 DEF Iteration
    <3>3. ASSUME NEW t \in InUse(state'), NEW l \in Locos PROVE Agrees(t, l)'
      <4>1. PICK q \in Seq(Command) : Pipeline' = Pipeline \o q
        BY <1>1, <1>2, <3>1, IterationPushes
      <4>2. Pipeline \in Seq(Command) /\ served' = served
        BY <1>1, <1>2, <3>1, IterationPushes
      <4>3. t \in Throttle /\ Agrees(t, l)
        BY <1>1, <1>5, <2>1, <2>6, <3>3, SlotsInUse DEF Slots
      <4>4. Reported(t, l)' <=> Reported(t, l)
        BY <1>1, <1>3, <2>4, <4>3 DEF Reported
      <4>5. \A Z : Has(Z, Pipeline) => Has(Z, Pipeline')
        BY <4>1, <4>2, HasJoined
      <4> QED BY <4>2, <4>3, <4>4, <4>5 DEF Agrees
    <3> QED BY <3>2, <3>3 DEF Slots
  <2> QED BY <2>5, <2>6
<1> QED BY <1>4, <1>6 DEF Slots

-----------------------------------------------------------------------------
(* The station.                                                            *)

\* A command that is no acquire of l and no release leaves their agreement alone,
\* if its reports say nothing of l.
LEMMA AgreesNext ==
  ASSUME NEW t \in Throttle, NEW l \in Locos, Agrees(t, l),
         Pipeline \in Seq(Command), Pipeline # <<>>, Pipeline' = Tail(Pipeline),
         Head(Pipeline) \notin {AddLoco(t, l), ReleaseThrottle(t)},
         l \in served'[t] <=> l \in served[t],
         Reported(t, l)' <=> Reported(t, l)
  PROVE  Agrees(t, l)'
<1> DEFINE A == {AddLoco(t, l)}
           B == {AddLoco(t, l), ReleaseThrottle(t)}
<1>1. (Has(A, Pipeline) => Has(A, Pipeline')) /\ (Has(B, Pipeline) => Has(B, Pipeline'))
  BY HasTail
<1> QED BY <1>1 DEF Agrees

\* What a command does to the locos the station serves, its reports tell.
LEMMA StationTells ==
  ASSUME TypeOK, SessionForward, link = "up", "slot" \in Reports, intact',
         NEW t \in Throttle, NEW l \in Locos, NEW held \in BOOLEAN
  PROVE  LET c == Head(cmds)
         IN  /\ intact
             /\ \/ /\ c = AddLoco(t, l)
                   /\ l \in served'[t] /\ Will(t, l, held, events')
                \/ /\ c = ReleaseThrottle(t) /\ l \notin served'[t]
                   /\ IF l \in served[t] THEN ~Will(t, l, held, events')
                      ELSE Will(t, l, held, events') <=> Will(t, l, held, events)
                \/ /\ c \notin {AddLoco(t, l), ReleaseThrottle(t)}
                   /\ l \in served'[t] <=> l \in served[t]
                   /\ Will(t, l, held, events') <=> Will(t, l, held, events)
<1> DEFINE c == Head(cmds)
           Outcome == \/ /\ c = AddLoco(t, l)
                       /\ l \in served'[t] /\ Will(t, l, held, events')
                    \/ /\ c = ReleaseThrottle(t) /\ l \notin served'[t]
                       /\ IF l \in served[t] THEN ~Will(t, l, held, events')
                          ELSE Will(t, l, held, events') <=> Will(t, l, held, events)
                    \/ /\ c \notin {AddLoco(t, l), ReleaseThrottle(t)}
                       /\ l \in served'[t] <=> l \in served[t]
                       /\ Will(t, l, held, events') <=> Will(t, l, held, events)
<1>1. /\ c \in Command /\ events \in Seq(Event) /\ served \in [Throttle -> SUBSET Locos]
      /\ locoSpeed \in [Locos -> Speed]
  BY DEF TypeOK, SessionForward
<1>2. StationAdd(c) \/ StationRelease(c) \/ StationSpeed(c) \/ StationOther(c)
  BY DEF SessionForward
<1> HIDE DEF c
<1>3. ASSUME NEW evs \in Seq(Event), Answer(evs) PROVE events' = events \o evs /\ intact
  BY <1>3, AnswerType
\* Reports that cannot be about t and l change nothing.
<1>4. ASSUME NEW evs \in Seq(Event), events' = events \o evs,
             \A i \in DOMAIN evs : ~Gone(t, l, evs[i]) /\ ~Came(t, l, evs[i])
      PROVE  Will(t, l, held, events') <=> Will(t, l, held, events)
  BY <1>1, <1>4, WillJoined
<1>5. CASE StationAdd(c)
  <2> DEFINE x == [op |-> "AddressAdded", throttle |-> c.throttle, loco |-> c.loco]
             y == [op |-> "Speed", throttle |-> c.throttle, speed |-> locoSpeed[c.loco]]
             p == Report("slot", <<x>>)
             b == Report("speed", <<y>>)
             evs == p \o b
  <2>1. c.throttle \in Throttle /\ c.loco \in Locos /\ c = AddLoco(c.throttle, c.loco)
    BY <1>1, <1>5 DEF StationAdd, Command, AddLoco
  <2>2. x \in Event /\ y \in Event
    BY <1>1, <2>1 DEF Event
  <2>3. p = <<x>> /\ b \in {<<>>, <<y>>}
    BY DEF Report
  <2>4. Answer(evs) /\ served' = [served EXCEPT ![c.throttle] = @ \cup {c.loco}]
    BY <1>5 DEF StationAdd
  <2>5. /\ Came(c.throttle, c.loco, x) /\ (Came(t, l, x) => t = c.throttle /\ l = c.loco)
        /\ ~Gone(t, l, x) /\ ~Came(t, l, y) /\ ~Gone(t, l, y)
    BY DEF Came, Gone
  <2> HIDE DEF x, y, p, b
  <2>6. /\ p \in Seq(Event) /\ DOMAIN p = {1} /\ p[1] = x
        /\ b \in Seq(Event) /\ \A i \in DOMAIN b : b[i] = y
    <3>1. /\ <<x>> \in Seq(Event) /\ DOMAIN <<x>> = {1} /\ <<x>>[1] = x
          /\ <<y>> \in Seq(Event) /\ \A i \in DOMAIN <<y>> : <<y>>[i] = y
          /\ <<>> \in Seq(Event) /\ DOMAIN <<>> = {}
      BY <2>2, FewEvents
    <3> QED BY <2>3, <3>1
  <2>7. /\ evs \in Seq(Event) /\ 1 \in DOMAIN evs /\ evs[1] = x
        /\ \A i \in DOMAIN evs : evs[i] = x \/ evs[i] = y
    <3>1. Len(p) = 1
      BY <2>3
    <3>2. /\ evs \in Seq(Event) /\ DOMAIN evs = 1..(Len(p) + Len(b)) /\ Len(b) \in Nat
          /\ \A i \in 1..Len(p) : evs[i] = p[i]
      BY <2>6, Joined
    <3>3. 1 \in 1..(Len(p) + Len(b)) /\ 1 \in 1..Len(p)
      BY <3>1, <3>2
    <3>4. \A i \in DOMAIN evs : evs[i] = x \/ evs[i] = y
      BY <2>6, JoinedFrom
    <3> QED BY <2>6, <3>2, <3>3, <3>4
  <2> HIDE DEF evs
  <2>8. events' = events \o evs /\ intact
    BY <1>3, <2>4, <2>7
  <2>9. CASE t = c.throttle /\ l = c.loco
    <3>1. l \in served'[t]
      BY <1>1, <2>4, <2>9
    <3>2. Will(t, l, held, events')
      <4>1. \A i \in DOMAIN evs : ~Gone(t, l, evs[i])
        BY <2>5, <2>7
      <4>2. Came(t, l, evs[1])
        BY <2>5, <2>7, <2>9
      <4>3. \E i \in DOMAIN evs : Came(t, l, evs[i])
        BY <2>7, <4>2
      <4>4. Will(t, l, held, events \o evs)
        BY <1>1, <2>7, <4>1, <4>3, WillJoined
      <4> QED BY <2>8, <4>4
    <3>3. c = AddLoco(t, l)
      BY <2>1, <2>9
    <3> QED BY <2>8, <3>1, <3>2, <3>3 DEF c
  <2>10. CASE ~(t = c.throttle /\ l = c.loco)
    <3>1. c \notin {AddLoco(t, l), ReleaseThrottle(t)}
      BY <2>1, <2>10 DEF AddLoco, ReleaseThrottle
    <3>2. l \in served'[t] <=> l \in served[t]
      BY <1>1, <2>4, <2>10
    <3>3. \A i \in DOMAIN evs : ~Gone(t, l, evs[i]) /\ ~Came(t, l, evs[i])
      BY <2>5, <2>7, <2>10
    <3>4. Will(t, l, held, events') <=> Will(t, l, held, events)
      BY <1>4, <2>7, <2>8, <3>3
    <3> QED BY <2>8, <3>1, <3>2, <3>4 DEF c
  <2> QED BY <2>9, <2>10
<1>6. CASE StationRelease(c)
  <2> DEFINE u == c.throttle
             S == served[u]
  <2>1. u \in Throttle /\ c = ReleaseThrottle(u) /\ S \in SUBSET Locos
    BY <1>1, <1>6 DEF StationRelease, Command, ReleaseThrottle
  <2>2. PICK evs \in EachRemoved(u, S) : Answer(evs)
    BY <1>6 DEF StationRelease, Report
  <2>3. served' = [served EXCEPT ![u] = {}]
    BY <1>6 DEF StationRelease
  <2> HIDE DEF u, S
  <2>4. evs \in Seq(Event)
    BY <2>1, <2>2, AnswersType DEF Report
  <2>5. events' = events \o evs /\ intact
    BY <1>3, <2>2, <2>4
  <2>6. /\ \A i \in DOMAIN evs : /\ evs[i].op = "AddressRemoved" /\ evs[i].throttle = u
                                 /\ evs[i].loco \in S
        /\ \A m \in S : \E i \in DOMAIN evs : evs[i].loco = m
    <3>1. /\ evs \in [1..Cardinality(S) -> [op : {"AddressRemoved"}, throttle : {u}, loco : S]]
          /\ \A m \in S : \E i \in DOMAIN evs : evs[i].loco = m
      BY <2>2 DEF EachRemoved
    <3> QED BY <3>1
  <2>7. \A i \in DOMAIN evs : ~Came(t, l, evs[i])
    BY <2>6 DEF Came
  <2>8. CASE t # u
    <3>1. c \notin {AddLoco(t, l), ReleaseThrottle(t)}
      BY <2>1, <2>8 DEF AddLoco, ReleaseThrottle
    <3>2. l \in served'[t] <=> l \in served[t]
      BY <1>1, <2>1, <2>3, <2>8
    <3>3. \A i \in DOMAIN evs : ~Gone(t, l, evs[i]) /\ ~Came(t, l, evs[i])
      BY <2>6, <2>7, <2>8 DEF Gone
    <3>4. Will(t, l, held, events') <=> Will(t, l, held, events)
      BY <1>4, <2>4, <2>5, <3>3
    <3> QED BY <2>5, <3>1, <3>2, <3>4 DEF c
  <2>9. CASE t = u
    <3>1. l \notin served'[t] /\ c = ReleaseThrottle(t)
      BY <1>1, <2>1, <2>3, <2>9
    <3>2. CASE l \in served[t]
      <4>1. \E i \in DOMAIN evs : Gone(t, l, evs[i])
        BY <2>6, <2>9, <3>2 DEF Gone, S
      <4>2. ~Will(t, l, held, events')
        BY <1>1, <2>4, <2>5, <2>7, <4>1, WillJoined
      <4> QED BY <2>5, <3>1, <3>2, <4>2 DEF c
    <3>3. CASE l \notin served[t]
      <4>1. \A i \in DOMAIN evs : evs[i].loco \notin {l, None}
        <5>1. None \notin S
          BY <2>1, NoneAssumption
        <5> QED BY <2>6, <2>9, <3>3, <5>1 DEF S
      <4>2. \A i \in DOMAIN evs : ~Gone(t, l, evs[i]) /\ ~Came(t, l, evs[i])
        BY <2>7, <4>1 DEF Gone
      <4>3. Will(t, l, held, events') <=> Will(t, l, held, events)
        BY <1>4, <2>4, <2>5, <4>2
      <4> QED BY <2>5, <3>1, <3>3, <4>3 DEF c
    <3> QED BY <3>2, <3>3
  <2> QED BY <2>8, <2>9
<1>7. CASE StationSpeed(c)
  <2> DEFINE s == IF c.op = "EStop" THEN 0 ELSE c.speed
             y == [op |-> "Speed", throttle |-> c.throttle, speed |-> s]
             evs == IF served[c.throttle] = {} THEN <<>> ELSE Report("speed", <<y>>)
  <2>1. c.throttle \in Throttle /\ s \in Speed /\ c.op \in {"SetSpeed", "EStop"}
    <3>1. 0 \in Speed
      BY DomainAssumption DEF Speed
    <3> QED BY <1>1, <1>7, <3>1 DEF StationSpeed, Command
  <2>2. Answer(evs) /\ served' = served
    BY <1>7 DEF StationSpeed
  <2> HIDE DEF s
  <2>3. y \in Event /\ ~Gone(t, l, y) /\ ~Came(t, l, y)
    BY <2>1 DEF Event, Gone, Came
  <2>4. evs \in {<<>>, <<y>>}
    BY DEF Report
  <2> HIDE DEF y, evs
  <2>5. evs \in Seq(Event) /\ \A i \in DOMAIN evs : evs[i] = y
    BY <2>3, <2>4, FewEvents
  <2>6. events' = events \o evs /\ intact
    BY <1>3, <2>2, <2>5
  <2>7. c \notin {AddLoco(t, l), ReleaseThrottle(t)}
    BY <2>1 DEF AddLoco, ReleaseThrottle
  <2>8. Will(t, l, held, events') <=> Will(t, l, held, events)
    BY <1>4, <2>3, <2>5, <2>6
  <2> QED BY <2>2, <2>6, <2>7, <2>8 DEF c
<1>8. CASE StationOther(c)
  <2>1. c \notin {AddLoco(t, l), ReleaseThrottle(t)}
    BY <1>8 DEF StationOther, AddLoco, ReleaseThrottle
  <2> QED BY <1>8, <2>1 DEF StationOther, station, c
<1> QED BY <1>2, <1>5, <1>6, <1>7, <1>8

LEMMA StationSlots ==
  ASSUME TypeOK, Sessions, Slots, "slot" \in Reports, SessionForward
  PROVE  Slots'
<1> DEFINE c == Head(cmds)
           o == state.out
<1>1. /\ cmds \in Seq(Command) /\ cmds # <<>> /\ cmds' = Tail(cmds) /\ state' = state
      /\ o \in Seq(Command) /\ link' = link /\ seen' = seen /\ state \in Domain
  BY DEF TypeOK, Domain, SessionForward, session
<1>2. /\ Tail(cmds) \o o = Tail(cmds \o o) /\ cmds \o o \in Seq(Command)
      /\ cmds \o o # <<>> /\ Head(cmds \o o) = c
  <2> HIDE DEF o
  <2>1. Tail(cmds) \o o = Tail(cmds \o o)
    BY <1>1
  <2>2. cmds \o o \in Seq(Command) /\ Len(cmds \o o) = Len(cmds) + Len(o) /\ Len(cmds) > 0
        /\ Len(o) \in Nat
    BY <1>1, ConcatProperties
  <2>3. cmds \o o # <<>>
    BY <2>2
  <2>4. Head(cmds \o o) = c
    BY <1>1
  <2> QED BY <2>1, <2>2, <2>3, <2>4
<1>3. /\ Pipeline \in Seq(Command) /\ Pipeline # <<>> /\ Pipeline' = Tail(Pipeline)
      /\ c = Head(Pipeline)
  BY <1>1, <1>2 DEF Pipeline
<1> SUFFICES ASSUME link = "up", intact' PROVE Slots'
  BY <1>1 DEF Slots
<1>4. intact
  <2> HIDE DEF c
  <2>1. StationAdd(c) \/ StationRelease(c) \/ StationSpeed(c) \/ StationOther(c)
    BY DEF SessionForward, c
  <2>2. StationOther(c) => intact' = intact
    BY DEF StationOther
  <2>3. StationAdd(c) \/ StationRelease(c) \/ StationSpeed(c) => intact
    BY DEF StationAdd, StationRelease, StationSpeed, Answer
  <2> QED BY <2>1, <2>2, <2>3
<1>5. CASE seen = "Connected"
  <2>1. ASSUME NEW t \in InUse(state'), NEW l \in Locos PROVE Agrees(t, l)'
    <3>1. t \in Throttle /\ Agrees(t, l)
      BY <1>1, <1>4, <1>5, <2>1, SlotsInUse DEF Slots
    <3> DEFINE held == Holds(state.throttles[t], l)
    <3>2. /\ Reported(t, l) <=> Will(t, l, held, events)
          /\ Reported(t, l)' <=> Will(t, l, held, events')
          /\ held \in BOOLEAN
      BY <1>1 DEF Reported, Holds
    <3>3. \/ c = AddLoco(t, l) /\ l \in served'[t] /\ Reported(t, l)'
          \/ /\ c = ReleaseThrottle(t) /\ l \notin served'[t]
             /\ IF l \in served[t] THEN ~Reported(t, l)' ELSE Reported(t, l)' <=> Reported(t, l)
          \/ /\ c \notin {AddLoco(t, l), ReleaseThrottle(t)}
             /\ l \in served'[t] <=> l \in served[t]
             /\ Reported(t, l)' <=> Reported(t, l)
      <4> HIDE DEF held
      <4> QED BY <3>1, <3>2, StationTells
    <3> HIDE DEF c, held
    <3>4. CASE c = AddLoco(t, l) /\ l \in served'[t] /\ Reported(t, l)'
      BY <3>4 DEF Agrees
    <3>5. CASE /\ c = ReleaseThrottle(t) /\ l \notin served'[t]
               /\ IF l \in served[t] THEN ~Reported(t, l)' ELSE Reported(t, l)' <=> Reported(t, l)
      <4>1. c \notin {AddLoco(t, l)}
        BY <3>5 DEF AddLoco, ReleaseThrottle
      <4>2. Has({AddLoco(t, l)}, Pipeline) => Has({AddLoco(t, l)}, Pipeline')
        BY <1>3, <4>1, HasTail
      <4> QED BY <3>1, <3>5, <4>2 DEF Agrees
    <3>6. CASE /\ c \notin {AddLoco(t, l), ReleaseThrottle(t)}
               /\ l \in served'[t] <=> l \in served[t]
               /\ Reported(t, l)' <=> Reported(t, l)
      BY <1>3, <3>1, <3>6, AgreesNext
    <3> QED BY <3>3, <3>4, <3>5, <3>6
  <2> QED BY <1>1, <1>5, <2>1 DEF Slots
<1>6. CASE seen # "Connected"
  <2>1. Fresh
    BY <1>4, <1>6 DEF Slots
  <2>2. ASSUME NEW t \in Throttle, NEW l \in Locos
        PROVE  l \in served'[t] <=> Will(t, l, FALSE, events')
    <3>1. l \in served[t] <=> Will(t, l, FALSE, events)
      BY <2>1 DEF Fresh
    <3>2. FALSE \in BOOLEAN
      OBVIOUS
    <3> QED BY <3>1, <3>2, StationTells
  <2>3. Fresh'
    BY <1>1, <2>1, <2>2 DEF Fresh
  <2> QED BY <1>1, <1>6, <2>3 DEF Slots
<1> QED BY <1>5, <1>6

-----------------------------------------------------------------------------

LEMMA UpSlots ==
  ASSUME TypeOK, Sessions, SessionUp
  PROVE  Slots'
<1>1. /\ seen' = "Connecting" /\ state' = state /\ state.out = <<>> /\ events' = <<>>
      /\ \A t \in Throttle : served'[t] = {}
  BY DEF SessionUp, Sessions, station
<1>2. \A t, l : ~Will(t, l, FALSE, <<>>)
  BY DEF Will
<1> QED BY <1>1, <1>2 DEF Slots, Fresh

LEMMA FlushSendSlots ==
  ASSUME TypeOK, Slots, FlushSend
  PROVE  Slots'
<1> DEFINE o == state.out
<1>1. /\ state \in Domain /\ cmds \in Seq(Command) /\ o \in Seq(Command) /\ o # <<>>
  BY DEF TypeOK, Domain, FlushSend
<1>2. /\ state'.out = Tail(o) /\ state'.throttles = state.throttles
      /\ state'.max_throttles = state.max_throttles
  BY <1>1 DEF FlushSend, Domain
<1>3. cmds' = Append(cmds, Head(o)) /\ UNCHANGED <<served, intact, link, events, seen>>
  BY DEF FlushSend, station, session
<1>4. Append(cmds, Head(o)) \o Tail(o) = cmds \o o
  <2> HIDE DEF o
  <2> QED BY <1>1
<1>5. Pipeline' = Pipeline
  BY <1>2, <1>3, <1>4 DEF Pipeline
<1>6. \A t, l : (Agrees(t, l) => Agrees(t, l)') /\ InUse(state') = InUse(state)
  BY <1>2, <1>3, <1>5 DEF Agrees, Reported, InUse, Holds
<1> QED BY <1>1, <1>3, <1>6 DEF Slots, Fresh

LEMMA NextSlots ==
  ASSUME TypeOK, Sessions, Trains(state), Slots, [Next]_vars, "slot" \in Reports
  PROVE  Trains(state)' /\ Slots'
<1>1. CASE User
  BY <1>1, UserSlots
<1>2. CASE DomainEvent
  BY <1>2, EventSlots
<1>3. CASE DomainTick
  BY <1>3, TickSlots
<1>4. ASSUME state'.throttles = state.throttles PROVE Trains(state)'
  BY <1>4 DEF Trains, Consist
<1>5. CASE FlushSend
  <2>1. state'.throttles = state.throttles
    BY <1>5 DEF FlushSend, TypeOK, Domain
  <2> QED BY <1>4, <1>5, <2>1, FlushSendSlots
<1>6. CASE FlushDrop
  <2>1. state'.throttles = state.throttles
    BY <1>6 DEF FlushDrop, TypeOK, Domain
  <2>2. intact' = FALSE
    BY <1>6 DEF FlushDrop
  <2> QED BY <1>4, <2>1, <2>2 DEF Slots
<1>7. CASE SessionForward
  <2>1. state' = state
    BY <1>7 DEF SessionForward
  <2> QED BY <1>4, <1>7, <2>1, StationSlots
<1>8. CASE SessionUp
  <2>1. state' = state
    BY <1>8 DEF SessionUp
  <2> QED BY <1>4, <1>8, <2>1, UpSlots
<1>9. CASE SessionRetry \/ SessionRefused
  <2>1. state' = state /\ link' = link /\ link # "up"
    BY <1>9 DEF SessionRetry, SessionRefused, Sessions
  <2> QED BY <1>4, <2>1 DEF Slots
<1>10. CASE SessionLost \/ LinkDrop
  <2>1. state' = state /\ link' # "up"
    BY <1>10 DEF SessionLost, LinkDrop
  <2> QED BY <1>4, <2>1 DEF Slots
<1>11. ASSUME state'.throttles = state.throttles, state'.out = state.out,
              state'.max_throttles = state.max_throttles,
              UNCHANGED <<cmds, served, intact, link, events, seen>>
       PROVE  Trains(state)' /\ Slots'
  <2>1. \A t, l : (Agrees(t, l) => Agrees(t, l)') /\ InUse(state') = InUse(state)
    BY <1>11 DEF Agrees, Reported, InUse, Holds, Pipeline
  <2> QED BY <1>4, <1>11, <2>1 DEF Slots, Fresh
<1>12. CASE TimePasses
  <2>1. /\ state'.throttles = state.throttles /\ state'.out = state.out
        /\ state'.max_throttles = state.max_throttles
    BY <1>12 DEF TimePasses, TypeOK, Domain
  <2> QED BY <1>11, <1>12, <2>1 DEF TimePasses, session, station
<1>13. CASE UNCHANGED vars
  BY <1>11, <1>13 DEF vars, session, station
<1> QED BY <1>1, <1>2, <1>3, <1>5, <1>6, <1>7, <1>8, <1>9, <1>10, <1>12, <1>13 DEF Next, Flush

(* When the station reports the locos it takes and gives up, a reconnect    *)
(* heals what went wrong before it: whatever was lost, overwritten or left  *)
(* in the channels, once the commands and reports of the reacquire are      *)
(* through the handset and the station agree on every slot in use           *)
(* (domain/state.rs, reacquire_session_locos).                              *)
THEOREM ReconnectAlwaysHeals == "slot" \in Reports => (Spec => []ReconnectHeals)
<1> SUFFICES ASSUME "slot" \in Reports PROVE Spec => []ReconnectHeals
  OBVIOUS
<1> DEFINE I == TypeOK /\ Sessions /\ Trains(state) /\ Slots
<1>1. Init => I
  BY InitType, InitSessions
<1>2. I /\ [Next]_vars => I'
  BY NextType, NextSessions, NextSlots
<1>3. I => ReconnectHeals
  BY SlotsHeal
<1> QED BY <1>1, <1>2, <1>3, PTL DEF Spec
=============================================================================
