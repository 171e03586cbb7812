------------------------ MODULE Provisioning_proof ------------------------
(***************************************************************************)
(* Proofs about the record on flash: what is written is read back, the     *)
(* storage task and the tasks it serves see one record, and the flash is   *)
(* one record changed whole.                                               *)
(***************************************************************************)
EXTENDS Provisioning, TLAPS, FiniteSetTheorems, SequenceTheorems

-----------------------------------------------------------------------------
(* Lists: sequences of anything.                                           *)

LEMMA ListShape ==
  ASSUME NEW s, IsList(s)
  PROVE  /\ Len(s) \in Nat /\ DOMAIN s = 1 .. Len(s)
         /\ s = [i \in 1 .. Len(s) |-> s[i]]
BY DEF IsList

LEMMA ListOf ==
  ASSUME NEW n \in Nat, NEW s, DOMAIN s = 1 .. n, s = [i \in 1 .. n |-> s[i]]
  PROVE  IsList(s) /\ Len(s) = n
<1>1. s \in [1 .. n -> {s[i] : i \in DOMAIN s}]
  OBVIOUS
<1>2. s \in Seq({s[i] : i \in DOMAIN s})
  BY <1>1, SeqDef
<1> QED
  BY <1>2, LenProperties DEF IsList

LEMMA ListOver == ASSUME NEW S, NEW s \in Seq(S) PROVE IsList(s)
<1>1. Len(s) \in Nat /\ DOMAIN s = 1 .. Len(s) /\ s = [i \in 1 .. Len(s) |-> s[i]]
  OBVIOUS
<1> QED
  BY <1>1, ListOf

\* Two lists share a set of elements, so that the facts about sequences apply.
LEMMA ListsShare ==
  ASSUME NEW s, IsList(s), NEW t, IsList(t)
  PROVE  \E S : s \in Seq(S) /\ t \in Seq(S)
<1> DEFINE A == {s[i] : i \in DOMAIN s}
           B == {t[i] : i \in DOMAIN t}
<1>1. s \in Seq(A) /\ t \in Seq(B)
  BY DEF IsList
<1>2. s \in Seq(A \cup B) /\ t \in Seq(A \cup B)
  BY <1>1, SeqMonotonic
<1> QED
  BY <1>2

LEMMA ListEqual ==
  ASSUME NEW s, IsList(s), NEW t, IsList(t), Len(s) = Len(t),
         \A i \in 1 .. Len(s) : s[i] = t[i]
  PROVE  s = t
BY ListsShare, SeqEqual

LEMMA ListConcat ==
  ASSUME NEW s, IsList(s), NEW t, IsList(t)
  PROVE  /\ IsList(s \o t) /\ Len(s \o t) = Len(s) + Len(t)
         /\ \A i \in 1 .. Len(s) : (s \o t)[i] = s[i]
         /\ \A i \in 1 .. Len(t) : (s \o t)[Len(s) + i] = t[i]
<1>1. PICK S : s \in Seq(S) /\ t \in Seq(S)
  BY ListsShare
<1>2. s \o t \in Seq(S) /\ Len(s \o t) = Len(s) + Len(t)
  BY <1>1, ConcatProperties
<1>3. \A i \in 1 .. Len(s) + Len(t) :
        (s \o t)[i] = IF i <= Len(s) THEN s[i] ELSE t[i - Len(s)]
  BY <1>1, ConcatProperties
<1>4. Len(s) \in Nat /\ Len(t) \in Nat
  BY <1>1
<1>5. ASSUME NEW i \in 1 .. Len(s) PROVE (s \o t)[i] = s[i]
  BY <1>3, <1>4
<1>6. ASSUME NEW i \in 1 .. Len(t) PROVE (s \o t)[Len(s) + i] = t[i]
  BY <1>3, <1>4
<1> QED
  BY <1>2, <1>5, <1>6, ListOver

LEMMA ListAppend ==
  ASSUME NEW s, IsList(s), NEW e
  PROVE  /\ IsList(Append(s, e)) /\ Len(Append(s, e)) = Len(s) + 1
         /\ \A i \in 1 .. Len(s) : Append(s, e)[i] = s[i]
         /\ Append(s, e)[Len(s) + 1] = e
<1> DEFINE A == {s[i] : i \in DOMAIN s} \cup {e}
<1>1. s \in Seq(A)
  BY SeqMonotonic DEF IsList
<1>2. e \in A
  OBVIOUS
<1> HIDE DEF A
<1>3. /\ Append(s, e) \in Seq(A)
      /\ Len(Append(s, e)) = Len(s) + 1
      /\ \A i \in 1 .. Len(s) : Append(s, e)[i] = s[i]
      /\ Append(s, e)[Len(s) + 1] = e
  BY <1>1, <1>2, AppendProperties
<1>4. IsList(Append(s, e))
  BY <1>3, ListOver
<1> QED
  BY <1>3, <1>4

LEMMA ListSub ==
  ASSUME NEW s, IsList(s), NEW n \in 0 .. Len(s), NEW m \in Nat \ {0}, m <= n + 1
  PROVE  /\ IsList(SubSeq(s, m, n)) /\ Len(SubSeq(s, m, n)) = n - m + 1
         /\ \A i \in 1 .. n - m + 1 : SubSeq(s, m, n)[i] = s[m + i - 1]
<1> DEFINE A == {s[i] : i \in DOMAIN s}
<1>1. \A i \in m .. n : s[i] \in A
  BY ListShape
<1>2. m \in Int /\ n \in Int
  BY ListShape
<1> HIDE DEF A
<1>3. /\ SubSeq(s, m, n) \in Seq(A)
      /\ Len(SubSeq(s, m, n)) = IF m <= n THEN n - m + 1 ELSE 0
      /\ \A i \in 1 .. n - m + 1 : SubSeq(s, m, n)[i] = s[m + i - 1]
  BY <1>1, <1>2, SubSeqProperties
<1>4. IsList(SubSeq(s, m, n))
  BY <1>3, ListOver
<1>5. Len(SubSeq(s, m, n)) = n - m + 1
  BY <1>2, <1>3
<1> QED
  BY <1>3, <1>4, <1>5

-----------------------------------------------------------------------------
(* Least and greatest numbers.                                             *)

LEMMA MinIsLeast ==
  ASSUME NEW S \in SUBSET Nat, S # {}
  PROVE  Min(S) \in S /\ \A y \in S : Min(S) <= y
<1> DEFINE R == OpToRel(<, Nat)
<1>1. PICK x \in S : \A y \in S : ~ (<<y, x>> \in R)
  <2>1. IsWellFoundedOn(R, Nat)
    BY NatLessThanWellFounded
  <2> HIDE DEF R
  <2> QED
    BY <2>1, WFMin
<1>2. \A y \in S : ~ (y < x)
  BY <1>1 DEF OpToRel
<1>3. \A y \in S : x <= y
  BY <1>2
<1> QED
  BY <1>3 DEF Min

LEMMA MaxIsGreatest ==
  ASSUME NEW S \in SUBSET Nat, NEW x \in S, \A y \in S : y <= x
  PROVE  Max(S) = x
<1>1. \A y \in S : x >= y
  OBVIOUS
<1> DEFINE m == Max(S)
<1>2. m \in S /\ \A y \in S : m >= y
  BY <1>1 DEF Max
<1> HIDE DEF m
<1>3. m = x
  BY <1>1, <1>2
<1> QED
  BY <1>3 DEF m

-----------------------------------------------------------------------------
(* Sorting a roster.                                                       *)

LEMMA IntervalSize ==
  ASSUME NEW n \in Nat
  PROVE  IsFiniteSet(1 .. n) /\ Cardinality(1 .. n) = n
<1>1. 1 \in Int /\ n \in Int
  OBVIOUS
<1>2. IsFiniteSet(1 .. n) /\ Cardinality(1 .. n) = IF 1 > n THEN 0 ELSE n - 1 + 1
  BY <1>1, FS_Interval
<1>3. (IF 1 > n THEN 0 ELSE n - 1 + 1) = n
  OBVIOUS
<1> QED
  BY <1>2, <1>3

Sorted(e) == \A i, j \in DOMAIN e : i <= j => e[i][1] <= e[j][1]

\* Entry j comes before entry k, or is it.
Ahead(e, j, k) == IF j <= k THEN Before(e[j], e[k]) ELSE ~Before(e[k], e[j])

LEMMA AheadOrders ==
  ASSUME NEW e, IsRoster(e), NEW j \in DOMAIN e, NEW k \in DOMAIN e
  PROVE  /\ Ahead(e, k, k)
         /\ Ahead(e, j, k) \/ Ahead(e, k, j)
         /\ Ahead(e, j, k) /\ Ahead(e, k, j) => j = k
         /\ Ahead(e, j, k) => e[j][1] <= e[k][1]
         /\ \A i \in DOMAIN e : Ahead(e, i, j) /\ Ahead(e, j, k) => Ahead(e, i, k)
<1>1. \A i \in DOMAIN e : i \in Nat /\ e[i][1] \in Nat
  BY ListShape DEF IsRoster
<1> QED
  BY <1>1 DEF Ahead, Before

LEMMA RankIsPlace ==
  ASSUME NEW e, IsRoster(e), NEW k \in DOMAIN e
  PROVE  Rank(e, k) \in 1 .. Len(e)
<1> DEFINE A == {j \in DOMAIN e : Ahead(e, j, k)}
<1>1. Len(e) \in Nat /\ DOMAIN e = 1 .. Len(e)
  BY ListShape DEF IsRoster
<1>2. IsFiniteSet(1 .. Len(e)) /\ Cardinality(1 .. Len(e)) = Len(e)
  BY <1>1, IntervalSize
<1>3. A \in SUBSET (1 .. Len(e))
  BY <1>1
<1>4. k \in A
  BY AheadOrders
<1>5. Rank(e, k) = Cardinality(A)
  BY DEF Rank, Ahead
<1> HIDE DEF A
<1>6. IsFiniteSet(A) /\ Cardinality(A) <= Len(e)
  BY <1>2, <1>3, FS_Subset
<1>7. Cardinality(A) \in Nat /\ Cardinality(A) # 0
  BY <1>4, <1>6, FS_CardinalityType, FS_EmptySet
<1> QED
  BY <1>1, <1>5, <1>6, <1>7

LEMMA RankRises ==
  ASSUME NEW e, IsRoster(e), NEW j \in DOMAIN e, NEW k \in DOMAIN e, j # k,
         Ahead(e, j, k)
  PROVE  Rank(e, j) < Rank(e, k)
<1> DEFINE A == {i \in DOMAIN e : Ahead(e, i, j)}
           B == {i \in DOMAIN e : Ahead(e, i, k)}
<1>1. Len(e) \in Nat /\ DOMAIN e = 1 .. Len(e)
  BY ListShape DEF IsRoster
<1>2. IsFiniteSet(1 .. Len(e))
  BY <1>1, IntervalSize
<1>3. A \in SUBSET B /\ B \in SUBSET (1 .. Len(e))
  BY <1>1, AheadOrders
<1>4. A # B
  <2>1. k \in B /\ k \notin A
    BY AheadOrders
  <2> QED
    BY <2>1
<1>5. Rank(e, j) = Cardinality(A) /\ Rank(e, k) = Cardinality(B)
  BY DEF Rank, Ahead
<1> HIDE DEF A, B
<1>6. IsFiniteSet(B)
  BY <1>2, <1>3, FS_Subset
<1>7. IsFiniteSet(A) /\ Cardinality(A) <= Cardinality(B) /\ Cardinality(A) # Cardinality(B)
  BY <1>3, <1>4, <1>6, FS_Subset
<1>8. Cardinality(A) \in Nat /\ Cardinality(B) \in Nat
  BY <1>6, <1>7, FS_CardinalityType
<1> QED
  BY <1>5, <1>7, <1>8

LEMMA RankCovers ==
  ASSUME NEW e, IsRoster(e), NEW i \in DOMAIN e
  PROVE  \E k \in DOMAIN e : Rank(e, k) = i
<1> DEFINE D == 1 .. Len(e)
           f == [k \in D |-> Rank(e, k)]
<1>1. Len(e) \in Nat /\ DOMAIN e = D
  BY ListShape DEF IsRoster
<1>2. \A k \in D : Rank(e, k) \in D
  BY <1>1, RankIsPlace
<1>3. ASSUME NEW j \in D, NEW k \in D, j # k PROVE f[j] # f[k]
  <2>1. f[j] \in Nat /\ f[k] \in Nat
    BY <1>2
  <2>2. f[j] < f[k] \/ f[k] < f[j]
    BY <1>1, <1>3, AheadOrders, RankRises
  <2> QED
    BY <2>1, <2>2
<1>4. f \in [D -> D]
  BY <1>2
<1>5. f \in Injection(D, D)
  BY <1>3, <1>4 DEF Injection, IsInjective
<1>6. IsFiniteSet(D)
  BY <1>1, FS_Interval
<1>7. f \in Surjection(D, D)
  <2> HIDE DEF D, f
  <2> QED
    BY <1>5, <1>6, FS_Injection
<1>8. \E k \in D : f[k] = i
  BY <1>1, <1>7 DEF Surjection
<1> QED
  BY <1>1, <1>8

\* Sorting permutes the entries into the order of their addresses.
LEMMA SortSorts ==
  ASSUME NEW e, IsRoster(e)
  PROVE  /\ IsRoster(SortRoster(e)) /\ Len(SortRoster(e)) = Len(e)
         /\ Sorted(SortRoster(e))
<1> DEFINE n == Len(e)
           At(i) == CHOOSE k \in DOMAIN e : Rank(e, k) = i
           s == SortRoster(e)
<1>1. n \in Nat /\ DOMAIN e = 1 .. n
  BY ListShape DEF IsRoster
<1>2. \A i \in 1 .. n : At(i) \in 1 .. n /\ Rank(e, At(i)) = i
  BY <1>1, RankCovers
<1>3. DOMAIN s = 1 .. n /\ s = [i \in 1 .. n |-> s[i]] /\ \A i \in 1 .. n : s[i] = e[At(i)]
  BY <1>1 DEF SortRoster
<1> HIDE DEF n, At, s
<1>4. IsList(s) /\ Len(s) = n
  BY <1>1, <1>3, ListOf
<1>5. IsRoster(s)
  BY <1>1, <1>2, <1>3, <1>4 DEF IsRoster
<1>6. ASSUME NEW i \in 1 .. n, NEW j \in 1 .. n, i <= j PROVE s[i][1] <= s[j][1]
  <2>1. At(i) \in DOMAIN e /\ At(j) \in DOMAIN e
    BY <1>1, <1>2
  <2>2. Ahead(e, At(i), At(j))
    <3>1. CASE Ahead(e, At(j), At(i)) /\ At(i) # At(j)
      <4>1. Rank(e, At(j)) < Rank(e, At(i))
        BY <2>1, <3>1, RankRises
      <4>2. j < i
        BY <1>2, <4>1
      <4> QED
        BY <1>1, <1>6, <4>2
    <3> QED
      BY <2>1, <3>1, AheadOrders
  <2>3. e[At(i)][1] <= e[At(j)][1]
    BY <2>1, <2>2, AheadOrders
  <2> QED
    BY <1>3, <2>3
<1>7. Sorted(s)
  BY <1>3, <1>6 DEF Sorted
<1> QED
  BY <1>4, <1>5, <1>7 DEF s, n

\* A sorted roster stays as it is.
LEMMA SortedStays ==
  ASSUME NEW e, IsRoster(e), Sorted(e)
  PROVE  SortRoster(e) = e
<1>1. Len(e) \in Nat /\ DOMAIN e = 1 .. Len(e) /\ e = [i \in 1 .. Len(e) |-> e[i]]
  BY ListShape DEF IsRoster
<1>2. \A i \in 1 .. Len(e) : e[i][1] \in Nat
  BY <1>1 DEF IsRoster
<1>3. ASSUME NEW k \in 1 .. Len(e) PROVE Rank(e, k) = k
  <2>1. \A j \in 1 .. Len(e) : Ahead(e, j, k) <=> j <= k
    BY <1>1, <1>2 DEF Ahead, Before, Sorted
  <2>2. {j \in DOMAIN e : Ahead(e, j, k)} = 1 .. k
    BY <1>1, <2>1
  <2>3. Rank(e, k) = Cardinality(1 .. k)
    BY <2>2 DEF Rank, Ahead
  <2>4. k \in Nat
    BY <1>1
  <2> QED
    BY <2>3, <2>4, IntervalSize
<1>4. \A i \in 1 .. Len(e) : (CHOOSE k \in DOMAIN e : Rank(e, k) = i) = i
  BY <1>1, <1>3
<1> QED
  BY <1>1, <1>4 DEF SortRoster

-----------------------------------------------------------------------------
(* Records.                                                                *)

FieldNames ==
  {"creds", "locos", "network", "name", "id", "host", "lang", "chosen", "server", "prog",
   "login", "pin", "code", "mode", "roster"}

LEMMA RecordShape ==
  ASSUME NEW r
  PROVE  /\ DOMAIN DefaultRecord = FieldNames
         /\ IsRecord(r) <=>
              /\ DOMAIN r = FieldNames /\ r = [f \in FieldNames |-> r[f]]
              /\ IsList(r.creds) /\ Len(r.creds) <= MaxCredentials
              /\ IsList(r.locos) /\ IsRoster(r.roster)
              /\ r.id \in Nat
<1>1. DOMAIN DefaultRecord = FieldNames
  BY DEF DefaultRecord, FieldNames
<1> QED
  BY <1>1 DEF IsRecord

LEMMA RecordsEqual ==
  ASSUME NEW r, IsRecord(r), NEW s, IsRecord(s), \A f \in FieldNames : r[f] = s[f]
  PROVE  r = s
BY RecordShape

LEMMA EmptyIsRoster == IsList(<<>>) /\ Len(<<>>) = 0 /\ IsRoster(<<>>) /\ Sorted(<<>>)
<1>1. IsList(<<>>) /\ Len(<<>>) = 0
  BY EmptySeq, ListOver
<1>2. DOMAIN <<>> = {}
  BY <1>1, ListShape
<1> QED
  BY <1>1, <1>2 DEF IsRoster, Sorted

LEMMA DefaultIsRecord == IsRecord(DefaultRecord) /\ Sorted(DefaultRecord.roster)
<1>1. DefaultRecord = [f \in FieldNames |-> DefaultRecord[f]]
  BY DEF DefaultRecord, FieldNames
<1>2. /\ DefaultRecord.creds = <<>> /\ DefaultRecord.locos = <<>>
      /\ DefaultRecord.roster = <<>> /\ DefaultRecord.id = 0
  BY DEF DefaultRecord
<1>3. MaxCredentials \in Nat
  BY RecordAssumption
<1>4. Len(DefaultRecord.creds) <= MaxCredentials
  BY <1>2, <1>3, EmptyIsRoster
<1> QED
  BY <1>1, <1>2, <1>4, RecordShape, EmptyIsRoster

\* A record with one field changed.
LEMMA RecordExcept ==
  ASSUME NEW r, IsRecord(r), NEW f \in FieldNames, NEW v
  PROVE  /\ [r EXCEPT ![f] = v][f] = v
         /\ \A g \in FieldNames \ {f} : [r EXCEPT ![f] = v][g] = r[g]
<1>1. DOMAIN r = FieldNames
  BY RecordShape
<1> QED
  BY <1>1

LEMMA RecordStays ==
  ASSUME NEW r, IsRecord(r), NEW f \in FieldNames, NEW v,
         \/ f \notin {"creds", "locos", "id", "roster"}
         \/ f = "creds" /\ IsList(v) /\ Len(v) <= MaxCredentials
         \/ f = "locos" /\ IsList(v)
         \/ f = "id" /\ v \in Nat
         \/ f = "roster" /\ IsRoster(v)
  PROVE  IsRecord([r EXCEPT ![f] = v])
<1> DEFINE s == [r EXCEPT ![f] = v]
<1>1. DOMAIN r = FieldNames
  BY RecordShape
<1>2. s[f] = v /\ \A g \in FieldNames \ {f} : s[g] = r[g]
  BY <1>1
<1>3. DOMAIN s = FieldNames /\ s = [g \in FieldNames |-> s[g]]
  BY <1>1
<1> HIDE DEF s
<1>4. {"creds", "locos", "id", "roster"} \subseteq FieldNames
  BY DEF FieldNames
<1>5. /\ IsList(r.creds) /\ Len(r.creds) <= MaxCredentials
      /\ IsList(r.locos) /\ IsRoster(r.roster) /\ r.id \in Nat
  BY RecordShape
<1>6. /\ IsList(s["creds"]) /\ Len(s["creds"]) <= MaxCredentials
      /\ IsList(s["locos"]) /\ IsRoster(s["roster"]) /\ s["id"] \in Nat
  BY <1>2, <1>4, <1>5
<1>7. IsRecord(s)
  BY <1>3, <1>6, RecordShape
<1> QED
  BY <1>7 DEF s

\* The same, field by field, for the changes the tasks make.
LEMMA RecordTidy ==
  ASSUME NEW r, IsRecord(r)
  PROVE  /\ IsRecord(Tidy(r)) /\ Sorted(Tidy(r).roster)
         /\ Tidy(r).roster = SortRoster(r.roster)
         /\ \A f \in FieldNames \ {"roster"} : Tidy(r)[f] = r[f]
         /\ Sorted(r.roster) => Tidy(r) = r
         /\ Tidy(Tidy(r)) = Tidy(r)
<1>1. IsRoster(r.roster) /\ "roster" \in FieldNames
  BY RecordShape DEF FieldNames
<1>2. IsRoster(SortRoster(r.roster)) /\ Sorted(SortRoster(r.roster))
  BY <1>1, SortSorts
<1>3. Tidy(r) = [r EXCEPT !["roster"] = SortRoster(r.roster)]
  BY DEF Tidy
<1>4. /\ IsRecord(Tidy(r)) /\ Tidy(r).roster = SortRoster(r.roster)
      /\ \A f \in FieldNames \ {"roster"} : Tidy(r)[f] = r[f]
  <2> DEFINE f == "roster"
             v == SortRoster(r.roster)
             s == Tidy(r)
  <2>1. f \in FieldNames /\ s = [r EXCEPT ![f] = v] /\ f = "roster" /\ IsRoster(v)
    BY <1>1, <1>2, <1>3
  <2> HIDE DEF f, v, s
  <2>2. s[f] = v /\ \A g \in FieldNames \ {f} : s[g] = r[g]
    BY <2>1, RecordExcept
  <2>3. IsRecord(s)
    BY <2>1, RecordStays
  <2> QED
    BY <2>1, <2>2, <2>3 DEF s, v
<1>5. ASSUME NEW s, IsRecord(s), Sorted(s.roster) PROVE Tidy(s) = s
  <2>1. SortRoster(s.roster) = s.roster
    BY <1>5, RecordShape, SortedStays
  <2>2. DOMAIN s = FieldNames /\ s = [f \in FieldNames |-> s[f]]
    BY <1>5, RecordShape
  <2> QED
    BY <1>1, <2>1, <2>2 DEF Tidy
<1> QED
  BY <1>2, <1>4, <1>5

\* What the storage task and the boot make of a record.
LEMMA RecordDevice ==
  ASSUME NEW r, IsRecord(r), NEW e \in Nat \ {0}
  PROVE  /\ IsRecord(EnsureDeviceId(r, e)) /\ EnsureDeviceId(r, e).id # 0
         /\ \A f \in FieldNames \ {"id"} : EnsureDeviceId(r, e)[f] = r[f]
         /\ r.id # 0 => EnsureDeviceId(r, e) = r
         /\ r.id = 0 => EnsureDeviceId(r, e).id = e
<1>1. CASE r.id = 0
  <2> DEFINE f == "id"
             s == EnsureDeviceId(r, e)
  <2>1. f \in FieldNames /\ s = [r EXCEPT ![f] = e] /\ f = "id" /\ e \in Nat /\ e # 0
    BY <1>1 DEF EnsureDeviceId, FieldNames
  <2> HIDE DEF f, s
  <2>2. s[f] = e /\ \A g \in FieldNames \ {f} : s[g] = r[g]
    BY <2>1, RecordExcept
  <2>3. IsRecord(s)
    BY <2>1, RecordStays
  <2>4. s.id = e
    BY <2>1, <2>2
  <2> QED
    BY <1>1, <2>1, <2>2, <2>3, <2>4 DEF s
<1>2. CASE r.id # 0
  BY <1>2 DEF EnsureDeviceId
<1> QED
  BY <1>1, <1>2

LEMMA RecordHost ==
  ASSUME NEW r, IsRecord(r)
  PROVE  /\ IsRecord(EnsureWifiHostname(r)) /\ EnsureWifiHostname(r).host # ""
         /\ \A f \in FieldNames \ {"host"} : EnsureWifiHostname(r)[f] = r[f]
         /\ r.host # "" => EnsureWifiHostname(r) = r
         /\ r.host = "" => EnsureWifiHostname(r).host = "longfred"
<1>1. CASE r.host = ""
  <2> DEFINE f == "host"
             v == "longfred"
             s == EnsureWifiHostname(r)
  <2>1. f \in FieldNames /\ s = [r EXCEPT ![f] = v] /\ f = "host" /\ v = "longfred"
    BY <1>1 DEF EnsureWifiHostname, FieldNames
  <2> HIDE DEF f, s, v
  <2>2. s[f] = v /\ \A g \in FieldNames \ {f} : s[g] = r[g]
    BY <2>1, RecordExcept
  <2>3. IsRecord(s)
    BY <2>1, RecordStays
  <2>4. s.host = "longfred" /\ s.host # ""
    BY <2>1, <2>2
  <2> QED
    BY <1>1, <2>1, <2>2, <2>3, <2>4 DEF s
<1>2. CASE r.host # ""
  BY <1>2 DEF EnsureWifiHostname
<1> QED
  BY <1>1, <1>2

LEMMA RecordCompleted ==
  ASSUME NEW r, IsRecord(r), NEW e \in Nat \ {0}
  PROVE  /\ IsRecord(Completed(r, e)) /\ Identified(Completed(r, e))
         /\ Identified(r) => Completed(r, e) = r
         /\ r.id = 0 => Completed(r, e).id = e
         /\ r.id # 0 => Completed(r, e).id = r.id
         /\ r.host = "" => Completed(r, e).host = "longfred"
         /\ r.host # "" => Completed(r, e).host = r.host
<1> DEFINE d == EnsureDeviceId(r, e)
           c == EnsureWifiHostname(d)
<1>1. /\ IsRecord(d) /\ d.id # 0 /\ \A f \in FieldNames \ {"id"} : d[f] = r[f]
      /\ r.id # 0 => d = r
      /\ r.id = 0 => d.id = e
  BY RecordDevice
<1> HIDE DEF d
<1>2. /\ IsRecord(c) /\ c.host # "" /\ \A f \in FieldNames \ {"host"} : c[f] = d[f]
      /\ d.host # "" => c = d
      /\ d.host = "" => c.host = "longfred"
  BY <1>1, RecordHost
<1> HIDE DEF c
<1>3. d["host"] = r["host"] /\ c["id"] = d["id"]
  BY <1>1, <1>2 DEF FieldNames
<1> QED
  BY <1>1, <1>2, <1>3 DEF Completed, Identified, c, d

LEMMA CompletedKeeps ==
  ASSUME NEW r, IsRecord(r), NEW e \in Nat \ {0},
         NEW f \in FieldNames, f # "id", f # "host"
  PROVE  Completed(r, e)[f] = r[f]
<1> DEFINE d == EnsureDeviceId(r, e)
<1>1. IsRecord(d) /\ d[f] = r[f]
  BY RecordDevice
<1> HIDE DEF d
<1>2. EnsureWifiHostname(d)[f] = d[f]
  BY <1>1, RecordHost
<1> QED
  BY <1>1, <1>2 DEF Completed, d

LEMMA RecordFlag ==
  ASSUME NEW r, IsRecord(r), NEW v, NEW s, s = [r EXCEPT !.prog = v]
  PROVE  /\ IsRecord(s) /\ s.prog = v
         /\ \A f \in FieldNames \ {"prog"} : s[f] = r[f]
<1> DEFINE f == "prog"
<1>1. f \in FieldNames /\ s = [r EXCEPT ![f] = v] /\ f = "prog"
  BY DEF FieldNames
<1> HIDE DEF f
<1>2. s[f] = v /\ \A g \in FieldNames \ {f} : s[g] = r[g]
  BY <1>1, RecordExcept
<1>3. IsRecord(s)
  BY <1>1, RecordStays
<1> QED
  BY <1>1, <1>2, <1>3

\* Reading a record back sorts its roster, and the boot's changes do not matter
\* to that.
LEMMA TidyCompleted ==
  ASSUME NEW r, IsRecord(r), NEW e \in Nat \ {0}
  PROVE  Tidy(Completed(r, e)) = Completed(Tidy(r), e)
<1> DEFINE c == Completed(r, e)
           t == Tidy(r)
           tc == Tidy(c)
           ct == Completed(t, e)
<1>1. /\ IsRecord(c) /\ \A f \in FieldNames \ {"id", "host"} : c[f] = r[f]
      /\ r.id = 0 => c.id = e
      /\ r.id # 0 => c.id = r.id
      /\ r.host = "" => c.host = "longfred"
      /\ r.host # "" => c.host = r.host
  <2>1. IsRecord(c)
    BY RecordCompleted
  <2>4. \A f \in FieldNames \ {"id", "host"} : c[f] = r[f]
    BY CompletedKeeps
  <2>2. (r.id = 0 => c.id = e) /\ (r.id # 0 => c.id = r.id)
    BY RecordCompleted
  <2>3. (r.host = "" => c.host = "longfred") /\ (r.host # "" => c.host = r.host)
    BY RecordCompleted
  <2> QED
    BY <2>1, <2>2, <2>3, <2>4
<1>2. /\ IsRecord(t) /\ t.roster = SortRoster(r.roster)
      /\ \A f \in FieldNames \ {"roster"} : t[f] = r[f]
  BY RecordTidy
<1> HIDE DEF c, t
<1>3. /\ IsRecord(tc) /\ tc.roster = SortRoster(c.roster)
      /\ \A f \in FieldNames \ {"roster"} : tc[f] = c[f]
  BY <1>1, RecordTidy
<1>4. /\ IsRecord(ct) /\ \A f \in FieldNames \ {"id", "host"} : ct[f] = t[f]
      /\ t.id = 0 => ct.id = e
      /\ t.id # 0 => ct.id = t.id
      /\ t.host = "" => ct.host = "longfred"
      /\ t.host # "" => ct.host = t.host
  <2>1. IsRecord(ct)
    BY <1>2, RecordCompleted
  <2>4. \A f \in FieldNames \ {"id", "host"} : ct[f] = t[f]
    BY <1>2, CompletedKeeps
  <2>2. (t.id = 0 => ct.id = e) /\ (t.id # 0 => ct.id = t.id)
    BY <1>2, RecordCompleted
  <2>3. (t.host = "" => ct.host = "longfred") /\ (t.host # "" => ct.host = t.host)
    BY ZenonT(90), <1>2, RecordCompleted
  <2> QED
    BY <2>1, <2>2, <2>3, <2>4
<1> HIDE DEF tc, ct
<1>5. {"id", "host", "roster"} \subseteq FieldNames
  BY DEF FieldNames
<1>6. tc["roster"] = ct["roster"]
  BY <1>1, <1>2, <1>3, <1>4, <1>5
<1>7. tc["id"] = ct["id"]
  BY <1>1, <1>2, <1>3, <1>4, <1>5
<1>8. tc["host"] = ct["host"]
  BY <1>1, <1>2, <1>3, <1>4, <1>5
<1>9. \A f \in FieldNames \ {"id", "host", "roster"} : tc[f] = ct[f]
  BY <1>1, <1>2, <1>3, <1>4
<1>10. \A f \in FieldNames : tc[f] = ct[f]
  BY <1>6, <1>7, <1>8, <1>9
<1>11. tc = ct
  BY <1>3, <1>4, <1>10, RecordsEqual
<1> QED
  BY <1>11 DEF tc, ct, c, t

LEMMA TidyFlag ==
  ASSUME NEW r, IsRecord(r), NEW v
  PROVE  Tidy([r EXCEPT !.prog = v]) = [Tidy(r) EXCEPT !.prog = v]
<1> DEFINE s == [r EXCEPT !.prog = v]
           t == Tidy(r)
           ts == Tidy(s)
           st == [t EXCEPT !.prog = v]
<1>1. /\ IsRecord(s) /\ s.prog = v
      /\ \A f \in FieldNames \ {"prog"} : s[f] = r[f]
  <2> s = [r EXCEPT !.prog = v]
    OBVIOUS
  <2> HIDE DEF s
  <2> QED
    BY RecordFlag
<1>2. /\ IsRecord(t) /\ t.roster = SortRoster(r.roster)
      /\ \A f \in FieldNames \ {"roster"} : t[f] = r[f]
  BY RecordTidy
<1> HIDE DEF s, t
<1>3. /\ IsRecord(ts) /\ ts.roster = SortRoster(s.roster)
      /\ \A f \in FieldNames \ {"roster"} : ts[f] = s[f]
  BY <1>1, RecordTidy
<1>4. /\ IsRecord(st) /\ st.prog = v
      /\ \A f \in FieldNames \ {"prog"} : st[f] = t[f]
  BY <1>2, RecordFlag
<1> HIDE DEF ts, st
<1>5. {"prog", "roster"} \subseteq FieldNames
  BY DEF FieldNames
<1>6. ts["roster"] = st["roster"]
  BY <1>1, <1>2, <1>3, <1>4, <1>5
<1>7. ts["prog"] = st["prog"]
  BY <1>1, <1>3, <1>4, <1>5
<1>8. \A f \in FieldNames \ {"prog", "roster"} : ts[f] = st[f]
  BY <1>1, <1>2, <1>3, <1>4
<1>9. ts = st
  BY <1>3, <1>4, <1>6, <1>7, <1>8, RecordsEqual
<1> QED
  BY <1>9 DEF ts, st, s, t

-----------------------------------------------------------------------------
(* The tokens of the optional fields.                                      *)

LEMMA OneIsList == ASSUME NEW e PROVE IsList(<<e>>) /\ Len(<<e>>) = 1 /\ <<e>>[1] = e
<1>1. <<e>> \in Seq({e})
  OBVIOUS
<1> QED
  BY <1>1, ListOver

LEMMA OneMore ==
  ASSUME NEW q, IsList(q), NEW e, NEW t, t = q \o <<e>>
  PROVE  /\ IsList(t) /\ Len(q) \in Nat /\ Len(t) = Len(q) + 1
         /\ DOMAIN q = 1 .. Len(q) /\ DOMAIN t = 1 .. Len(q) + 1
         /\ \A i \in 1 .. Len(q) : t[i] = q[i]
         /\ t[Len(q) + 1] = e
<1> DEFINE o == <<e>>
<1>1. IsList(o) /\ Len(o) = 1 /\ o[1] = e
  BY OneIsList
<1>6. t = q \o o
  OBVIOUS
<1> HIDE DEF o
<1>2. /\ IsList(t) /\ Len(t) = Len(q) + Len(o)
      /\ \A i \in 1 .. Len(q) : t[i] = q[i]
      /\ \A i \in 1 .. Len(o) : t[Len(q) + i] = o[i]
  <2>1. IsList(t) /\ Len(t) = Len(q) + Len(o)
    BY <1>1, <1>6, ListConcat
  <2>2. \A i \in 1 .. Len(q) : t[i] = q[i]
    BY <1>1, <1>6, ListConcat
  <2>3. \A i \in 1 .. Len(o) : t[Len(q) + i] = o[i]
    BY <1>1, <1>6, ListConcat
  <2> QED
    BY <2>1, <2>2, <2>3
<1>3. Len(q) \in Nat /\ DOMAIN q = 1 .. Len(q) /\ DOMAIN t = 1 .. Len(t)
  BY <1>2, ListShape
<1>4. 1 \in 1 .. Len(o) /\ Len(t) = Len(q) + 1
  BY <1>1, <1>2
<1>5. t[Len(q) + 1] = e
  BY <1>1, <1>2, <1>4
<1> QED
  BY <1>2, <1>3, <1>4, <1>5

LEMMA NoneMore == ASSUME NEW q, IsList(q) PROVE q \o <<>> = q
<1>1. PICK S : q \in Seq(S)
  BY DEF IsList
<1> QED
  BY <1>1, ConcatEmptySeq

Lacks(q, tag) == \A i \in DOMAIN q : q[i][1] # tag

\* tok is the only token of its tag.
Holds(q, tag, tok) ==
  \E i \in DOMAIN q : q[i] = tok /\ \A j \in DOMAIN q : q[j][1] = tag => j = i

\* Of the tags D the tokens T that are present, P, and nothing else.
Tells(q, D, P, T) ==
  /\ IsList(q)
  /\ \A i \in DOMAIN q : q[i][1] \in TailTags
  /\ \A tag \in D : (tag \in P => Holds(q, tag, T[tag])) /\ (tag \notin P => Lacks(q, tag))
  /\ \A tag \in TailTags \ D : Lacks(q, tag)

\* A field that is left out.
LEMMA TellsAbsent ==
  ASSUME NEW q, NEW D, NEW P, NEW T, Tells(q, D, P, T),
         NEW tag \in TailTags \ D, tag \notin P
  PROVE  Tells(q, D \cup {tag}, P, T)
BY DEF Tells

\* A field that is written.
LEMMA TellsPresent ==
  ASSUME NEW q, NEW D, NEW P, NEW T, Tells(q, D, P, T),
         NEW tag \in TailTags \ D, tag \in P, T[tag][1] = tag
  PROVE  Tells(q \o <<T[tag]>>, D \cup {tag}, P, T)
<1> DEFINE e == T[tag]
           n == Len(q)
           t == q \o <<e>>
<1>1. /\ IsList(t) /\ n \in Nat /\ Len(t) = n + 1
      /\ DOMAIN q = 1 .. n /\ DOMAIN t = 1 .. n + 1
      /\ \A i \in 1 .. n : t[i] = q[i]
      /\ t[n + 1] = e
  BY OneMore DEF Tells
<1>2. e[1] = tag
  OBVIOUS
<1>3. /\ \A i \in DOMAIN q : q[i][1] \in TailTags
      /\ \A g \in D : (g \in P => Holds(q, g, T[g])) /\ (g \notin P => Lacks(q, g))
      /\ \A g \in TailTags \ D : Lacks(q, g)
  BY DEF Tells
<1> HIDE DEF e, n, t
<1>4. \A i \in DOMAIN t : (i \in DOMAIN q /\ t[i] = q[i]) \/ (i = n + 1 /\ t[i] = e)
  BY <1>1
<1>5. DOMAIN q \subseteq DOMAIN t /\ n + 1 \in DOMAIN t /\ n + 1 \notin DOMAIN q
  BY <1>1
<1>6. \A i \in DOMAIN t : t[i][1] \in TailTags
  BY <1>2, <1>3, <1>4
<1>7. ASSUME NEW g, g # tag, Lacks(q, g) PROVE Lacks(t, g)
  BY <1>2, <1>4, <1>7 DEF Lacks
<1>8. ASSUME NEW g, g # tag, NEW x, Holds(q, g, x) PROVE Holds(t, g, x)
  <2>1. PICK i \in DOMAIN q : q[i] = x /\ \A j \in DOMAIN q : q[j][1] = g => j = i
    BY <1>8 DEF Holds
  <2>2. i \in DOMAIN t /\ t[i] = x
    BY <1>1, <1>5, <2>1
  <2>3. \A j \in DOMAIN t : t[j][1] = g => j = i
    BY <1>2, <1>4, <1>8, <2>1
  <2> QED
    BY <2>2, <2>3 DEF Holds
<1>9. Holds(t, tag, e)
  <2>1. \A j \in DOMAIN t : t[j][1] = tag => j = n + 1
    BY <1>3, <1>4 DEF Lacks
  <2> QED
    BY <1>1, <1>5, <2>1 DEF Holds
<1>10. ASSUME NEW g \in D \cup {tag}
       PROVE  (g \in P => Holds(t, g, T[g])) /\ (g \notin P => Lacks(t, g))
  <2>1. CASE g = tag
    BY <1>9, <2>1 DEF e
  <2>2. CASE g # tag
    BY <1>3, <1>7, <1>8, <1>10, <2>2
  <2> QED
    BY <2>1, <2>2
<1>11. \A g \in TailTags \ (D \cup {tag}) : Lacks(t, g)
  BY <1>3, <1>7
<1>12. Tells(t, D \cup {tag}, P, T)
  BY <1>1, <1>6, <1>10, <1>11 DEF Tells
<1> QED
  BY <1>12 DEF t, e

LEMMA TellsNext ==
  ASSUME NEW q, NEW D, NEW P, NEW T, Tells(q, D, P, T),
         NEW tag \in TailTags \ D, T[tag][1] = tag,
         NEW o, o = IF tag \in P THEN <<T[tag]>> ELSE <<>>
  PROVE  Tells(q \o o, D \cup {tag}, P, T)
<1>1. CASE tag \in P
  <2>1. o = <<T[tag]>>
    BY <1>1
  <2> QED
    BY <1>1, <2>1, TellsPresent
<1>2. CASE tag \notin P
  <2>1. q \o o = q
    BY <1>2, NoneMore DEF Tells
  <2> QED
    BY <1>2, <2>1, TellsAbsent
<1> QED
  BY <1>1, <1>2

\* The tags a record is written with, and their tokens.
Present(r) ==
  {"dev", "lang", "chosen", "prog", "roster"}
    \cup (IF r.network # None THEN {"net"} ELSE {})
    \cup (IF r.host # "" THEN {"host"} ELSE {})
    \cup (IF r.server # None THEN {"server"} ELSE {})
    \cup (IF r.login # "" \/ r.pin # "" \/ r.code # "" THEN {"bigfred"} ELSE {})

TokenOf(r) ==
  [tag \in TailTags |->
     IF tag = "net" THEN <<"net", r.network>>
     ELSE IF tag = "dev" THEN <<"dev", r.name, r.id>>
     ELSE IF tag = "host" THEN <<"host", r.host>>
     ELSE IF tag = "lang" THEN <<"lang", r.lang>>
     ELSE IF tag = "chosen" THEN <<"chosen", r.chosen>>
     ELSE IF tag = "server" THEN <<"server", r.server>>
     ELSE IF tag = "prog" THEN <<"prog", r.prog>>
     ELSE IF tag = "bigfred" THEN <<"bigfred", r.login, r.pin, r.code>>
     ELSE <<"roster", r.mode, r.roster>>]

LEMMA TokensOf ==
  ASSUME NEW r
  PROVE  /\ TokenOf(r)["net"] = <<"net", r.network>>
         /\ TokenOf(r)["dev"] = <<"dev", r.name, r.id>>
         /\ TokenOf(r)["host"] = <<"host", r.host>>
         /\ TokenOf(r)["lang"] = <<"lang", r.lang>>
         /\ TokenOf(r)["chosen"] = <<"chosen", r.chosen>>
         /\ TokenOf(r)["server"] = <<"server", r.server>>
         /\ TokenOf(r)["prog"] = <<"prog", r.prog>>
         /\ TokenOf(r)["bigfred"] = <<"bigfred", r.login, r.pin, r.code>>
         /\ TokenOf(r)["roster"] = <<"roster", r.mode, r.roster>>
         /\ \A tag \in TailTags : TokenOf(r)[tag][1] = tag
BY DEF TokenOf, TailTags

LEMMA PresentTags ==
  ASSUME NEW r
  PROVE  /\ {"dev", "lang", "chosen", "prog", "roster"} \subseteq Present(r)
         /\ "net" \in Present(r) <=> r.network # None
         /\ "host" \in Present(r) <=> r.host # ""
         /\ "server" \in Present(r) <=> r.server # None
         /\ "bigfred" \in Present(r) <=> (r.login # "" \/ r.pin # "" \/ r.code # "")
BY DEF Present

LEMMA FieldsTell == ASSUME NEW r PROVE Tells(Fields(r), TailTags, Present(r), TokenOf(r))
<1> DEFINE P == Present(r)
           T == TokenOf(r)
           o(tag) == IF tag \in P THEN <<T[tag]>> ELSE <<>>
<1>1. /\ Opt(r.network # None, <<"net", r.network>>) = o("net")
      /\ Opt(r.host # "", <<"host", r.host>>) = o("host")
      /\ Opt(r.server # None, <<"server", r.server>>) = o("server")
      /\ Opt(r.login # "" \/ r.pin # "" \/ r.code # "",
             <<"bigfred", r.login, r.pin, r.code>>) = o("bigfred")
  BY PresentTags, TokensOf DEF Opt
<1>2. /\ Opt(TRUE, <<"dev", r.name, r.id>>) = o("dev")
      /\ Opt(TRUE, <<"lang", r.lang>>) = o("lang")
      /\ Opt(TRUE, <<"chosen", r.chosen>>) = o("chosen")
      /\ Opt(TRUE, <<"prog", r.prog>>) = o("prog")
      /\ Opt(TRUE, <<"roster", r.mode, r.roster>>) = o("roster")
  BY ZenonT(90), PresentTags, TokensOf DEF Opt
<1>3. Fields(r) = o("net") \o o("dev") \o o("host") \o o("lang") \o o("chosen")
                    \o o("server") \o o("prog") \o o("bigfred") \o o("roster")
  BY <1>1, <1>2 DEF Fields
<1>4. ASSUME NEW q, NEW D, NEW tag \in TailTags \ D, Tells(q, D, P, T)
      PROVE  Tells(q \o o(tag), D \cup {tag}, P, T)
  <2>1. T[tag][1] = tag
    BY TokensOf
  <2> HIDE DEF P, T
  <2> QED
    BY <1>4, <2>1, TellsNext
<1>5. Tells(<<>>, {}, P, T)
  BY EmptyIsRoster, ListShape DEF Tells, Lacks
<1>6. <<>> \o o("net") = o("net")
  <2>1. \E S : o("net") \in Seq(S)
    BY OneIsList, EmptyIsRoster DEF IsList
  <2> HIDE DEF o
  <2> QED
    BY <2>1, ConcatEmptySeq
<1> HIDE DEF P, T, o
<1> USE DEF TailTags
<1>7. Tells(o("net"), {"net"}, P, T)
  <2>1. Tells(<<>> \o o("net"), {} \cup {"net"}, P, T)
    BY <1>4, <1>5
  <2>2. {} \cup {"net"} = {"net"}
    OBVIOUS
  <2> QED
    BY <1>6, <2>1, <2>2
<1>8. Tells(o("net") \o o("dev"), {"net", "dev"}, P, T)
  BY <1>4, <1>7
<1>9. Tells(o("net") \o o("dev") \o o("host"), {"net", "dev", "host"}, P, T)
  BY <1>4, <1>8
<1>10. Tells(o("net") \o o("dev") \o o("host") \o o("lang"),
             {"net", "dev", "host", "lang"}, P, T)
  BY <1>4, <1>9
<1>11. Tells(o("net") \o o("dev") \o o("host") \o o("lang") \o o("chosen"),
             {"net", "dev", "host", "lang", "chosen"}, P, T)
  BY <1>4, <1>10
<1>12. Tells(o("net") \o o("dev") \o o("host") \o o("lang") \o o("chosen") \o o("server"),
             {"net", "dev", "host", "lang", "chosen", "server"}, P, T)
  BY <1>4, <1>11
<1>13. Tells(o("net") \o o("dev") \o o("host") \o o("lang") \o o("chosen") \o o("server")
               \o o("prog"),
             {"net", "dev", "host", "lang", "chosen", "server", "prog"}, P, T)
  BY <1>4, <1>12
<1>14. Tells(o("net") \o o("dev") \o o("host") \o o("lang") \o o("chosen") \o o("server")
               \o o("prog") \o o("bigfred"),
             {"net", "dev", "host", "lang", "chosen", "server", "prog", "bigfred"}, P, T)
  BY <1>4, <1>13
<1>15. Tells(Fields(r), TailTags, P, T)
  <2> DEFINE E == {"net", "dev", "host", "lang", "chosen", "server", "prog", "bigfred"}
  <2>1. E \cup {"roster"} = TailTags /\ "roster" \in TailTags \ E
    OBVIOUS
  <2> HIDE DEF E
  <2>2. Tells(Fields(r), E \cup {"roster"}, P, T)
    BY ZenonT(90), <1>3, <1>4, <1>14, <2>1 DEF E
  <2> QED
    BY <2>1, <2>2
<1> QED
  BY <1>15 DEF P, T

-----------------------------------------------------------------------------
(* What is written is read back.                                           *)

LEMMA FieldRead ==
  ASSUME NEW q, NEW P, NEW T, Tells(q, TailTags, P, T),
         NEW m \in Nat, NEW buf, \A i \in 1 .. Len(q) : buf[m + i] = q[i],
         NEW places, places = m + 1 .. m + Len(q),
         NEW tag \in TailTags, T[tag][1] = tag, NEW n, NEW d
  PROVE  /\ tag \in P => Field(buf, places, tag, n, d) = T[tag][n]
         /\ tag \notin P => Field(buf, places, tag, n, d) = d
<1> DEFINE k == Len(q)
           S == {i \in places : buf[i][1] = tag}
<1>1. k \in Nat /\ DOMAIN q = 1 .. k
  BY ListShape DEF Tells
<1>2. \A i \in 1 .. k : buf[m + i] = q[i]
  OBVIOUS
<1>3. Field(buf, places, tag, n, d) = IF S = {} THEN d ELSE buf[Max(S)][n]
  BY DEF Field
<1>4. places = m + 1 .. m + k
  OBVIOUS
<1> HIDE DEF k
<1>5. \A i \in places : i - m \in 1 .. k /\ buf[i] = q[i - m]
  <2>1. ASSUME NEW i \in places PROVE i - m \in 1 .. k /\ i = m + (i - m)
    BY <1>1, <1>4
  <2> QED
    BY <1>2, <2>1
<1>6. CASE tag \in P
  <2>1. PICK x \in 1 .. k : q[x] = T[tag] /\ \A j \in 1 .. k : q[j][1] = tag => j = x
    <3>1. Holds(q, tag, T[tag])
      BY <1>6 DEF Tells
    <3> QED
      BY <1>1, <3>1 DEF Holds
  <2>2. q[x][1] = tag
    BY <2>1
  <2>3. S = {m + x}
    <3>1. m + x \in places /\ (m + x) - m = x
      BY <1>1, <1>4
    <3>2. m + x \in S
      BY <1>2, <2>2, <3>1
    <3>3. ASSUME NEW i \in S PROVE i = m + x
      <4>1. i - m \in 1 .. k /\ q[i - m][1] = tag
        BY <1>5
      <4>2. i - m = x
        BY <2>1, <4>1
      <4>3. i \in Int
        BY <1>1, <1>4
      <4> QED
        BY <4>2, <4>3
    <3> QED
      BY <3>2, <3>3
  <2>4. Max(S) = m + x
    <3>1. m + x \in Nat
      BY <1>1
    <3> DEFINE y == m + x
    <3> HIDE DEF y
    <3>2. {y} \in SUBSET Nat /\ \A z \in {y} : z <= y
      BY <3>1 DEF y
    <3>3. Max({y}) = y
      BY <3>2, MaxIsGreatest
    <3> QED
      BY <2>3, <3>3 DEF y
  <2> HIDE DEF S
  <2>5. buf[m + x] = T[tag]
    BY <1>2, <2>1
  <2> QED
    BY <1>3, <1>6, <2>3, <2>4, <2>5
<1>7. CASE tag \notin P
  <2>1. Lacks(q, tag)
    BY <1>7 DEF Tells
  <2>2. S = {}
    BY <1>1, <1>5, <2>1 DEF Lacks
  <2> QED
    BY <1>3, <1>7, <2>2
<1> QED
  BY <1>6, <1>7
\* u is s, of length n, and then t, of length m.
Joined(u, s, n, t, m) ==
  /\ n \in Nat /\ m \in Nat /\ IsList(u) /\ Len(u) = n + m
  /\ \A i \in 1 .. n : u[i] = s[i]
  /\ \A i \in 1 .. m : u[n + i] = t[i]

LEMMA ConcatJoins ==
  ASSUME NEW s, IsList(s), NEW t, IsList(t), NEW n, n = Len(s), NEW m, m = Len(t)
  PROVE  Joined(s \o t, s, n, t, m)
<1>1. n \in Nat /\ m \in Nat
  BY ListShape
<1>2. IsList(s \o t) /\ Len(s \o t) = n + m
  BY ListConcat
<1>3. \A i \in 1 .. n : (s \o t)[i] = s[i]
  BY ListConcat
<1>4. \A i \in 1 .. m : (s \o t)[n + i] = t[i]
  BY ListConcat
<1> QED
  BY <1>1, <1>2, <1>3, <1>4 DEF Joined

\* Four lists in a row.
InRow(body, h, c, nc, o, no, q, nq) ==
  /\ nc \in Nat /\ no \in Nat /\ nq \in Nat
  /\ IsList(body) /\ Len(body) = 1 + nc + no + nq
  /\ body[1] = h
  /\ \A i \in 1 .. nc : body[1 + i] = c[i]
  /\ \A i \in 1 .. no : body[1 + nc + i] = o[i]
  /\ \A i \in 1 .. nq : body[1 + nc + no + i] = q[i]

LEMMA FourInRow ==
  ASSUME NEW h, NEW l, NEW hl, NEW body, NEW c, NEW o, NEW q, NEW nc, NEW no, NEW nq,
         Joined(l, c, nc, o, no), Joined(hl, <<h>>, 1, l, nc + no),
         Joined(body, hl, 1 + nc + no, q, nq)
  PROVE  InRow(body, h, c, nc, o, no, q, nq)
<1>1. /\ nc \in Nat /\ no \in Nat /\ nq \in Nat
      /\ \A i \in 1 .. nc : l[i] = c[i]
      /\ \A i \in 1 .. no : l[nc + i] = o[i]
  BY DEF Joined
<1>2. /\ \A i \in 1 .. 1 : hl[i] = <<h>>[i]
      /\ \A i \in 1 .. nc + no : hl[1 + i] = l[i]
  BY DEF Joined
<1>3. /\ IsList(body) /\ Len(body) = 1 + nc + no + nq
      /\ \A i \in 1 .. 1 + nc + no : body[i] = hl[i]
      /\ \A i \in 1 .. nq : body[1 + nc + no + i] = q[i]
  BY DEF Joined
<1>4. body[1] = h
  <2>1. 1 \in 1 .. 1 + nc + no /\ 1 \in 1 .. 1 /\ <<h>>[1] = h
    BY <1>1
  <2> QED
    BY <2>1, <1>2, <1>3
<1>5. ASSUME NEW i \in 1 .. nc PROVE body[1 + i] = c[i]
  <2>1. 1 + i \in 1 .. 1 + nc + no /\ i \in 1 .. nc + no
    BY <1>1
  <2> QED
    BY <1>1, <1>2, <1>3, <2>1
<1>6. ASSUME NEW i \in 1 .. no PROVE body[1 + nc + i] = o[i]
  <2>1. /\ 1 + (nc + i) \in 1 .. 1 + nc + no /\ nc + i \in 1 .. nc + no
        /\ 1 + nc + i = 1 + (nc + i)
    BY <1>1
  <2>2. body[1 + (nc + i)] = l[nc + i]
    BY <1>2, <1>3, <2>1
  <2> QED
    BY <1>1, <2>1, <2>2
<1> QED
  BY <1>1, <1>3, <1>4, <1>5, <1>6 DEF InRow

\* Every place is in one of them.
PlaceIn(i, nc, no, nq) ==
  \/ i = 1
  \/ \E j \in 1 .. nc : i = 1 + j
  \/ \E j \in 1 .. no : i = 1 + nc + j
  \/ \E j \in 1 .. nq : i = 1 + nc + no + j

LEMMA FourPlaces ==
  ASSUME NEW nc \in Nat, NEW no \in Nat, NEW nq \in Nat, NEW i \in 1 .. 1 + nc + no + nq
  PROVE  PlaceIn(i, nc, no, nq)
<1>1. CASE i = 1
  BY <1>1 DEF PlaceIn
<1>2. CASE i > 1 /\ i <= 1 + nc
  <2>1. i - 1 \in 1 .. nc /\ i = 1 + (i - 1)
    BY <1>2
  <2> QED
    BY <2>1 DEF PlaceIn
<1>3. CASE i > 1 + nc /\ i <= 1 + nc + no
  <2>1. i - 1 - nc \in 1 .. no /\ i = 1 + nc + (i - 1 - nc)
    BY <1>3
  <2> QED
    BY <2>1 DEF PlaceIn
<1>4. CASE i > 1 + nc + no
  <2>1. i - (1 + nc + no) \in 1 .. nq /\ i = 1 + nc + no + (i - (1 + nc + no))
    BY <1>4
  <2> QED
    BY <2>1 DEF PlaceIn
<1> QED
  BY <1>1, <1>2, <1>3, <1>4

\* The entries of a list, tagged.
TaggedBy(c, tag, C) ==
  /\ IsList(c) /\ Len(c) = Len(C)
  /\ \A i \in 1 .. Len(C) : c[i] = <<tag, C[i]>>

LEMMA TaggedList ==
  ASSUME NEW tag, NEW C, IsList(C)
  PROVE  TaggedBy([i \in DOMAIN C |-> <<tag, C[i]>>], tag, C)
<1> DEFINE c == [i \in DOMAIN C |-> <<tag, C[i]>>]
<1>1. Len(C) \in Nat /\ DOMAIN C = 1 .. Len(C)
  BY ListShape
<1>2. DOMAIN c = 1 .. Len(C) /\ c = [i \in 1 .. Len(C) |-> c[i]]
  BY <1>1
<1>3. \A i \in 1 .. Len(C) : c[i] = <<tag, C[i]>>
  BY <1>1
<1> HIDE DEF c
<1>4. IsList(c) /\ Len(c) = Len(C)
  BY <1>1, <1>2, ListOf
<1> QED
  BY <1>3, <1>4 DEF TaggedBy, c

\* The list of a head, the two lists and the tokens q, before it is sealed.
BodyOf(body, r, v, nc, no, q, nq) ==
  /\ nc \in Nat /\ no \in Nat /\ nq \in Nat
  /\ nc = Len(r.creds) /\ no = Len(r.locos) /\ nq = Len(q)
  /\ IsList(body) /\ Len(body) = 1 + nc + no + nq
  /\ body[1] = <<"head", v, nc, no>>
  /\ \A i \in 1 .. nc : body[1 + i][2] = r.creds[i]
  /\ \A i \in 1 .. no : body[1 + nc + i][2] = r.locos[i]
  /\ \A i \in 1 .. nq : body[1 + nc + no + i] = q[i]
  /\ \A i \in DOMAIN body : body[i][1] # "crc"

LEMMA BodyShape ==
  ASSUME NEW r, IsRecord(r), NEW v, NEW q, IsList(q), \A i \in DOMAIN q : q[i][1] # "crc"
  PROVE  BodyOf(Header(r, v) \o Lists(r) \o q, r, v, Len(r.creds), Len(r.locos), q, Len(q))
<1>1. IsList(r.creds) /\ IsList(r.locos)
  BY RecordShape
<1>2. PICK C, O, nc, no, nq : C = r.creds /\ O = r.locos /\ nc = Len(r.creds) /\ no = Len(r.locos)
                              /\ nq = Len(q)
  OBVIOUS
<1>3. PICK head : head = <<"head", v, nc, no>>
  OBVIOUS
<1>4. PICK c : c = [i \in DOMAIN C |-> <<"cred", C[i]>>]
  OBVIOUS
<1>5. PICK o : o = [i \in DOMAIN O |-> <<"loco", O[i]>>]
  OBVIOUS
<1>6. PICK l : l = c \o o
  OBVIOUS
<1>7. PICK hl : hl = <<head>> \o l
  OBVIOUS
<1>8. PICK body : body = hl \o q
  OBVIOUS
<1>9. body = Header(r, v) \o Lists(r) \o q
  BY <1>2, <1>3, <1>4, <1>5, <1>6, <1>7, <1>8 DEF Header, Lists
<1>10. TaggedBy(c, "cred", C) /\ TaggedBy(o, "loco", O)
  BY <1>1, <1>2, <1>4, <1>5, TaggedList
<1>11. /\ IsList(c) /\ nc = Len(c) /\ \A i \in 1 .. nc : c[i] = <<"cred", C[i]>>
       /\ IsList(o) /\ no = Len(o) /\ \A i \in 1 .. no : o[i] = <<"loco", O[i]>>
  BY <1>2, <1>10 DEF TaggedBy
<1>12. Joined(l, c, nc, o, no)
  BY <1>6, <1>11, ConcatJoins
<1>13. IsList(l) /\ Len(l) = nc + no
  BY <1>12 DEF Joined
<1>14. Joined(hl, <<head>>, 1, l, nc + no)
  BY <1>7, <1>13, OneIsList, ConcatJoins
<1>15. IsList(hl) /\ Len(hl) = 1 + nc + no
  <2>1. nc \in Nat /\ no \in Nat
    BY <1>12 DEF Joined
  <2>2. IsList(hl) /\ Len(hl) = 1 + (nc + no)
    BY <1>14 DEF Joined
  <2> QED
    BY <2>1, <2>2
<1>16. Joined(body, hl, 1 + nc + no, q, nq)
  BY <1>2, <1>8, <1>15, ConcatJoins
<1>17. InRow(body, head, c, nc, o, no, q, nq)
  BY <1>12, <1>14, <1>16, FourInRow
<1>18. ASSUME NEW i \in 1 .. nc
       PROVE  body[1 + i][2] = r.creds[i] /\ body[1 + i][1] = "cred"
  <2>1. body[1 + i] = <<"cred", C[i]>>
    BY <1>11, <1>17 DEF InRow
  <2> QED
    BY <1>2, <2>1
<1>19. ASSUME NEW i \in 1 .. no
       PROVE  body[1 + nc + i][2] = r.locos[i] /\ body[1 + nc + i][1] = "loco"
  <2>1. body[1 + nc + i] = <<"loco", O[i]>>
    BY <1>11, <1>17 DEF InRow
  <2> QED
    BY <1>2, <2>1
<1>20. ASSUME NEW i \in DOMAIN body PROVE body[i][1] # "crc"
  <2>1. /\ nc \in Nat /\ no \in Nat /\ nq \in Nat /\ body[1] = head
        /\ IsList(body) /\ Len(body) = 1 + nc + no + nq
        /\ \A j \in 1 .. nq : body[1 + nc + no + j] = q[j]
    BY <1>17 DEF InRow
  <2>2. i \in 1 .. 1 + nc + no + nq
    BY <2>1, ListShape
  <2>3. DOMAIN q = 1 .. nq
    BY <1>2, ListShape
  <2>4. CASE i = 1
    <3>1. head[1] = "head"
      BY <1>3
    <3> QED
      BY <2>1, <2>4, <3>1
  <2>5. CASE \E j \in 1 .. nc : i = 1 + j
    BY <1>18, <2>5
  <2>6. CASE \E j \in 1 .. no : i = 1 + nc + j
    BY <1>19, <2>6
  <2>7. CASE \E j \in 1 .. nq : i = 1 + nc + no + j
    BY ZenonT(90), <2>1, <2>3, <2>7
  <2>8. PlaceIn(i, nc, no, nq)
    BY <2>1, <2>2, FourPlaces
  <2> QED
    BY <2>4, <2>5, <2>6, <2>7, <2>8 DEF PlaceIn
<1>21. BodyOf(body, r, v, nc, no, q, nq)
  <2>1. body[1] = <<"head", v, nc, no>>
    BY <1>3, <1>17 DEF InRow
  <2>2. /\ nc \in Nat /\ no \in Nat /\ nq \in Nat
        /\ IsList(body) /\ Len(body) = 1 + nc + no + nq
        /\ \A i \in 1 .. nq : body[1 + nc + no + i] = q[i]
    BY <1>17 DEF InRow
  <2> QED
    BY <1>2, <1>18, <1>19, <1>20, <2>1, <2>2 DEF BodyOf
<1> QED
  BY <1>2, <1>9, <1>21
\* A sealed list is read to its end; cut short, it has no end.
SealedRight(buf, body) ==
  /\ IsList(buf) /\ Len(buf) = Len(body) + 1 /\ Len(body) \in Nat
  /\ \A i \in 1 .. Len(body) : buf[i] = body[i]
  /\ Sums(buf) = {Len(body) + 1} /\ Min(Sums(buf)) = Len(body) + 1
  /\ Sums(body) = {} /\ Front(buf) = body

LEMMA SealIsRight ==
  ASSUME NEW body, IsList(body), \A i \in DOMAIN body : body[i][1] # "crc"
  PROVE  SealedRight(Sealed(body), body)
<1>1. PICK buf, n : buf = Append(body, <<"crc", body>>) /\ n = Len(body)
  OBVIOUS
<1>2. n \in Nat /\ DOMAIN body = 1 .. n /\ body = [i \in 1 .. n |-> body[i]]
  BY <1>1, ListShape
<1>3. /\ IsList(buf) /\ Len(buf) = n + 1
      /\ \A i \in 1 .. n : buf[i] = body[i]
      /\ buf[n + 1] = <<"crc", body>>
  <2>1. IsList(buf) /\ Len(buf) = n + 1
    BY <1>1, ListAppend
  <2>2. \A i \in 1 .. n : buf[i] = body[i]
    BY <1>1, ListAppend
  <2>3. buf[n + 1] = <<"crc", body>>
    BY <1>1, ListAppend
  <2> QED
    BY <2>1, <2>2, <2>3
<1>4. DOMAIN buf = 1 .. n + 1
  BY <1>3, ListShape
<1>5. SubSeq(buf, 1, n) = body
  <2>1. PICK t : t = SubSeq(buf, 1, n)
    OBVIOUS
  <2>2. n \in 0 .. Len(buf) /\ 1 \in Nat \ {0} /\ 1 <= n + 1 /\ n - 1 + 1 = n
    BY <1>2, <1>3
  <2>3. IsList(t) /\ Len(t) = n - 1 + 1
    BY <1>3, <2>1, <2>2, ListSub
  <2>4. \A i \in 1 .. n - 1 + 1 : t[i] = buf[1 + i - 1]
    BY <1>3, <2>1, <2>2, ListSub
  <2>5. ASSUME NEW i \in 1 .. Len(t) PROVE t[i] = body[i]
    <3>1. i \in 1 .. n /\ 1 + i - 1 = i
      BY <1>2, <2>2, <2>3
    <3> QED
      BY <1>3, <2>2, <2>4, <3>1
  <2>6. t = body
    BY <1>1, <2>2, <2>3, <2>5, ListEqual
  <2> QED
    BY <2>1, <2>6
<1>6. n + 1 \in Sums(buf)
  <2>1. PICK k : k = n + 1
    OBVIOUS
  <2>2. k \in DOMAIN buf /\ k - 1 = n
    BY <1>2, <1>4, <2>1
  <2>3. buf[k][1] = "crc" /\ buf[k][2] = body
    BY <1>3, <2>1
  <2>4. SubSeq(buf, 1, k - 1) = body
    BY <1>5, <2>2
  <2>5. k \in Sums(buf)
    BY <2>2, <2>3, <2>4, Zenon DEF Sums
  <2> QED
    BY <2>1, <2>5
<1>7. ASSUME NEW i \in Sums(buf) PROVE i = n + 1
  <2>1. i \in 1 .. n + 1 /\ buf[i][1] = "crc"
    BY <1>4 DEF Sums
  <2>2. i \notin 1 .. n
    BY <1>2, <1>3, <2>1
  <2> QED
    BY <1>2, <2>1, <2>2
<1>8. Sums(buf) = {n + 1}
  BY <1>6, <1>7
<1>9. Min(Sums(buf)) = n + 1
  <2>1. Sums(buf) \in SUBSET Nat /\ Sums(buf) # {}
    BY <1>2, <1>8
  <2>2. Min(Sums(buf)) \in Sums(buf)
    BY <2>1, MinIsLeast
  <2> QED
    BY <1>8, <2>2
<1>10. Sums(body) = {}
  BY DEF Sums
<1>11. Front(buf) = body
  <2>1. Len(buf) - 1 = n
    BY <1>2, <1>3
  <2> QED
    BY <1>5, <2>1 DEF Front
<1>12. SealedRight(buf, body)
  BY <1>1, <1>2, <1>3, <1>8, <1>9, <1>10, <1>11 DEF SealedRight
<1> QED
  BY <1>1, <1>12 DEF Sealed

LEMMA RecordBuilt ==
  ASSUME NEW t, IsRecord(t)
  PROVE  t = [creds |-> t.creds, locos |-> t.locos, network |-> t.network, name |-> t.name,
              id |-> t.id, host |-> t.host, lang |-> t.lang, chosen |-> t.chosen,
              server |-> t.server, prog |-> t.prog, login |-> t.login, pin |-> t.pin,
              code |-> t.code, mode |-> t.mode, roster |-> t.roster]
<1>1. DOMAIN t = FieldNames /\ t = [f \in FieldNames |-> t[f]]
  BY RecordShape
<1> QED
  BY <1>1 DEF FieldNames

LEMMA FieldsShape ==
  ASSUME NEW r
  PROVE  /\ IsList(Fields(r)) /\ \A i \in DOMAIN Fields(r) : Fields(r)[i][1] # "crc"
<1>1. Tells(Fields(r), TailTags, Present(r), TokenOf(r))
  BY FieldsTell
<1> QED
  BY <1>1 DEF Tells, TailTags

\* What Encode writes.
Written(buf, body, r, nc, no, q, nq) ==
  /\ q = Fields(r) /\ SealedRight(buf, body) /\ BodyOf(body, r, 5, nc, no, q, nq)

LEMMA EncodeWrites ==
  ASSUME NEW r, IsRecord(r)
  PROVE  \E body, nc, no, q, nq : Written(Encode(r), body, r, nc, no, q, nq)
<1>1. PICK q : q = Fields(r)
  OBVIOUS
<1>2. IsList(q) /\ \A i \in DOMAIN q : q[i][1] # "crc"
  BY <1>1, FieldsShape
<1>3. PICK body : body = Header(r, 5) \o Lists(r) \o q
  OBVIOUS
<1>4. BodyOf(body, r, 5, Len(r.creds), Len(r.locos), q, Len(q))
  BY <1>2, <1>3, BodyShape
<1>5. SealedRight(Sealed(body), body)
  <2>1. IsList(body) /\ \A i \in DOMAIN body : body[i][1] # "crc"
    BY <1>4 DEF BodyOf
  <2> QED
    BY <2>1, SealIsRight
<1>6. Encode(r) = Sealed(body)
  BY <1>1, <1>3 DEF Encode
<1> QED
  BY <1>1, <1>4, <1>5, <1>6 DEF Written

\* The n-th part of a token is read back as it was written, and as the default
\* when the token is left out.
Follows(buf, m, q, places) ==
  /\ m \in Nat /\ places = m + 1 .. m + Len(q) /\ \A i \in 1 .. Len(q) : buf[m + i] = q[i]

LEMMA FieldsRead ==
  ASSUME NEW r, NEW buf, NEW m, NEW places, Follows(buf, m, Fields(r), places),
         NEW tag \in TailTags, NEW n, NEW d,
         tag \notin Present(r) => TokenOf(r)[tag][n] = d
  PROVE  Field(buf, places, tag, n, d) = TokenOf(r)[tag][n]
<1>1. PICK q : q = Fields(r)
  OBVIOUS
<1>2. Tells(q, TailTags, Present(r), TokenOf(r))
  BY <1>1, FieldsTell
<1>3. TokenOf(r)[tag][1] = tag
  BY TokensOf
<1>4. PICK P, T : P = Present(r) /\ T = TokenOf(r)
  OBVIOUS
<1>5. m \in Nat /\ places = m + 1 .. m + Len(q) /\ \A i \in 1 .. Len(q) : buf[m + i] = q[i]
  BY <1>1 DEF Follows
<1>6. Tells(q, TailTags, P, T) /\ T[tag][1] = tag
  BY <1>2, <1>3, <1>4
<1>7. /\ tag \in P => Field(buf, places, tag, n, d) = T[tag][n]
      /\ tag \notin P => Field(buf, places, tag, n, d) = d
  BY <1>5, <1>6, FieldRead
<1> QED
  BY <1>4, <1>7

\* What is written is read back, with the roster sorted.
LEMMA ReadsBack ==
  ASSUME NEW r, IsRecord(r)
  PROVE  Decode(Encode(r)) = Tidy(r)
<1>1. PICK buf : buf = Encode(r)
  OBVIOUS
<1>2. PICK body, nc, no, q, nq : Written(buf, body, r, nc, no, q, nq)
  BY <1>1, EncodeWrites
<1>3. /\ nc \in Nat /\ no \in Nat /\ nq \in Nat /\ q = Fields(r)
      /\ nc = Len(r.creds) /\ no = Len(r.locos) /\ nq = Len(q)
      /\ IsList(body) /\ Len(body) = 1 + nc + no + nq
      /\ body[1] = <<"head", 5, nc, no>>
      /\ \A i \in 1 .. nc : body[1 + i][2] = r.creds[i]
      /\ \A i \in 1 .. no : body[1 + nc + i][2] = r.locos[i]
      /\ \A i \in 1 .. nq : body[1 + nc + no + i] = q[i]
  BY <1>2 DEF Written, BodyOf
<1>4. /\ \A i \in 1 .. Len(body) : buf[i] = body[i]
      /\ Sums(buf) # {} /\ Min(Sums(buf)) = Len(body) + 1
  BY <1>2 DEF Written, SealedRight
<1>5. PICK m : m = 1 + nc + no
  OBVIOUS
<1>6. PICK N : N = Len(body)
  OBVIOUS
<1>7. nc \in Nat /\ no \in Nat /\ nq \in Nat /\ m \in Nat /\ N = m + nq /\ N \in Nat
  <2>1. nc \in Nat /\ no \in Nat /\ nq \in Nat
    BY <1>3
  <2>2. N = 1 + nc + no + nq
    BY <1>3, <1>6
  <2> QED
    BY <1>5, <2>1, <2>2
<1>8. Min(Sums(buf)) = m + nq + 1
  BY <1>4, <1>7, <1>6
<1>9. buf[1] = <<"head", 5, nc, no>>
  <2>1. 1 \in 1 .. N
    BY <1>5, <1>7
  <2> QED
    BY <1>3, <1>4, <1>6, <2>1
<1>10. ASSUME NEW i \in 1 .. nc PROVE buf[1 + i][2] = r.creds[i]
  <2>1. 1 + i \in 1 .. N
    BY <1>5, <1>7
  <2> QED
    BY <1>3, <1>4, <1>6, <2>1
<1>11. ASSUME NEW i \in 1 .. no PROVE buf[1 + nc + i][2] = r.locos[i]
  <2>1. 1 + nc + i \in 1 .. N
    BY <1>5, <1>7
  <2> QED
    BY <1>3, <1>4, <1>6, <2>1
<1>12. ASSUME NEW i \in 1 .. nq PROVE buf[m + i] = q[i]
  <2>1. m + i \in 1 .. N
    BY <1>5, <1>7
  <2>2. body[m + i] = q[i]
    BY <1>3, <1>5
  <2> QED
    BY <1>4, <1>6, <2>1, <2>2
<1>13. PICK tail : tail = m + 1 .. m + nq
  OBVIOUS
<1>14. ASSUME NEW i \in tail PROVE buf[i][1] \in TailTags
  <2>1. i - m \in 1 .. nq /\ i = m + (i - m)
    BY <1>7, <1>13
  <2>2. DOMAIN q = 1 .. nq /\ \A j \in DOMAIN q : q[j][1] \in TailTags
    <3>1. Tells(q, TailTags, Present(r), TokenOf(r))
      BY <1>3, FieldsTell
    <3>2. IsList(q) /\ \A j \in DOMAIN q : q[j][1] \in TailTags
      BY <3>1 DEF Tells
    <3> QED
      BY <1>3, <3>2, ListShape
  <2>3. buf[m + (i - m)] = q[i - m]
    BY <1>12, <2>1
  <2> QED
    BY <2>1, <2>2, <2>3
<1>15. Follows(buf, m, Fields(r), tail)
  BY <1>3, <1>7, <1>12, <1>13 DEF Follows
<1>16. PICK T : T = TokenOf(r)
  OBVIOUS
<1>17. PICK D : D = DefaultRecord
  OBVIOUS
<1>18. Field(buf, tail, "net", 2, D.network) = r.network
  <2>1. T["net"][2] = r.network
    BY <1>16, TokensOf
  <2>2. "net" \notin Present(r) => r.network = D.network
    BY <1>17, PresentTags DEF DefaultRecord
  <2> QED
    BY <1>15, <1>16, <2>1, <2>2, FieldsRead DEF TailTags
<1>19. Field(buf, tail, "dev", 2, D.name) = r.name /\ Field(buf, tail, "dev", 3, D.id) = r.id
  <2>1. T["dev"][2] = r.name /\ T["dev"][3] = r.id
    BY <1>16, TokensOf
  <2>2. "dev" \in Present(r)
    BY PresentTags
  <2> QED
    BY <1>15, <1>16, <2>1, <2>2, FieldsRead DEF TailTags
<1>20. Field(buf, tail, "host", 2, D.host) = r.host
  <2>1. T["host"][2] = r.host
    BY <1>16, TokensOf
  <2>2. "host" \notin Present(r) => r.host = D.host
    BY <1>17, PresentTags DEF DefaultRecord
  <2> QED
    BY <1>15, <1>16, <2>1, <2>2, FieldsRead DEF TailTags
<1>21. Field(buf, tail, "lang", 2, D.lang) = r.lang
  <2>1. T["lang"][2] = r.lang
    BY <1>16, TokensOf
  <2>2. "lang" \in Present(r)
    BY PresentTags
  <2> QED
    BY <1>15, <1>16, <2>1, <2>2, FieldsRead DEF TailTags
<1>22. Field(buf, tail, "chosen", 2, D.chosen) = r.chosen
  <2>1. T["chosen"][2] = r.chosen
    BY <1>16, TokensOf
  <2>2. "chosen" \in Present(r)
    BY PresentTags
  <2> QED
    BY <1>15, <1>16, <2>1, <2>2, FieldsRead DEF TailTags
<1>23. Field(buf, tail, "server", 2, D.server) = r.server
  <2>1. T["server"][2] = r.server
    BY <1>16, TokensOf
  <2>2. "server" \notin Present(r) => r.server = D.server
    BY <1>17, PresentTags DEF DefaultRecord
  <2> QED
    BY <1>15, <1>16, <2>1, <2>2, FieldsRead DEF TailTags
<1>24. Field(buf, tail, "prog", 2, D.prog) = r.prog
  <2>1. T["prog"][2] = r.prog
    BY <1>16, TokensOf
  <2>2. "prog" \in Present(r)
    BY PresentTags
  <2> QED
    BY <1>15, <1>16, <2>1, <2>2, FieldsRead DEF TailTags
<1>25. /\ Field(buf, tail, "bigfred", 2, D.login) = r.login
       /\ Field(buf, tail, "bigfred", 3, D.pin) = r.pin
       /\ Field(buf, tail, "bigfred", 4, D.code) = r.code
  <2>1. T["bigfred"][2] = r.login /\ T["bigfred"][3] = r.pin /\ T["bigfred"][4] = r.code
    BY <1>16, TokensOf
  <2>2. "bigfred" \notin Present(r) => r.login = D.login /\ r.pin = D.pin /\ r.code = D.code
    BY <1>17, PresentTags DEF DefaultRecord
  <2> QED
    BY <1>15, <1>16, <2>1, <2>2, FieldsRead DEF TailTags
<1>26. /\ Field(buf, tail, "roster", 2, D.mode) = r.mode
       /\ Field(buf, tail, "roster", 3, D.roster) = r.roster
  <2>1. T["roster"][2] = r.mode /\ T["roster"][3] = r.roster
    BY <1>16, TokensOf
  <2>2. "roster" \in Present(r)
    BY PresentTags
  <2> QED
    BY <1>15, <1>16, <2>1, <2>2, FieldsRead DEF TailTags
<1>27. /\ [i \in 1 .. nc |-> buf[1 + i][2]] = r.creds
       /\ [i \in 1 .. no |-> buf[1 + nc + i][2]] = r.locos
  <2>1. IsList(r.creds) /\ IsList(r.locos)
    BY RecordShape
  <2>2. /\ r.creds = [i \in 1 .. nc |-> r.creds[i]]
        /\ r.locos = [i \in 1 .. no |-> r.locos[i]]
    BY <1>3, <2>1, ListShape
  <2>3. [i \in 1 .. nc |-> buf[1 + i][2]] = [i \in 1 .. nc |-> r.creds[i]]
    BY <1>10
  <2>4. [i \in 1 .. no |-> buf[1 + nc + i][2]] = [i \in 1 .. no |-> r.locos[i]]
    BY <1>11
  <2> QED
    BY <2>2, <2>3, <2>4
<1>28. PICK end : end = Min(Sums(buf))
  OBVIOUS
<1>29. PICK head : head = buf[1]
  OBVIOUS
<1>30. /\ head = buf[1] /\ head[1] = "head" /\ head[2] = 5 /\ head[3] = nc /\ head[4] = no
  BY <1>9, <1>29
<1>31. /\ 1 + head[3] + head[4] = m
       /\ m + 1 .. end - 1 = tail
  BY <1>5, <1>7, <1>8, <1>13, <1>28, <1>30
<1>32. Decode(buf) =
         [creds |-> [i \in 1..nc |-> buf[1 + i][2]],
          locos |-> [i \in 1..no |-> buf[1 + nc + i][2]],
          network |-> Field(buf, tail, "net", 2, D.network),
          name |-> Field(buf, tail, "dev", 2, D.name),
          id |-> Field(buf, tail, "dev", 3, D.id),
          host |-> Field(buf, tail, "host", 2, D.host),
          lang |-> Field(buf, tail, "lang", 2, D.lang),
          chosen |-> Field(buf, tail, "chosen", 2, D.chosen),
          server |-> Field(buf, tail, "server", 2, D.server),
          prog |-> Field(buf, tail, "prog", 2, D.prog),
          login |-> Field(buf, tail, "bigfred", 2, D.login),
          pin |-> Field(buf, tail, "bigfred", 3, D.pin),
          code |-> Field(buf, tail, "bigfred", 4, D.code),
          mode |-> Field(buf, tail, "roster", 2, D.mode),
          roster |-> SortRoster(Field(buf, tail, "roster", 3, D.roster))]
  <2>1. head[2] \in 1 .. 5 /\ ~(head[2] = 1) /\ head[2] >= 5
    BY <1>30
  <2>2. ~(\E i \in tail : buf[i][1] \notin TailTags)
    BY <1>14
  <2>3. Sums(buf) # {}
    BY <1>4
  <2>4. 1 + head[3] + head[4] + 1 .. end - 1 = tail
    BY <1>30, <1>31
  <2>5. Decode(buf) =
            [creds |-> [i \in 1..head[3] |-> buf[1 + i][2]],
             locos |-> [i \in 1..head[4] |-> buf[1 + head[3] + i][2]],
             network |-> Field(buf, tail, "net", 2, D.network),
             name |-> Field(buf, tail, "dev", 2, D.name),
             id |-> Field(buf, tail, "dev", 3, D.id),
             host |-> Field(buf, tail, "host", 2, D.host),
             lang |-> Field(buf, tail, "lang", 2, D.lang),
             chosen |-> Field(buf, tail, "chosen", 2, D.chosen),
             server |-> Field(buf, tail, "server", 2, D.server),
             prog |-> Field(buf, tail, "prog", 2, D.prog),
             login |-> Field(buf, tail, "bigfred", 2, D.login),
             pin |-> Field(buf, tail, "bigfred", 3, D.pin),
             code |-> IF head[2] >= 5 THEN Field(buf, tail, "bigfred", 4, D.code) ELSE D.code,
             mode |-> Field(buf, tail, "roster", 2, D.mode),
             roster |-> SortRoster(Field(buf, tail, "roster", 3, D.roster))]
    BY <1>17, <1>28, <1>30, <2>1, <2>2, <2>3, <2>4, ZenonT(90) DEF Decode
  <2> QED
    BY <1>30, <2>1, <2>5, Zenon
<1>33. PICK t : t = Tidy(r)
  OBVIOUS
<1>34. IsRecord(t) /\ t.roster = SortRoster(r.roster)
  BY <1>33, RecordTidy
<1>35. \A f \in FieldNames \ {"roster"} : t[f] = r[f]
  BY <1>33, RecordTidy
<1>36. /\ t.creds = r.creds /\ t.locos = r.locos /\ t.network = r.network /\ t.name = r.name
       /\ t.id = r.id /\ t.host = r.host /\ t.lang = r.lang /\ t.chosen = r.chosen
       /\ t.server = r.server /\ t.prog = r.prog /\ t.login = r.login /\ t.pin = r.pin
       /\ t.code = r.code /\ t.mode = r.mode
  BY <1>35 DEF FieldNames
<1>37. t = [creds |-> t.creds, locos |-> t.locos, network |-> t.network, name |-> t.name,
            id |-> t.id, host |-> t.host, lang |-> t.lang, chosen |-> t.chosen,
            server |-> t.server, prog |-> t.prog, login |-> t.login, pin |-> t.pin,
            code |-> t.code, mode |-> t.mode, roster |-> t.roster]
  BY <1>34, RecordBuilt
<1>38. Decode(buf) = t
  BY <1>18, <1>19, <1>20, <1>21, <1>22, <1>23, <1>24, <1>25, <1>26, <1>27, <1>32, <1>34, <1>36,
     <1>37, Zenon
<1> QED
  BY <1>1, <1>33, <1>38
-----------------------------------------------------------------------------
(* What a sector holds, and what a write leaves.                           *)

LEMMA RecordIsSome == ASSUME NEW r, IsRecord(r) PROVE r # NoRecord
<1>1. DOMAIN r = FieldNames
  BY RecordShape
<1>2. DOMAIN <<>> = {}
  BY EmptyIsRoster, ListShape
<1> QED
  BY <1>1, <1>2 DEF FieldNames, NoRecord

LEMMA NoneIsRead == ASSUME NEW buf, Sums(buf) = {} PROVE Decode(buf) = NoRecord
BY DEF Decode

\* A sector holds no record, or one as it is read.
Stored(f) == Decode(f) # NoRecord => IsRecord(Decode(f)) /\ Sorted(Decode(f).roster)

LEMMA TornIsNone ==
  ASSUME NEW r, IsRecord(r), NEW g \in Torn(r)
  PROVE  Decode(g) = NoRecord
<1>1. CASE g = <<>>
  <2>1. DOMAIN <<>> = {}
    BY EmptyIsRoster, ListShape
  <2>2. Sums(<<>>) = {}
    BY <2>1 DEF Sums
  <2> QED
    BY <1>1, <2>2, NoneIsRead
<1>2. CASE g = Front(Encode(r))
  <2>1. PICK body, nc, no, q, nq : Written(Encode(r), body, r, nc, no, q, nq)
    BY EncodeWrites
  <2>2. g = body /\ Sums(body) = {}
    BY <1>2, <2>1 DEF Written, SealedRight
  <2> QED
    BY <2>2, NoneIsRead
<1> QED
  BY <1>1, <1>2 DEF Torn

\* What a write of r over f leaves.
Wrote(w, f, r, may) ==
  \/ w[2] = TRUE /\ Decode(w[1]) = Tidy(r)
  \/ w[2] = FALSE /\ may /\ (w[1] = f \/ Decode(w[1]) = NoRecord)

LEMMA PersistWrites ==
  ASSUME NEW f, NEW r, IsRecord(r), NEW may, NEW w \in Persist(f, r, may)
  PROVE  Wrote(w, f, r, may)
<1>1. CASE w = <<Encode(r), TRUE>>
  <2>1. w[1] = Encode(r) /\ w[2] = TRUE
    BY <1>1
  <2> QED
    BY <2>1, ReadsBack DEF Wrote
<1>2. CASE may /\ \E g \in {f} \cup Torn(r) : w = <<g, FALSE>>
  <2>1. PICK g \in {f} \cup Torn(r) : w = <<g, FALSE>>
    BY <1>2
  <2>2. w[1] = g /\ w[2] = FALSE
    BY <2>1
  <2>3. g = f \/ Decode(g) = NoRecord
    BY <2>1, TornIsNone
  <2> QED
    BY <1>2, <2>2, <2>3 DEF Wrote
<1> QED
  BY <1>1, <1>2 DEF Persist

LEMMA WroteStores ==
  ASSUME NEW f, Stored(f), NEW r, IsRecord(r), NEW may, NEW w, Wrote(w, f, r, may)
  PROVE  Stored(w[1]) /\ w[2] \in BOOLEAN
<1>1. IsRecord(Tidy(r)) /\ Sorted(Tidy(r).roster)
  BY RecordTidy
<1> QED
  BY <1>1 DEF Wrote, Stored

\* What is read of a sector: a record whose roster is sorted.
Loaded(l, f, may) ==
  /\ IsRecord(l[1]) /\ Sorted(l[1].roster)
  /\ \/ l[2] = TRUE /\ l[1] = (IF Decode(f) = NoRecord THEN DefaultRecord ELSE Decode(f))
     \/ l[2] = FALSE /\ may /\ l[1] = DefaultRecord

LEMMA LoadReads ==
  ASSUME NEW f, Stored(f), NEW may, NEW l \in Load(f, may)
  PROVE  Loaded(l, f, may)
<1>1. PICK d : d = IF Decode(f) = NoRecord THEN DefaultRecord ELSE Decode(f)
  OBVIOUS
<1>2. IsRecord(d) /\ Sorted(d.roster)
  BY <1>1, DefaultIsRecord DEF Stored
<1>3. CASE l = <<d, TRUE>>
  <2>1. l[1] = d /\ l[2] = TRUE
    BY <1>3
  <2> QED
    BY <1>1, <1>2, <2>1 DEF Loaded
<1>4. CASE may /\ l = <<DefaultRecord, FALSE>>
  <2>1. l[1] = DefaultRecord /\ l[2] = FALSE
    BY <1>4
  <2> QED
    BY <1>4, <2>1, DefaultIsRecord DEF Loaded
<1> QED
  BY <1>1, <1>3, <1>4 DEF Load
-----------------------------------------------------------------------------
(* Requests make records of records.                                       *)

LEMMA TailIsList ==
  ASSUME NEW s, IsList(s), s # <<>>
  PROVE  /\ IsList(Tail(s)) /\ Len(s) \in Nat \ {0} /\ Len(Tail(s)) = Len(s) - 1
         /\ \A i \in 1 .. Len(s) - 1 : Tail(s)[i] = s[i + 1]
<1>1. PICK S : S = {s[i] : i \in DOMAIN s}
  OBVIOUS
<1>2. s \in Seq(S)
  BY <1>1 DEF IsList
<1>3. /\ Tail(s) \in Seq(S) /\ Len(Tail(s)) = Len(s) - 1
      /\ \A i \in 1 .. Len(s) - 1 : Tail(s)[i] = s[i + 1]
  BY <1>2, HeadTailProperties
<1>4. IsList(Tail(s))
  BY <1>3, ListOver
<1>5. Len(s) \in Nat \ {0}
  BY <1>2
<1> QED
  BY <1>3, <1>4, <1>5

LEMMA RemovedIsList ==
  ASSUME NEW s, IsList(s), NEW k \in DOMAIN s
  PROVE  IsList(RemoveAt(s, k)) /\ Len(RemoveAt(s, k)) = Len(s) - 1
<1>1. PICK n : n = Len(s)
  OBVIOUS
<1>2. n \in Nat /\ k \in 1 .. n
  BY <1>1, ListShape
<1>3. PICK a : a = SubSeq(s, 1, k - 1)
  OBVIOUS
<1>4. PICK b : b = SubSeq(s, k + 1, n)
  OBVIOUS
<1>5. IsList(a) /\ Len(a) = k - 1
  <2>1. k - 1 \in 0 .. Len(s) /\ 1 \in Nat \ {0} /\ 1 <= k - 1 + 1 /\ k - 1 - 1 + 1 = k - 1
    BY <1>1, <1>2
  <2> QED
    BY <1>3, <2>1, ListSub
<1>6. IsList(b) /\ Len(b) = n - k
  <2>1. n \in 0 .. Len(s) /\ k + 1 \in Nat \ {0} /\ k + 1 <= n + 1 /\ n - (k + 1) + 1 = n - k
    BY <1>1, <1>2
  <2> QED
    BY <1>4, <2>1, ListSub
<1>7. Joined(a \o b, a, k - 1, b, n - k)
  BY <1>5, <1>6, ConcatJoins
<1>8. IsList(a \o b) /\ Len(a \o b) = n - 1
  <2>1. IsList(a \o b) /\ Len(a \o b) = (k - 1) + (n - k)
    BY <1>7 DEF Joined
  <2> QED
    BY <1>2, <2>1
<1> QED
  BY <1>1, <1>3, <1>4, <1>8 DEF RemoveAt

\* The fields of r are those of s, but for those in F.
SameBut(s, r, F) == \A f \in FieldNames \ F : s[f] = r[f]

LEMMA SetPasswordKeeps ==
  ASSUME NEW r, IsRecord(r), NEW ssid, NEW pw
  PROVE  IsRecord(SetPassword(r, ssid, pw)) /\ SameBut(SetPassword(r, ssid, pw), r, {"creds"})
<1>1. PICK C, n : C = r.creds /\ n = Len(C)
  OBVIOUS
<1>2. IsList(C) /\ n \in Nat /\ DOMAIN C = 1 .. n /\ n <= MaxCredentials
  BY <1>1, RecordShape, ListShape
<1>3. PICK known : known = {i \in DOMAIN C : C[i][1] = ssid}
  OBVIOUS
<1>4. PICK kept : kept = IF known # {} THEN RemoveAt(C, Min(known))
                         ELSE IF n = MaxCredentials THEN Tail(C) ELSE C
  OBVIOUS
<1>5. MaxCredentials \in Nat \ {0}
  BY RecordAssumption
<1>6. IsList(kept) /\ Len(kept) + 1 <= MaxCredentials /\ Len(kept) \in Nat
  <2>1. CASE known # {}
    <3>1. known \in SUBSET Nat
      BY <1>2, <1>3
    <3>2. Min(known) \in DOMAIN C
      BY <1>3, <2>1, <3>1, MinIsLeast
    <3>3. IsList(kept) /\ Len(kept) = n - 1
      BY <1>1, <1>2, <1>4, <2>1, <3>2, RemovedIsList
    <3>4. n \in Nat \ {0}
      BY <1>2, <3>2
    <3> QED
      BY <1>2, <1>5, <3>3, <3>4
  <2>2. CASE known = {} /\ n = MaxCredentials
    <3>1. C # <<>>
      BY <1>1, <1>5, <2>2, EmptyIsRoster
    <3>2. IsList(kept) /\ n \in Nat \ {0} /\ Len(kept) = n - 1
      BY <1>1, <1>2, <1>4, <2>2, <3>1, TailIsList
    <3> QED
      BY <1>5, <2>2, <3>2
  <2>3. CASE known = {} /\ n # MaxCredentials
    BY <1>1, <1>2, <1>4, <1>5, <2>3
  <2> QED
    BY <2>1, <2>2, <2>3
<1>7. PICK v : v = Append(kept, <<Fit(ssid), Fit(pw)>>)
  OBVIOUS
<1>8. IsList(v) /\ Len(v) <= MaxCredentials
  BY <1>6, <1>7, ListAppend
<1>9. PICK s, f : f = "creds" /\ s = [r EXCEPT ![f] = v]
  OBVIOUS
<1>10. f \in FieldNames
  BY <1>9 DEF FieldNames
<1>11. IsRecord(s)
  BY <1>8, <1>9, <1>10, RecordStays
<1>12. \A g \in FieldNames \ {f} : s[g] = r[g]
  BY <1>9, <1>10, RecordExcept
<1>13. s = SetPassword(r, ssid, pw)
  BY <1>1, <1>3, <1>4, <1>7, <1>9 DEF SetPassword
<1> QED
  BY <1>9, <1>11, <1>12, <1>13 DEF SameBut

\* A field whose value may be anything.
FreeFields == FieldNames \ {"creds", "locos", "id", "roster"}

LEMMA FreeKeeps ==
  ASSUME NEW r, IsRecord(r), NEW f \in FreeFields, NEW v
  PROVE  IsRecord([r EXCEPT ![f] = v]) /\ SameBut([r EXCEPT ![f] = v], r, {f})
<1>1. f \in FieldNames
  BY DEF FreeFields
<1>2. IsRecord([r EXCEPT ![f] = v])
  BY <1>1, RecordStays DEF FreeFields
<1>3. \A g \in FieldNames \ {f} : [r EXCEPT ![f] = v][g] = r[g]
  BY <1>1, RecordExcept
<1> QED
  BY <1>2, <1>3 DEF SameBut

\* A request at work: the record as changed so far.
Working(s) == s = [rec |-> s.rec, error |-> s.error] /\ IsRecord(s.rec)

LEMMA PutWorks ==
  ASSUME NEW s, Working(s), NEW text, NEW f \in FreeFields
  PROVE  Working(Put(s, text, f))
<1>1. CASE s.error \/ text = None
  BY <1>1 DEF Put
<1>2. CASE ~(s.error \/ text = None)
  <2>1. PICK t : t = [s.rec EXCEPT ![f] = Fit(text)]
    OBVIOUS
  <2>2. IsRecord(t)
    BY <2>1, FreeKeeps DEF Working
  <2>3. Put(s, text, f) = [rec |-> t, error |-> ~Fits(text)]
    BY <1>2, <2>1 DEF Put
  <2> QED
    BY <2>2, <2>3 DEF Working
<1> QED
  BY <1>1, <1>2

LEMMA PutCodeWorks ==
  ASSUME NEW s, Working(s), NEW code
  PROVE  Working(PutCode(s, code))
<1>1. CASE s.error \/ code = None
  BY <1>1 DEF PutCode
<1>2. CASE ~(s.error \/ code = None) /\ code \in {"bad", "long"}
  <2>1. PICK t : t = [s EXCEPT !.error = TRUE]
    OBVIOUS
  <2>2. t = [rec |-> s.rec, error |-> TRUE]
    BY <2>1 DEF Working
  <2>3. PutCode(s, code) = t
    BY <1>2, <2>1 DEF PutCode
  <2> QED
    BY <2>2, <2>3 DEF Working
<1>3. CASE ~(s.error \/ code = None) /\ code \notin {"bad", "long"}
  <2>1. PICK f, t : f = "code" /\ t = [s.rec EXCEPT ![f] = code]
    OBVIOUS
  <2>2. f \in FreeFields
    BY <2>1 DEF FreeFields, FieldNames
  <2>3. IsRecord(t)
    BY <2>1, <2>2, FreeKeeps DEF Working
  <2>4. PICK u : u = [s EXCEPT !.rec.code = code]
    OBVIOUS
  <2>5. u = [rec |-> t, error |-> s.error]
    BY <2>1, <2>4 DEF Working
  <2>6. PutCode(s, code) = u
    BY <1>3, <2>4 DEF PutCode
  <2> QED
    BY <2>3, <2>5, <2>6 DEF Working
<1> QED
  BY <1>1, <1>2, <1>3

LEMMA PutRosterWorks ==
  ASSUME NEW s, Working(s), NEW e, IsRoster(e)
  PROVE  Working(PutRoster(s, e))
<1>1. PICK wrong : wrong = {i \in DOMAIN e : ~Fits(e[i][2])}
  OBVIOUS
<1>2. PICK f : f = "roster"
  OBVIOUS
<1>3. f \in FieldNames
  BY <1>2 DEF FieldNames
<1>4. IsRecord(s.rec)
  BY DEF Working
<1>5. CASE s.error \/ e = <<>>
  BY <1>5 DEF PutRoster
<1>6. CASE ~(s.error \/ e = <<>>) /\ wrong = {}
  <2>1. PICK v, t : v = SortRoster(e) /\ t = [s.rec EXCEPT ![f] = v]
    OBVIOUS
  <2>2. IsRoster(v)
    BY <2>1, SortSorts
  <2>3. IsRecord(t)
    BY <1>2, <1>3, <1>4, <2>1, <2>2, RecordStays
  <2>4. PICK u : u = [s EXCEPT !.rec.roster = v]
    OBVIOUS
  <2>5. u = [rec |-> t, error |-> s.error]
    BY <1>2, <2>1, <2>4 DEF Working
  <2>6. PutRoster(s, e) = u
    BY <1>1, <1>6, <2>1, <2>4 DEF PutRoster
  <2> QED
    BY <2>3, <2>5, <2>6 DEF Working
<1>7. CASE ~(s.error \/ e = <<>>) /\ wrong # {}
  <2>1. PICK k : k = Min(wrong) - 1
    OBVIOUS
  <2>2. IsList(e) /\ DOMAIN e = 1 .. Len(e) /\ Len(e) \in Nat
    BY ListShape DEF IsRoster
  <2>3. k \in 0 .. Len(e)
    <3>1. wrong \in SUBSET Nat
      BY <1>1, <2>2
    <3>2. Min(wrong) \in 1 .. Len(e)
      BY <1>1, <1>7, <2>2, <3>1, MinIsLeast
    <3> QED
      BY <2>1, <2>2, <3>2
  <2>4. PICK v, t : v = SubSeq(e, 1, k) /\ t = [s.rec EXCEPT ![f] = v]
    OBVIOUS
  <2>5. 1 \in Nat \ {0} /\ 1 <= k + 1 /\ k - 1 + 1 = k
    BY <2>3
  <2>6. IsList(v) /\ Len(v) = k
    BY <2>2, <2>3, <2>4, <2>5, ListSub
  <2>7. \A i \in 1 .. k - 1 + 1 : v[i] = e[1 + i - 1]
    BY <2>2, <2>3, <2>4, <2>5, ListSub
  <2>8. ASSUME NEW i \in DOMAIN v PROVE v[i][1] \in Nat
    <3>1. i \in 1 .. k
      BY <2>6, ListShape
    <3>2. i \in DOMAIN e /\ 1 + i - 1 = i
      BY <2>2, <2>3, <3>1
    <3>3. v[i] = e[i]
      BY <2>5, <2>7, <3>1, <3>2
    <3> QED
      BY <3>2, <3>3 DEF IsRoster
  <2>9. IsRoster(v)
    BY <2>6, <2>8 DEF IsRoster
  <2>10. IsRecord(t)
    BY <1>2, <1>3, <1>4, <2>4, <2>9, RecordStays
  <2>11. PutRoster(s, e) = [rec |-> t, error |-> TRUE]
    BY <1>1, <1>2, <1>7, <2>1, <2>4 DEF PutRoster
  <2> QED
    BY <2>10, <2>11 DEF Working
<1> QED
  BY <1>5, <1>6, <1>7
\* A settings request makes a record, refused or not.
LEMMA SettingsMakeRecord ==
  ASSUME NEW r, IsRecord(r), NEW p, IsRoster(p.roster)
  PROVE  IsRecord(ApplySettingsPut(r, p).rec)
<1>1. PICK wifi : wifi = IF p.ssid = None \/ p.password = None THEN r
                         ELSE SetPassword(r, p.ssid, p.password)
  OBVIOUS
<1>2. IsRecord(wifi)
  BY <1>1, SetPasswordKeeps
<1>3. PICK first : first = [rec |-> wifi, error |-> FALSE]
  OBVIOUS
<1>4. Working(first)
  BY <1>2, <1>3 DEF Working
<1>5. "host" \in FreeFields /\ "login" \in FreeFields /\ "pin" \in FreeFields
  BY DEF FreeFields, FieldNames
<1>6. PICK host : host = Put(first, p.hostname, "host")
  OBVIOUS
<1>7. Working(host)
  BY <1>4, <1>5, <1>6, PutWorks
<1>8. PICK login : login = Put(host, p.login, "login")
  OBVIOUS
<1>9. Working(login)
  BY <1>5, <1>7, <1>8, PutWorks
<1>10. PICK pin : pin = Put(login, p.pin, "pin")
  OBVIOUS
<1>11. Working(pin)
  BY <1>5, <1>9, <1>10, PutWorks
<1>12. PICK code : code = PutCode(pin, p.code)
  OBVIOUS
<1>13. Working(code)
  BY <1>11, <1>12, PutCodeWorks
<1>14. PICK flags :
         flags = IF code.error THEN code
                 ELSE [code EXCEPT !.rec.prog = IF p.prog = None THEN @ ELSE p.prog,
                                   !.rec.mode = IF p.mode = None THEN @ ELSE p.mode]
  OBVIOUS
<1>15. Working(flags)
  <2>1. CASE code.error
    BY <1>13, <1>14, <2>1
  <2>2. CASE ~code.error
    <3>1. PICK x, y : /\ x = (IF p.prog = None THEN code.rec["prog"] ELSE p.prog)
                      /\ y = (IF p.mode = None THEN code.rec["mode"] ELSE p.mode)
      OBVIOUS
    <3>2. PICK f, g : f = "prog" /\ g = "mode"
      OBVIOUS
    <3>3. f \in FreeFields /\ g \in FreeFields /\ f # g
      BY <3>2 DEF FreeFields, FieldNames
    <3>4. PICK s : s = [code.rec EXCEPT ![f] = x]
      OBVIOUS
    <3>5. IsRecord(s)
      BY <1>13, <3>3, <3>4, FreeKeeps DEF Working
    <3>6. PICK t : t = [s EXCEPT ![g] = y]
      OBVIOUS
    <3>7. IsRecord(t)
      BY <3>3, <3>5, <3>6, FreeKeeps
    <3>8. s["mode"] = code.rec["mode"]
      BY <1>13, <3>2, <3>4 DEF Working
    <3>9. flags = [rec |-> t, error |-> code.error]
      BY <1>13, <1>14, <2>2, <3>1, <3>2, <3>4, <3>6, <3>8 DEF Working
    <3> QED
      BY <3>7, <3>9 DEF Working
  <2> QED
    BY <2>1, <2>2
<1>16. Working(PutRoster(flags, p.roster))
  BY <1>15, PutRosterWorks
<1>17. ApplySettingsPut(r, p) = PutRoster(flags, p.roster)
  BY <1>1, <1>3, <1>6, <1>8, <1>10, <1>12, <1>14 DEF ApplySettingsPut
<1> QED
  BY <1>16, <1>17 DEF Working

\* What a request makes of the storage task's record.
LEMMA AppliedMakesRecord ==
  ASSUME NEW r, IsRecord(r), NEW request, IsRequest(request), seed \in Nat \ {0},
         NEW s \in Applied(request, r)
  PROVE  IsRecord(s) /\ (Identified(r) => Identified(s))
<1>1. PICK kind, value : kind = request[1] /\ value = request[2]
  OBVIOUS
<1>2. /\ "id" \in FieldNames /\ "host" \in FieldNames /\ "locos" \in FieldNames
      /\ "creds" \in FieldNames
      /\ "name" \in FreeFields /\ "network" \in FreeFields /\ "lang" \in FreeFields
      /\ "chosen" \in FreeFields /\ "mode" \in FreeFields /\ "code" \in FreeFields
      /\ "server" \in FreeFields /\ "prog" \in FreeFields
  BY DEF FreeFields, FieldNames
\* One field that says nothing of who the handset is.
<1>3. ASSUME NEW f \in FreeFields \ {"host"}, NEW v, NEW t, t = [r EXCEPT ![f] = v]
      PROVE  IsRecord(t) /\ (Identified(r) => Identified(t))
  <2>1. IsRecord(t) /\ SameBut(t, r, {f})
    BY <1>3, FreeKeeps
  <2>2. f \notin {"id", "host"}
    BY DEF FreeFields
  <2>3. t["id"] = r["id"] /\ t["host"] = r["host"]
    BY <1>2, <2>1, <2>2 DEF SameBut
  <2> QED
    BY <2>1, <2>3 DEF Identified
\* A new identity.
<1>4. ASSUME NEW e \in Nat \ {0}, NEW t, t = [r EXCEPT !["id"] = e]
      PROVE  IsRecord(t) /\ (Identified(r) => Identified(t))
  <2>1. PICK f : f = "id"
    OBVIOUS
  <2>2. IsRecord(t)
    BY <1>2, <1>4, <2>1, RecordStays
  <2>3. t["id"] = e /\ t["host"] = r["host"]
    BY <1>2, <1>4, <2>1, RecordExcept
  <2> QED
    BY <2>2, <2>3 DEF Identified
<1>5. CASE kind = "password"
  <2>1. s = SetPassword(r, value[1], value[2])
    BY <1>1, <1>5 DEF Applied
  <2>2. IsRecord(s) /\ SameBut(s, r, {"creds"})
    BY <2>1, SetPasswordKeeps
  <2>3. s["id"] = r["id"] /\ s["host"] = r["host"]
    BY <1>2, <2>2 DEF SameBut
  <2> QED
    BY <2>2, <2>3 DEF Identified
<1>6. CASE kind = "locos"
  <2>1. PICK f : f = "locos"
    OBVIOUS
  <2>2. s = [r EXCEPT ![f] = value]
    BY <1>1, <1>6, <2>1 DEF Applied
  <2>3. IsList(value)
    BY <1>1, <1>6 DEF IsRequest
  <2>4. IsRecord(s)
    BY <1>2, <2>1, <2>2, <2>3, RecordStays
  <2>5. s["id"] = r["id"] /\ s["host"] = r["host"]
    BY <1>2, <2>1, <2>2, RecordExcept
  <2> QED
    BY <2>4, <2>5 DEF Identified
<1>7. CASE kind \in {"network", "mode", "code", "server", "prog"}
  <2>1. s = [r EXCEPT ![kind] = value]
    BY <1>1, <1>7 DEF Applied
  <2>2. kind \in FreeFields \ {"host"}
    BY <1>2, <1>7
  <2> QED
    BY <1>3, <2>1, <2>2
<1>8. CASE kind = "device"
  <2>1. PICK t : t = [r EXCEPT !["name"] = value[1]]
    OBVIOUS
  <2>2. IsRecord(t) /\ (Identified(r) => Identified(t))
    BY <1>2, <1>3, <2>1
  <2>3. s = [t EXCEPT !["id"] = value[2]]
    BY <1>1, <1>8, <2>1 DEF Applied
  <2>4. value[2] \in Nat \ {0}
    BY <1>1, <1>8 DEF IsRequest
  <2>5. PICK f : f = "id"
    OBVIOUS
  <2>6. IsRecord(s)
    BY <1>2, <2>2, <2>3, <2>4, <2>5, RecordStays
  <2>7. s["id"] = value[2] /\ s["host"] = t["host"]
    BY <1>2, <2>2, <2>3, <2>5, RecordExcept
  <2> QED
    BY <2>2, <2>4, <2>6, <2>7 DEF Identified
<1>9. CASE kind = "regenerate"
  <2>1. PICK e \in Entropies : s = [r EXCEPT !["id"] = e]
    BY <1>1, <1>9 DEF Applied
  <2>2. e \in Nat \ {0}
    BY StorageAssumption
  <2> QED
    BY <1>4, <2>1, <2>2
<1>10. CASE kind = "language"
  <2>1. PICK t : t = [r EXCEPT !["lang"] = value]
    OBVIOUS
  <2>2. IsRecord(t) /\ (Identified(r) => Identified(t))
    BY <1>2, <1>3, <2>1
  <2>3. s = [t EXCEPT !["chosen"] = TRUE]
    BY <1>1, <1>10, <2>1 DEF Applied
  <2>4. IsRecord(s) /\ SameBut(s, t, {"chosen"})
    BY <1>2, <2>2, <2>3, FreeKeeps
  <2>5. s["id"] = t["id"] /\ s["host"] = t["host"]
    BY <1>2, <2>4 DEF SameBut
  <2> QED
    BY <2>2, <2>4, <2>5 DEF Identified
<1>11. CASE kind = "replace"
  <2>1. s = Completed(value, seed)
    BY <1>1, <1>11 DEF Applied
  <2>2. IsRecord(value)
    BY <1>1, <1>11 DEF IsRequest
  <2> QED
    BY <2>1, <2>2, RecordCompleted
<1>12. CASE kind = "clear"
  <2>1. s = Completed(DefaultRecord, seed)
    BY <1>1, <1>12 DEF Applied
  <2> QED
    BY <2>1, DefaultIsRecord, RecordCompleted
<1> QED
  BY <1>1, <1>5, <1>6, <1>7, <1>8, <1>9, <1>10, <1>11, <1>12 DEF IsRequest
-----------------------------------------------------------------------------
(* The inductive invariant.                                                *)

\* Every request the storage task will take is one it can apply.
Requests == IsList(ctrl) /\ \A i \in DOMAIN ctrl : IsRequest(ctrl[i])

DataInv ==
  /\ TypeOK /\ Requests /\ Stored(flash) /\ faults \in Nat
  /\ mode # "off" => seed \in Nat \ {0} /\ Identified(record)
  /\ http = "put" => IsRecord(snapshot)

\* What is published is what the storage task has, and in normal operation,
\* where no request brings a roster, that is a record with its roster sorted.
QuietInv ==
  /\ published = record
  /\ mode = "run" => Sorted(record.roster) /\ \A i \in DOMAIN ctrl : ctrl[i][1] # "replace"
  /\ QuietAgrees

\* Which task can be at what, in which mode.
PlacesInv ==
  /\ dom # "starting" => mode = "run"
  /\ (http \in {"put", "exit"} \/ ui # "idle") => mode = "prog"

FlagOnFlash == Decode(flash) # NoRecord /\ Decode(flash).prog

\* In normal operation the domain is the only one that waits: the answer it finds
\* is that of its own request, the last it sent.
DomainWaits ==
  /\ dom \in {"starting", "running"} /\ mode = "run" =>
       ack = None /\ \A i \in DOMAIN ctrl : ~WantsAck(ctrl[i])
  /\ dom = "waiting" =>
       \/ /\ ack = None
          /\ \A i \in DOMAIN ctrl :
               WantsAck(ctrl[i]) => i = Len(ctrl) /\ ctrl[i] = <<"prog", TRUE>>
       \/ ctrl = <<>> /\ ack \in BOOLEAN /\ (ack = TRUE => FlagOnFlash)
  /\ dom = "leaving" => ctrl = <<>> /\ FlagOnFlash

\* In programming mode, while the pairing screen stays, a settings request is the
\* only one on its way.
ServerWaits ==
  mode = "prog" /\ ui = "idle" =>
    /\ http \in {"idle", "upload"} => ctrl = <<>> /\ ack = None
    /\ http = "put" =>
         \/ ctrl = <<<<"replace", snapshot>>>> /\ ack = None
         \/ ctrl = <<>> /\ (ack = TRUE => Decode(flash) = Tidy(Completed(snapshot, seed)))

Inv == DataInv /\ QuietInv /\ PlacesInv /\ DomainWaits /\ ServerWaits
-----------------------------------------------------------------------------
(* What a boot starts from and leaves.                                     *)

\* A record as it is read, with an identity.
Ready(r) == IsRecord(r) /\ Sorted(r.roster) /\ Identified(r)

LEMMA ReadyStays ==
  ASSUME NEW r, Ready(r), NEW e \in Nat \ {0}
  PROVE  Completed(r, e) = r /\ Tidy(r) = r
<1>1. IsRecord(r) /\ Sorted(r.roster) /\ Identified(r)
  BY DEF Ready
<1> QED
  BY <1>1, RecordCompleted, RecordTidy

LEMMA CompletedIsReady ==
  ASSUME NEW r, IsRecord(r), Sorted(r.roster), NEW e \in Nat \ {0}
  PROVE  Ready(Completed(r, e))
<1>1. IsRecord(Completed(r, e)) /\ Identified(Completed(r, e))
  BY RecordCompleted
<1>2. "roster" \in FieldNames
  BY DEF FieldNames
<1>3. Completed(r, e)["roster"] = r["roster"]
  BY <1>2, CompletedKeeps
<1> QED
  BY <1>1, <1>3 DEF Ready

LEMMA FlagIsReady ==
  ASSUME NEW r, Ready(r), NEW v, NEW s, s = [r EXCEPT !.prog = v]
  PROVE  Ready(s)
<1>1. IsRecord(r)
  BY DEF Ready
<1>2. IsRecord(s) /\ \A f \in FieldNames \ {"prog"} : s[f] = r[f]
  BY <1>1, RecordFlag
<1>3. s["roster"] = r["roster"] /\ s["id"] = r["id"] /\ s["host"] = r["host"]
  BY <1>2 DEF FieldNames
<1> QED
  BY <1>2, <1>3 DEF Ready, Identified

\* The record a boot starts from when it reads d.
Read(d) == IF d = NoRecord THEN DefaultRecord ELSE d

\* A write over f of what a boot makes of what it read: it is done, fails, or was
\* not needed.
Boots(w, f, r, may) ==
  \/ w[2] = TRUE /\ (Decode(w[1]) = r \/ w[1] = f)
  \/ w[2] = FALSE /\ may /\ (w[1] = f \/ Decode(w[1]) = NoRecord)

LEMMA EnsureBootBoots ==
  ASSUME NEW f, Stored(f), NEW l, IsRecord(l), Sorted(l.roster), NEW e \in Nat \ {0},
         NEW may, NEW w \in EnsureBoot(f, l, e, may)
  PROVE  /\ Boots(w, f, Completed(l, e), may)
         /\ w[2] = TRUE /\ Read(Decode(f)) = l => Decode(w[1]) = Completed(l, e)
<1>1. Ready(Completed(l, e))
  BY CompletedIsReady
<1>2. IsRecord(Completed(l, e)) /\ Tidy(Completed(l, e)) = Completed(l, e)
  BY <1>1, ReadyStays DEF Ready
<1>3. CASE Completed(l, e) = l
  <2>1. w[1] = f /\ w[2] = TRUE
    <3>1. w = <<f, TRUE>>
      BY <1>3, Zenon DEF EnsureBoot
    <3> QED
      BY <3>1
  <2>2. l # DefaultRecord
    <3>1. DefaultRecord.id = 0
      BY DEF DefaultRecord
    <3>2. l.id # 0
      BY <1>1, <1>3 DEF Ready, Identified
    <3> QED
      BY <3>1, <3>2
  <2>3. Read(Decode(f)) = l => Decode(f) = l
    BY <2>2 DEF Read
  <2> QED
    BY <1>3, <2>1, <2>3 DEF Boots
<1>4. CASE Completed(l, e) # l
  <2>1. w \in Persist(f, Completed(l, e), may)
    BY <1>4 DEF EnsureBoot
  <2>2. Wrote(w, f, Completed(l, e), may)
    BY <1>2, <2>1, PersistWrites
  <2> QED
    BY <1>2, <2>2 DEF Wrote, Boots
<1> QED
  BY <1>3, <1>4

\* The record with the flag, if the boot sets it.
Flagged(r) == IF EnterProgramming(r) /\ ~r.prog THEN [r EXCEPT !.prog = TRUE] ELSE r

LEMMA FlaggedIsReady ==
  ASSUME NEW r, Ready(r)
  PROVE  Ready(Flagged(r)) /\ Flagged(r) \in {r, WithFlag(r)}
<1>1. PICK s : s = [r EXCEPT !.prog = TRUE]
  OBVIOUS
<1>2. Ready(s)
  BY <1>1, FlagIsReady
<1> QED
  BY <1>1, <1>2 DEF Flagged, WithFlag

LEMMA FlagProgrammingBoots ==
  ASSUME NEW f, Stored(f), NEW r, Ready(r), NEW may, NEW w \in FlagProgramming(f, r, may)
  PROVE  /\ Boots(w, f, Flagged(r), may)
         /\ w[2] = TRUE /\ Decode(f) = r => Decode(w[1]) = Flagged(r)
<1>1. CASE EnterProgramming(r) /\ ~r.prog
  <2>1. PICK s : s = [r EXCEPT !.prog = TRUE]
    OBVIOUS
  <2>2. Ready(s) /\ Flagged(r) = s
    BY <1>1, <2>1, FlagIsReady DEF Flagged
  <2>3. w \in Persist(f, s, may)
    BY <1>1, <2>1 DEF FlagProgramming
  <2>4. Wrote(w, f, s, may)
    BY <2>2, <2>3, PersistWrites DEF Ready
  <2>5. Tidy(s) = s
    BY <2>2, RecordTidy DEF Ready
  <2> QED
    BY <2>2, <2>4, <2>5 DEF Wrote, Boots
<1>2. CASE ~(EnterProgramming(r) /\ ~r.prog)
  <2>1. w[1] = f /\ w[2] = TRUE /\ Flagged(r) = r
    <3>1. w = <<f, TRUE>>
      BY <1>2, Zenon DEF FlagProgramming
    <3>2. Flagged(r) = r
      BY <1>2, Zenon DEF Flagged
    <3> QED
      BY <3>1, <3>2
  <2> QED
    BY <2>1 DEF Boots
<1> QED
  BY <1>1, <1>2

LEMMA BootStores ==
  ASSUME NEW f, Stored(f), NEW r, Ready(r), NEW may, NEW w, Boots(w, f, r, may)
  PROVE  Stored(w[1])
BY DEF Boots, Stored, Ready

\* What a boot from sector f, after n faults, leaves.
Booted(f, n, e) ==
  /\ Stored(flash') /\ Ready(record')
  /\ faults' \in {n, n + 1}
  /\ record' \in Starts(Decode(f)) \cup Starts(NoRecord)
  /\ Decode(flash') \in {Decode(f), NoRecord} \cup Starts(Decode(f)) \cup Starts(NoRecord)
  /\ faults' = n => record' \in Starts(Decode(f)) /\ Decode(flash') \in {Decode(f), record'}
  /\ published' = record' /\ unseen' = TRUE /\ ctrl' = <<>> /\ ack' = None /\ seed' = e
  /\ held' = FALSE

LEMMA StartsCompleted ==
  ASSUME NEW d, NEW e \in Entropies
  PROVE  /\ Completed(Read(d), e) \in Starts(d)
         /\ WithFlag(Completed(Read(d), e)) \in Starts(d)
BY DEF Starts, Read

LEMMA BootLeaves ==
  ASSUME NEW f, Stored(f), NEW n \in Nat, NEW e \in Entropies,
         NEW loaded \in Load(f, n < MaxFaults), Boot(f, n, e, loaded)
  PROVE  Booted(f, n, e)
<1>1. e \in Nat \ {0}
  BY StorageAssumption
<1>2. PICK may, own : may = (n < MaxFaults) /\ own = Completed(loaded[1], e)
  OBVIOUS
<1>3. Loaded(loaded, f, may)
  BY <1>2, LoadReads
<1>4. IsRecord(loaded[1]) /\ Sorted(loaded[1].roster)
  BY <1>3 DEF Loaded
<1>5. Ready(own)
  BY <1>1, <1>2, <1>4, CompletedIsReady
<1>6. PICK first, second, again, third :
             /\ first \in EnsureBoot(f, loaded[1], e, may)
             /\ second \in FlagProgramming(first[1], own, may)
             /\ again \in Load(second[1], may)
             /\ third \in EnsureBoot(second[1], again[1], e, may)
             /\ flash' = third[1]
             /\ record' = Completed(again[1], e)
             /\ faults' = n + (IF first[2] /\ second[2] /\ third[2] /\ loaded[2] /\ again[2]
                               THEN 0 ELSE 1)
  BY <1>2 DEF Boot
<1>7. /\ Boots(first, f, own, may)
      /\ first[2] = TRUE /\ Read(Decode(f)) = loaded[1] => Decode(first[1]) = own
  BY ZenonT(90), <1>1, <1>2, <1>4, <1>6, EnsureBootBoots
<1>8. Stored(first[1])
  BY <1>5, <1>7, BootStores
<1>9. /\ Boots(second, first[1], Flagged(own), may)
      /\ second[2] = TRUE /\ Decode(first[1]) = own => Decode(second[1]) = Flagged(own)
  BY <1>5, <1>6, <1>8, FlagProgrammingBoots
<1>10. Ready(Flagged(own)) /\ Flagged(own) \in {own, WithFlag(own)}
  BY <1>5, FlaggedIsReady
<1>11. Stored(second[1])
  BY <1>8, <1>9, <1>10, BootStores
<1>12. Loaded(again, second[1], may)
  BY <1>6, <1>11, LoadReads
<1>13. IsRecord(again[1]) /\ Sorted(again[1].roster)
  BY <1>12 DEF Loaded
<1>14. /\ Boots(third, second[1], record', may)
       /\ third[2] = TRUE /\ Read(Decode(second[1])) = again[1] => Decode(third[1]) = record'
  BY ZenonT(90), <1>1, <1>6, <1>11, <1>13, EnsureBootBoots
<1>15. Ready(record')
  BY <1>1, <1>6, <1>13, CompletedIsReady
<1>16. Stored(flash')
  BY <1>6, <1>11, <1>14, <1>15, BootStores
\* What each of the four may be.
<1>17. PICK d, S, N : d = Decode(f) /\ S = Starts(Decode(f)) /\ N = Starts(NoRecord)
  OBVIOUS
<1>18. /\ Completed(Read(d), e) \in S /\ WithFlag(Completed(Read(d), e)) \in S
       /\ Completed(DefaultRecord, e) \in N /\ WithFlag(Completed(DefaultRecord, e)) \in N
  <2>1. Read(NoRecord) = DefaultRecord
    BY DEF Read
  <2>2. /\ Completed(Read(d), e) \in S /\ WithFlag(Completed(Read(d), e)) \in S
    BY <1>17, StartsCompleted
  <2>3. /\ Completed(Read(NoRecord), e) \in N /\ WithFlag(Completed(Read(NoRecord), e)) \in N
    BY <1>17, StartsCompleted
  <2> QED
    BY <2>1, <2>2, <2>3
<1>19. loaded[1] = Read(d) \/ loaded[1] = DefaultRecord
  BY <1>3, <1>17 DEF Loaded, Read
<1>20. own \in S \cup N /\ WithFlag(own) \in S \cup N
  BY <1>2, <1>18, <1>19
<1>21. Decode(first[1]) \in {d, NoRecord, own}
  BY <1>7, <1>17 DEF Boots
<1>22. Decode(second[1]) \in {d, NoRecord, own, Flagged(own)}
  BY <1>9, <1>21 DEF Boots
<1>23. again[1] \in {DefaultRecord, Read(d), own, Flagged(own)}
  BY <1>12, <1>22 DEF Loaded, Read
<1>24. record' \in S \cup N
  <2>1. Completed(own, e) = own /\ Completed(Flagged(own), e) = Flagged(own)
    BY <1>1, <1>5, <1>10, ReadyStays
  <2> QED
    BY <1>6, <1>10, <1>18, <1>20, <1>23, <2>1
<1>25. Decode(flash') \in {d, NoRecord} \cup S \cup N
  <2>1. Decode(third[1]) \in {Decode(second[1]), NoRecord, record'}
    BY <1>14 DEF Boots
  <2> QED
    BY <1>6, <1>10, <1>20, <1>22, <1>24, <2>1
<1>26. faults' \in {n, n + 1}
  BY <1>6
<1>27. ASSUME faults' = n
       PROVE  record' \in S /\ Decode(flash') \in {d, record'}
  <2>1. first[2] = TRUE /\ second[2] = TRUE /\ third[2] = TRUE /\ loaded[2] = TRUE
        /\ again[2] = TRUE
    <3>1. first[2] /\ second[2] /\ third[2] /\ loaded[2] /\ again[2]
      BY <1>6, <1>27
    <3>2. /\ first[2] \in BOOLEAN /\ second[2] \in BOOLEAN /\ third[2] \in BOOLEAN
          /\ loaded[2] \in BOOLEAN /\ again[2] \in BOOLEAN
      BY <1>3, <1>7, <1>9, <1>12, <1>14 DEF Boots, Loaded
    <3> QED
      BY <3>1, <3>2
  <2>2. loaded[1] = Read(d)
    BY <1>3, <1>17, <2>1 DEF Loaded, Read
  <2>3. Decode(first[1]) = own
    BY <1>7, <1>17, <2>1, <2>2
  <2>4. Decode(second[1]) = Flagged(own)
    BY <1>9, <2>1, <2>3
  <2>5. Flagged(own) # NoRecord
    BY <1>10, RecordIsSome DEF Ready
  <2>6. again[1] = Flagged(own)
    BY <1>12, <2>1, <2>4, <2>5 DEF Loaded
  <2>7. record' = Flagged(own)
    BY <1>1, <1>6, <1>10, <2>6, ReadyStays
  <2>8. Decode(flash') = record'
    BY <1>6, <1>14, <2>1, <2>4, <2>5, <2>6 DEF Read
  <2>9. own = Completed(Read(d), e)
    BY <1>2, <2>2
  <2> QED
    BY <1>10, <1>18, <2>7, <2>8, <2>9
<1>28. /\ published' = record' /\ unseen' = TRUE /\ ctrl' = <<>> /\ ack' = None /\ seed' = e
       /\ held' = FALSE
  BY DEF Boot
<1> QED
  BY <1>15, <1>16, <1>17, <1>24, <1>25, <1>26, <1>27, <1>28 DEF Booted
-----------------------------------------------------------------------------
(* Steps.                                                                  *)

\* What a reset leaves of sector f after n faults.
Rebooted(f, n) ==
  /\ \E e \in Nat \ {0} : Booted(f, n, e)
  /\ mode' \in {"run", "prog"} /\ IsRecord(copy') /\ astray' = FALSE
  /\ dom' = "starting" /\ http' = "idle" /\ ui' = "idle" /\ snapshot' = NoRecord

LEMMA RebootLeaves ==
  ASSUME NEW f, Stored(f), NEW n \in Nat, Reboot(f, n)
  PROVE  Rebooted(f, n)
<1>1. PICK e \in Entropies, loaded \in Load(f, n < MaxFaults) :
         /\ Boot(f, n, e, loaded)
         /\ mode' \in {"run", "prog"}
         /\ copy' \in {[Completed(loaded[1], e) EXCEPT !.prog = TRUE], DefaultRecord}
         /\ astray' = FALSE
         /\ dom' = "starting" /\ http' = "idle" /\ ui' = "idle" /\ snapshot' = NoRecord
  BY DEF Reboot
<1>2. e \in Nat \ {0}
  BY StorageAssumption
<1>3. Booted(f, n, e)
  BY <1>1, BootLeaves
<1>4. IsRecord(loaded[1])
  BY LoadReads DEF Loaded
<1>5. PICK own : own = Completed(loaded[1], e)
  OBVIOUS
<1>6. IsRecord(own)
  BY <1>2, <1>4, <1>5, RecordCompleted
<1>7. PICK s : s = [own EXCEPT !.prog = TRUE]
  OBVIOUS
<1>8. IsRecord(s)
  BY <1>6, <1>7, RecordFlag
<1>9. IsRecord(copy')
  BY <1>1, <1>5, <1>7, <1>8, DefaultIsRecord
<1> QED
  BY <1>1, <1>2, <1>3, <1>9 DEF Rebooted

LEMMA RebootedInv ==
  ASSUME NEW f, NEW n \in Nat, Rebooted(f, n)
  PROVE  Inv'
<1>1. PICK e \in Nat \ {0} : Booted(f, n, e)
  BY DEF Rebooted
<1>2. /\ Stored(flash') /\ Ready(record') /\ faults' \in Nat
      /\ published' = record' /\ unseen' = TRUE /\ ctrl' = <<>> /\ ack' = None
      /\ seed' \in Nat \ {0} /\ held' = FALSE
  BY <1>1 DEF Booted
<1>3. /\ mode' \in {"run", "prog"} /\ IsRecord(copy')
      /\ dom' = "starting" /\ http' = "idle" /\ ui' = "idle" /\ snapshot' = NoRecord
  BY DEF Rebooted
<1>4. IsList(ctrl') /\ Len(ctrl') = 0 /\ DOMAIN ctrl' = {}
  BY <1>2, EmptyIsRoster, ListShape
<1>5. IsRecord(record') /\ Sorted(record'.roster) /\ Identified(record')
  BY <1>2 DEF Ready
<1>6. TypeOK'
  <2>1. Len(ctrl') <= CtrlDepth
    BY <1>4, StorageAssumption
  <2> QED
    BY <1>2, <1>3, <1>5, <2>1 DEF TypeOK
<1>7. DataInv'
  BY <1>2, <1>3, <1>4, <1>5, <1>6 DEF DataInv, Requests
<1>8. QuietInv'
  BY <1>2, <1>4, <1>5 DEF QuietInv, QuietAgrees
<1>9. PlacesInv'
  BY <1>3 DEF PlacesInv
<1>10. DomainWaits'
  BY <1>2, <1>3, <1>4 DEF DomainWaits
<1>11. ServerWaits'
  BY <1>2, <1>3 DEF ServerWaits
<1> QED
  BY <1>7, <1>8, <1>9, <1>10, <1>11 DEF Inv

\* Every reset is from the sector as it is, or a power cut, which may tear it.
Resets == PowerOn \/ PowerCut \/ EnterReset \/ Watchdog \/ ExitReset

ResetFrom(f, n) ==
  /\ Stored(f) /\ n \in Nat /\ Rebooted(f, n)
  /\ \/ f = flash /\ n = faults
     \/ (f = flash \/ Decode(f) = NoRecord) /\ n = faults + 1

LEMMA ResetsReboot ==
  ASSUME DataInv, Resets
  PROVE  \E f, n : ResetFrom(f, n)
<1>1. Stored(flash) /\ faults \in Nat /\ IsRecord(record)
  BY DEF DataInv, TypeOK
<1>2. CASE Reboot(flash, faults)
  <2>1. Rebooted(flash, faults)
    BY <1>1, <1>2, RebootLeaves
  <2> QED
    BY <1>1, <2>1 DEF ResetFrom
<1>3. CASE PowerCut
  <2>1. PICK f \in {flash} \cup (IF ctrl = <<>> \/ held THEN {}
                                 ELSE UNION {Torn(r) : r \in Applied(Head(ctrl), record)}) :
          Reboot(f, faults + 1)
    BY <1>3 DEF PowerCut
  <2>2. f = flash \/ Decode(f) = NoRecord
    <3>1. CASE f # flash
      <4>1. ctrl # <<>> /\ f \in UNION {Torn(r) : r \in Applied(Head(ctrl), record)}
        BY <2>1, <3>1
      <4>2. PICK r \in Applied(Head(ctrl), record) : f \in Torn(r)
        BY <4>1
      <4>3. IsRequest(Head(ctrl))
        <5>1. IsList(ctrl) /\ \A i \in DOMAIN ctrl : IsRequest(ctrl[i])
          BY DEF DataInv, Requests
        <5>2. Len(ctrl) \in Nat /\ DOMAIN ctrl = 1 .. Len(ctrl) /\ Len(ctrl) \in Nat \ {0}
          BY <4>1, <5>1, ListShape, TailIsList
        <5>3. Head(ctrl) = ctrl[1] /\ 1 \in DOMAIN ctrl
          BY <5>2
        <5> QED
          BY <5>1, <5>3
      <4>4. seed \in Nat \ {0}
        BY <1>3 DEF PowerCut, DataInv
      <4>5. IsRecord(r)
        BY <1>1, <4>2, <4>3, <4>4, AppliedMakesRecord
      <4> QED
        BY <4>2, <4>5, TornIsNone
    <3> QED
      BY <3>1
  <2>3. Stored(f) /\ faults + 1 \in Nat
    BY <1>1, <2>2 DEF Stored
  <2>4. Rebooted(f, faults + 1)
    BY <2>1, <2>3, RebootLeaves
  <2> QED
    BY <2>2, <2>3, <2>4 DEF ResetFrom
<1> QED
  BY <1>2, <1>3 DEF Resets, PowerOn, EnterReset, Watchdog, ExitReset, SoftwareReset

LEMMA ResetsKeep == ASSUME DataInv, Resets PROVE Inv'
<1>1. PICK f, n : ResetFrom(f, n)
  BY ResetsReboot
<1> QED
  BY <1>1, RebootedInv DEF ResetFrom

\* A request that is sent is the last of the channel; one that is not leaves it.
Sent(q) ==
  /\ IsList(ctrl') /\ Len(ctrl') \in Nat /\ DOMAIN ctrl' = 1 .. Len(ctrl')
  /\ Len(ctrl') = Len(ctrl) + 1 /\ DOMAIN ctrl = 1 .. Len(ctrl) /\ Len(ctrl) \in Nat
  /\ Len(ctrl) < CtrlDepth /\ ctrl' # ctrl /\ ctrl' # <<>>
  /\ \A i \in DOMAIN ctrl : ctrl'[i] = ctrl[i]
  /\ ctrl'[Len(ctrl')] = q
  /\ ctrl = <<>> => ctrl' = <<q>>

LEMMA SendSends ==
  ASSUME IsList(ctrl), NEW q, TrySend(q)
  PROVE  Sent(q) \/ (ctrl' = ctrl /\ ~(Len(ctrl) < CtrlDepth))
<1>1. CASE Len(ctrl) < CtrlDepth
  <2>1. ctrl' = Append(ctrl, q)
    BY <1>1 DEF TrySend
  <2>2. Len(ctrl) \in Nat /\ DOMAIN ctrl = 1 .. Len(ctrl)
    BY ListShape
  <2>3. /\ IsList(ctrl') /\ Len(ctrl') = Len(ctrl) + 1
        /\ \A i \in 1 .. Len(ctrl) : ctrl'[i] = ctrl[i]
        /\ ctrl'[Len(ctrl) + 1] = q
    BY <2>1, ListAppend
  <2>4. DOMAIN ctrl' = 1 .. Len(ctrl') /\ Len(ctrl') \in Nat
    BY <2>3, ListShape
  <2>5. ctrl' # ctrl /\ ctrl' # <<>>
    BY <2>2, <2>3, EmptyIsRoster
  <2>6. ctrl = <<>> => ctrl' = <<q>>
    <3>1. ASSUME ctrl = <<>> PROVE ctrl' = <<q>>
      <4>1. Append(<<>>, q) = <<q>>
        OBVIOUS
      <4> QED
        BY <2>1, <3>1, <4>1
    <3> QED
      BY <3>1
  <2> QED
    BY <1>1, <2>2, <2>3, <2>4, <2>5, <2>6 DEF Sent
<1>2. CASE ~(Len(ctrl) < CtrlDepth)
  BY <1>2 DEF TrySend
<1> QED
  BY <1>1, <1>2

\* The storage task takes the first request.
Taken ==
  /\ IsList(ctrl') /\ Len(ctrl') \in Nat /\ DOMAIN ctrl' = 1 .. Len(ctrl')
  /\ Len(ctrl) = Len(ctrl') + 1 /\ DOMAIN ctrl = 1 .. Len(ctrl)
  /\ Head(ctrl) = ctrl[1]
  /\ \A i \in DOMAIN ctrl' : i + 1 \in DOMAIN ctrl /\ ctrl'[i] = ctrl[i + 1]

LEMMA TaskTakes ==
  ASSUME IsList(ctrl), ctrl # <<>>, ctrl' = Tail(ctrl)
  PROVE  Taken
<1>1. Len(ctrl) \in Nat \ {0} /\ DOMAIN ctrl = 1 .. Len(ctrl)
  BY ListShape, TailIsList
<1>2. /\ IsList(ctrl') /\ Len(ctrl') = Len(ctrl) - 1
      /\ \A i \in 1 .. Len(ctrl) - 1 : ctrl'[i] = ctrl[i + 1]
  BY TailIsList
<1>3. DOMAIN ctrl' = 1 .. Len(ctrl') /\ Len(ctrl') \in Nat
  BY <1>2, ListShape
<1>4. Head(ctrl) = ctrl[1]
  BY <1>1
<1>5. \A i \in DOMAIN ctrl' : i + 1 \in DOMAIN ctrl /\ ctrl'[i] = ctrl[i + 1]
  BY <1>1, <1>2, <1>3
<1> QED
  BY <1>1, <1>2, <1>3, <1>4, <1>5 DEF Taken

\* What handling a request leaves: r was made of it, and w written.
Handled(r, w) ==
  /\ Taken /\ IsRequest(ctrl[1]) /\ r \in Applied(ctrl[1], record)
  /\ IsRecord(r) /\ Identified(r) /\ Wrote(w, flash, r, faults < MaxFaults)
  /\ record' = r /\ published' = r /\ unseen' = TRUE /\ flash' = w[1]
  /\ faults' = faults + (IF w[2] THEN 0 ELSE 1)
  /\ ack' = (IF WantsAck(ctrl[1]) THEN w[2] ELSE ack)
  /\ UNCHANGED <<seed, held, mode, copy, astray, dom, http, ui, snapshot, slots, active,
                 counters>>
  /\ mode # "off" /\ ctrl # <<>> /\ seed \in Nat \ {0}

LEMMA StepHandles ==
  ASSUME DataInv, StorageStep
  PROVE  \E r, w : Handled(r, w)
<1>1. /\ mode # "off" /\ ctrl # <<>> /\ ctrl' = Tail(ctrl) /\ Handle(Head(ctrl))
      /\ UNCHANGED <<seed, held, mode, copy, astray, dom, http, ui, snapshot, slots, active,
                     counters>>
  BY DEF StorageStep, StorageTask, taskVars
<1>2. /\ IsRecord(record) /\ IsList(ctrl) /\ \A i \in DOMAIN ctrl : IsRequest(ctrl[i])
      /\ seed \in Nat \ {0} /\ Identified(record)
  BY <1>1 DEF DataInv, TypeOK, Requests
<1>3. Taken
  BY <1>1, <1>2, TaskTakes
<1>4. Head(ctrl) = ctrl[1] /\ IsRequest(ctrl[1])
  <2>1. 1 \in DOMAIN ctrl /\ Head(ctrl) = ctrl[1]
    BY <1>3 DEF Taken
  <2> QED
    BY <1>2, <2>1
<1>5. PICK r \in Applied(ctrl[1], record), w \in Persist(flash, record', faults < MaxFaults) :
        /\ record' = r /\ flash' = w[1]
        /\ faults' = faults + (IF w[2] THEN 0 ELSE 1)
        /\ published' = r /\ unseen' = TRUE
        /\ ack' = IF WantsAck(ctrl[1]) THEN w[2] ELSE ack
  BY <1>1, <1>4 DEF Handle
<1>6. IsRecord(r) /\ Identified(r)
  BY <1>2, <1>4, <1>5, AppliedMakesRecord
<1>7. Wrote(w, flash, r, faults < MaxFaults)
  BY <1>5, <1>6, PersistWrites
<1> QED
  BY <1>1, <1>2, <1>3, <1>4, <1>5, <1>6, <1>7 DEF Handled
-----------------------------------------------------------------------------
(* The data of every step.                                                 *)

\* The steps that are neither a reset nor one of the storage task.
Sends ==
  \/ EnterProgrammingMode \/ ProgrammingModeOff \/ PairingUiExit
  \/ \E request \in Asks : Ask(request)
  \/ \E put \in Puts : HandleSettingsPut(put)
Others ==
  \/ ApplyPersist \/ EnterAcked \/ SyncPersist \/ PutAcked \/ HttpExitAcked \/ UiExitAcked
  \/ FirmwareBegins \/ WriteSector \/ FirmwareFails \/ FirmwareDone

LEMMA NextIs == Next => Resets \/ StorageStep \/ Sends \/ Others
BY DEF Next, Resets, Sends, Others

LEMMA RequestsSent ==
  ASSUME Requests, Len(ctrl) <= CtrlDepth, NEW q, IsRequest(q), TrySend(q) \/ ctrl' = ctrl
  PROVE  Requests' /\ Len(ctrl') <= CtrlDepth
<1>1. IsList(ctrl) /\ \A i \in DOMAIN ctrl : IsRequest(ctrl[i])
  BY DEF Requests
<1>2. CASE ctrl' = ctrl
  BY <1>1, <1>2 DEF Requests
<1>3. CASE Sent(q)
  <2>1. CtrlDepth \in Nat
    BY StorageAssumption
  <2>2. Len(ctrl') <= CtrlDepth
    BY <1>3, <2>1 DEF Sent
  <2>3. ASSUME NEW i \in DOMAIN ctrl' PROVE IsRequest(ctrl'[i])
    <3>1. i \in DOMAIN ctrl \/ i = Len(ctrl')
      BY <1>3 DEF Sent
    <3> QED
      BY <1>1, <1>3, <3>1 DEF Sent
  <2> QED
    BY <1>3, <2>2, <2>3 DEF Sent, Requests
<1> QED
  BY <1>1, <1>2, <1>3, SendSends

\* What the tasks send.
LEMMA TheirRequests ==
  /\ IsRequest(<<"prog", TRUE>>) /\ IsRequest(<<"prog", FALSE>>)
  /\ \A r : IsRecord(r) => IsRequest(<<"replace", r>>)
BY DEF IsRequest

LEMMA TouchedIsRecord ==
  ASSUME NEW r, IsRecord(r), NEW request, IsRequest(request), seed \in Nat \ {0}
  PROVE  IsRecord(Touched(request, r))
<1>1. CASE request[1] \in {"device", "language", "mode", "code", "server"}
  <2>1. Applied(request, r) # {}
    BY <1>1 DEF Applied
  <2>2. Touched(request, r) \in Applied(request, r)
    BY <1>1, <2>1 DEF Touched
  <2> QED
    BY <2>2, AppliedMakesRecord
<1>2. CASE request[1] \notin {"device", "language", "mode", "code", "server"}
  BY <1>2 DEF Touched
<1> QED
  BY <1>1, <1>2

LEMMA HandledData == ASSUME DataInv, NEW r, NEW w, Handled(r, w) PROVE DataInv'
<1>1. Stored(flash') /\ w[2] \in BOOLEAN
  BY WroteStores DEF DataInv, Handled
<1>2. Requests' /\ Len(ctrl') <= CtrlDepth
  <2>1. Len(ctrl) <= CtrlDepth /\ \A i \in DOMAIN ctrl : IsRequest(ctrl[i])
    BY DEF DataInv, TypeOK, Requests
  <2>2. CtrlDepth \in Nat
    BY StorageAssumption
  <2>3. Len(ctrl') <= CtrlDepth
    BY <2>1, <2>2 DEF Handled, Taken
  <2>4. \A i \in DOMAIN ctrl' : IsRequest(ctrl'[i])
    BY <2>1 DEF Handled, Taken
  <2> QED
    BY <2>3, <2>4 DEF Handled, Taken, Requests
<1>3. ack' \in {None, TRUE, FALSE}
  BY <1>1 DEF Handled, DataInv, TypeOK
<1>4. faults' \in Nat
  BY DEF Handled, DataInv
<1>5. TypeOK'
  BY <1>2, <1>3 DEF Handled, DataInv, TypeOK
<1> QED
  BY <1>1, <1>2, <1>4, <1>5 DEF Handled, DataInv


LEMMA SendsData == ASSUME DataInv, PlacesInv, Sends PROVE DataInv'
<1>1. /\ Requests /\ Len(ctrl) <= CtrlDepth /\ Stored(flash) /\ faults \in Nat
      /\ IsRecord(record) /\ IsRecord(copy) /\ IsRecord(published)
      /\ ack \in {None, TRUE, FALSE} /\ unseen \in BOOLEAN /\ held \in BOOLEAN
      /\ mode # "off" => seed \in Nat \ {0} /\ Identified(record)
  BY DEF DataInv, TypeOK
<1>2. CASE EnterProgrammingMode
  <2>1. TrySend(<<"prog", TRUE>>)
    BY <1>2 DEF EnterProgrammingMode
  <2>2. Requests' /\ Len(ctrl') <= CtrlDepth
    BY <1>1, <2>1, TheirRequests, RequestsSent
  <2>3. TypeOK'
    BY <1>1, <1>2, <2>2 DEF EnterProgrammingMode, DataInv, TypeOK, counters
  <2> QED
    BY <1>1, <1>2, <2>2, <2>3 DEF EnterProgrammingMode, DataInv, counters
<1>3. CASE ProgrammingModeOff
  <2>1. TrySend(<<"prog", FALSE>>)
    BY <1>3 DEF ProgrammingModeOff
  <2>2. Requests' /\ Len(ctrl') <= CtrlDepth
    BY <1>1, <2>1, TheirRequests, RequestsSent
  <2>3. TypeOK'
    BY <1>1, <1>3, <2>2 DEF ProgrammingModeOff, DataInv, TypeOK, counters
  <2> QED
    BY <1>1, <1>3, <2>2, <2>3 DEF ProgrammingModeOff, DataInv, counters
<1>4. CASE PairingUiExit
  <2>1. TrySend(<<"prog", FALSE>>)
    BY <1>4 DEF PairingUiExit
  <2>2. Requests' /\ Len(ctrl') <= CtrlDepth
    BY <1>1, <2>1, TheirRequests, RequestsSent
  <2>3. TypeOK'
    BY <1>1, <1>4, <2>2 DEF PairingUiExit, DataInv, TypeOK, counters
  <2> QED
    BY <1>1, <1>4, <2>2, <2>3 DEF PairingUiExit, DataInv, counters
<1>5. CASE \E request \in Asks : Ask(request)
  <2>1. PICK request \in Asks : Ask(request)
    BY <1>5
  <2>2. IsRequest(request) /\ seed \in Nat \ {0} /\ TrySend(request)
    BY <1>1, <2>1, ProvisioningAssumption DEF Ask
  <2>3. Requests' /\ Len(ctrl') <= CtrlDepth
    BY <1>1, <2>2, RequestsSent
  <2>4. IsRecord(copy')
    BY <1>1, <2>1, <2>2, TouchedIsRecord DEF Ask
  <2>5. TypeOK'
    BY <1>1, <2>1, <2>3, <2>4 DEF Ask, DataInv, TypeOK
  <2> QED
    BY <1>1, <2>1, <2>3, <2>5 DEF Ask, DataInv
<1>6. CASE \E put \in Puts : HandleSettingsPut(put)
  <2>1. PICK put \in Puts : HandleSettingsPut(put)
    BY <1>6
  <2>2. PICK applied : applied = ApplySettingsPut(copy, put)
    OBVIOUS
  <2>3. IsRecord(applied.rec)
    BY <1>1, <2>2, ProvisioningAssumption, SettingsMakeRecord
  <2>4. /\ mode = "prog" /\ http = "idle" /\ copy' = applied.rec
        /\ ctrl' = ctrl \/ TrySend(<<"replace", applied.rec>>)
        /\ IF ctrl' = ctrl THEN UNCHANGED <<http, snapshot>>
           ELSE http' = "put" /\ snapshot' = applied.rec
        /\ UNCHANGED <<flash, record, published, unseen, ack, seed, held, faults, mode, dom, ui>>
    BY <2>1, <2>2 DEF HandleSettingsPut
  <2>5. Requests' /\ Len(ctrl') <= CtrlDepth
    BY <1>1, <2>3, <2>4, TheirRequests, RequestsSent
  <2>6. applied.rec # NoRecord
    BY <2>3, RecordIsSome
  <2>7. TypeOK'
    BY <1>1, <2>3, <2>4, <2>5, <2>6 DEF DataInv, TypeOK
  <2> QED
    BY <1>1, <2>3, <2>4, <2>5, <2>7 DEF DataInv
<1> QED
  BY <1>2, <1>3, <1>4, <1>5, <1>6 DEF Sends

LEMMA OthersData == ASSUME DataInv, PlacesInv, Others PROVE DataInv'
<1>1. /\ Requests /\ Len(ctrl) <= CtrlDepth /\ Stored(flash) /\ faults \in Nat
      /\ IsRecord(record) /\ IsRecord(copy) /\ IsRecord(published)
      /\ ack \in {None, TRUE, FALSE} /\ unseen \in BOOLEAN /\ held \in BOOLEAN
      /\ mode # "off" => seed \in Nat \ {0} /\ Identified(record)
  BY DEF DataInv, TypeOK
<1>2. Requests' <=> (IsList(ctrl') /\ \A i \in DOMAIN ctrl' : IsRequest(ctrl'[i]))
  BY DEF Requests
<1>3. IsList(ctrl) /\ \A i \in DOMAIN ctrl : IsRequest(ctrl[i])
  BY <1>1 DEF Requests
<1>4. CASE ApplyPersist
  <2>0. IsRecord(Tidy(published))
    BY <1>1, RecordTidy
  <2>1. ctrl' = ctrl /\ flash' = flash /\ faults' = faults /\ seed' = seed /\ mode' = mode
        /\ record' = record /\ published' = published
    BY <1>4 DEF ApplyPersist, counters
  <2>2. TypeOK'
    BY <1>1, <1>4, <2>0, <2>1 DEF ApplyPersist, counters, DataInv, TypeOK
  <2>3. http' = "put" => http = "put" /\ snapshot' = snapshot
    BY <1>4 DEF ApplyPersist, counters
  <2> QED
    BY <1>1, <1>2, <1>3, <2>1, <2>2, <2>3 DEF DataInv
<1>5. CASE EnterAcked
  <2>1. ctrl' = ctrl /\ flash' = flash /\ faults' = faults /\ seed' = seed /\ mode' = mode
        /\ record' = record /\ published' = published
    BY <1>5 DEF EnterAcked, counters
  <2>2. TypeOK'
    BY <1>1, <1>5, <2>1 DEF EnterAcked, counters, DataInv, TypeOK
  <2>3. http' = "put" => http = "put" /\ snapshot' = snapshot
    BY <1>5 DEF EnterAcked, counters
  <2> QED
    BY <1>1, <1>2, <1>3, <2>1, <2>2, <2>3 DEF DataInv
<1>6. CASE SyncPersist
  <2>1. ctrl' = ctrl /\ flash' = flash /\ faults' = faults /\ seed' = seed /\ mode' = mode
        /\ record' = record /\ published' = published
    BY <1>6 DEF SyncPersist, counters
  <2>2. TypeOK'
    BY <1>1, <1>6, <2>1 DEF SyncPersist, counters, DataInv, TypeOK
  <2>3. http' = "put" => http = "put" /\ snapshot' = snapshot
    BY <1>6 DEF SyncPersist, counters
  <2> QED
    BY <1>1, <1>2, <1>3, <2>1, <2>2, <2>3 DEF DataInv
<1>7. CASE PutAcked
  <2>1. ctrl' = ctrl /\ flash' = flash /\ faults' = faults /\ seed' = seed /\ mode' = mode
        /\ record' = record /\ published' = published
    BY <1>7 DEF PutAcked, counters
  <2>2. TypeOK'
    BY <1>1, <1>7, <2>1 DEF PutAcked, counters, DataInv, TypeOK
  <2>3. http' = "put" => http = "put" /\ snapshot' = snapshot
    BY <1>7 DEF PutAcked, counters
  <2> QED
    BY <1>1, <1>2, <1>3, <2>1, <2>2, <2>3 DEF DataInv
<1>8. CASE HttpExitAcked
  <2>1. ctrl' = ctrl /\ flash' = flash /\ faults' = faults /\ seed' = seed /\ mode' = mode
        /\ record' = record /\ published' = published
    BY <1>8 DEF HttpExitAcked, counters
  <2>2. TypeOK'
    BY <1>1, <1>8, <2>1 DEF HttpExitAcked, counters, DataInv, TypeOK
  <2>3. http' = "put" => http = "put" /\ snapshot' = snapshot
    BY <1>8 DEF HttpExitAcked, counters
  <2> QED
    BY <1>1, <1>2, <1>3, <2>1, <2>2, <2>3 DEF DataInv
<1>9. CASE UiExitAcked
  <2>1. ctrl' = ctrl /\ flash' = flash /\ faults' = faults /\ seed' = seed /\ mode' = mode
        /\ record' = record /\ published' = published
    BY <1>9 DEF UiExitAcked, counters
  <2>2. TypeOK'
    BY <1>1, <1>9, <2>1 DEF UiExitAcked, counters, DataInv, TypeOK
  <2>3. http' = "put" => http = "put" /\ snapshot' = snapshot
    BY <1>9 DEF UiExitAcked, counters
  <2> QED
    BY <1>1, <1>2, <1>3, <2>1, <2>2, <2>3 DEF DataInv
<1>10. CASE FirmwareBegins
  <2>1. ctrl' = ctrl /\ flash' = flash /\ faults' = faults /\ seed' = seed /\ mode' = mode
        /\ record' = record /\ published' = published
    BY <1>10 DEF FirmwareBegins, counters
  <2>2. TypeOK'
    BY <1>1, <1>10, <2>1 DEF FirmwareBegins, counters, DataInv, TypeOK
  <2>3. http' = "put" => http = "put" /\ snapshot' = snapshot
    BY <1>10 DEF FirmwareBegins, counters
  <2> QED
    BY <1>1, <1>2, <1>3, <2>1, <2>2, <2>3 DEF DataInv
<1>11. CASE WriteSector
  <2>1. ctrl' = ctrl /\ flash' = flash /\ faults' = faults /\ seed' = seed /\ mode' = mode
        /\ record' = record /\ published' = published
    BY <1>11 DEF WriteSector, storageVars, counters
  <2>2. TypeOK'
    BY <1>1, <1>11, <2>1 DEF WriteSector, storageVars, counters, DataInv, TypeOK
  <2>3. http' = "put" => http = "put" /\ snapshot' = snapshot
    BY <1>11 DEF WriteSector, storageVars, counters
  <2> QED
    BY <1>1, <1>2, <1>3, <2>1, <2>2, <2>3 DEF DataInv
<1>12. CASE FirmwareFails
  <2>1. ctrl' = ctrl /\ flash' = flash /\ faults' = faults /\ seed' = seed /\ mode' = mode
        /\ record' = record /\ published' = published
    BY <1>12 DEF FirmwareFails, counters
  <2>2. TypeOK'
    BY <1>1, <1>12, <2>1 DEF FirmwareFails, counters, DataInv, TypeOK
  <2>3. http' = "put" => http = "put" /\ snapshot' = snapshot
    BY <1>12 DEF FirmwareFails, counters
  <2> QED
    BY <1>1, <1>2, <1>3, <2>1, <2>2, <2>3 DEF DataInv
<1>13. CASE FirmwareDone
  <2>1. ctrl' = ctrl /\ flash' = flash /\ faults' = faults /\ seed' = seed /\ mode' = mode
        /\ record' = record /\ published' = published
    BY <1>13 DEF FirmwareDone, counters
  <2>2. TypeOK'
    BY <1>1, <1>13, <2>1 DEF FirmwareDone, counters, DataInv, TypeOK
  <2>3. http' = "put" => http = "put" /\ snapshot' = snapshot
    BY <1>13 DEF FirmwareDone, counters
  <2> QED
    BY <1>1, <1>2, <1>3, <2>1, <2>2, <2>3 DEF DataInv
<1> QED
  BY <1>4, <1>5, <1>6, <1>7, <1>8, <1>9, <1>10, <1>11, <1>12, <1>13 DEF Others
-----------------------------------------------------------------------------
(* The record is the same everywhere when all is quiet.                    *)

\* Only a settings request brings a roster.
LEMMA AppliedSorts ==
  ASSUME NEW r, IsRecord(r), Sorted(r.roster), NEW request, IsRequest(request),
         request[1] # "replace", seed \in Nat \ {0}, NEW s \in Applied(request, r)
  PROVE  Sorted(s.roster)
<1>1. PICK kind, value : kind = request[1] /\ value = request[2]
  OBVIOUS
<1>2. "roster" \in FieldNames
  BY DEF FieldNames
<1>3. DOMAIN r = FieldNames
  BY RecordShape
<1>4. CASE kind = "password"
  <2>1. s = SetPassword(r, value[1], value[2])
    BY <1>1, <1>4 DEF Applied
  <2>2. s["roster"] = r["roster"]
    BY <1>2, <2>1, SetPasswordKeeps DEF SameBut
  <2> QED
    BY <2>2
<1>5. CASE kind \in {"locos", "network", "mode", "code", "server", "prog"}
  <2>1. s = [r EXCEPT ![kind] = value]
    BY <1>1, <1>5 DEF Applied
  <2>2. s["roster"] = r["roster"]
    BY <1>2, <1>3, <1>5, <2>1
  <2> QED
    BY <2>2
<1>6. CASE kind = "device"
  <2>1. s = [[r EXCEPT !["name"] = value[1]] EXCEPT !["id"] = value[2]]
    BY <1>1, <1>6 DEF Applied
  <2>2. s["roster"] = r["roster"]
    BY <1>2, <1>3, <2>1
  <2> QED
    BY <2>2
<1>7. CASE kind = "regenerate"
  <2>1. PICK e : s = [r EXCEPT !["id"] = e]
    BY <1>1, <1>7 DEF Applied
  <2>2. s["roster"] = r["roster"]
    BY <1>2, <1>3, <2>1
  <2> QED
    BY <2>2
<1>8. CASE kind = "language"
  <2>1. s = [[r EXCEPT !["lang"] = value] EXCEPT !["chosen"] = TRUE]
    BY <1>1, <1>8 DEF Applied
  <2>2. s["roster"] = r["roster"]
    BY <1>2, <1>3, <2>1
  <2> QED
    BY <2>2
<1>9. CASE kind = "clear"
  <2>1. s = Completed(DefaultRecord, seed)
    BY <1>1, <1>9 DEF Applied
  <2>2. s["roster"] = DefaultRecord["roster"]
    BY <1>2, <2>1, DefaultIsRecord, CompletedKeeps
  <2> QED
    BY <2>2, DefaultIsRecord
<1> QED
  BY <1>1, <1>4, <1>5, <1>6, <1>7, <1>8, <1>9 DEF IsRequest

LEMMA HandledQuiet == ASSUME DataInv, QuietInv, NEW r, NEW w, Handled(r, w) PROVE QuietInv'
<1>1. published' = record' /\ QuietAgrees'
  BY DEF Handled, QuietAgrees
<1>2. ASSUME mode' = "run"
      PROVE  Sorted(record'.roster) /\ \A i \in DOMAIN ctrl' : ctrl'[i][1] # "replace"
  <2>1. Sorted(record.roster) /\ \A i \in DOMAIN ctrl : ctrl[i][1] # "replace"
    BY <1>2 DEF QuietInv, Handled
  <2>2. 1 \in DOMAIN ctrl
    BY DEF Handled, Taken
  <2>3. Sorted(r.roster)
    BY <2>1, <2>2, AppliedSorts DEF Handled, DataInv, TypeOK
  <2>4. \A i \in DOMAIN ctrl' : ctrl'[i][1] # "replace"
    BY <2>1 DEF Handled, Taken
  <2> QED
    BY <2>3, <2>4 DEF Handled
<1> QED
  BY <1>1, <1>2 DEF QuietInv

\* A change that is not sent is known to be astray.
LEMMA SentQuiet ==
  ASSUME DataInv, QuietInv, NEW q, mode = "run" => q[1] # "replace",
         TrySend(q) \/ ctrl' = ctrl,
         ~astray' => ~astray /\ (ctrl' = ctrl => copy' = copy),
         UNCHANGED <<record, published, unseen, mode>>
  PROVE  QuietInv'
<1>1. IsList(ctrl)
  BY DEF DataInv, Requests
<1>2. CASE ctrl' = ctrl
  BY <1>2 DEF QuietInv, QuietAgrees
<1>3. CASE Sent(q)
  <2>1. QuietAgrees'
    BY <1>3 DEF Sent, QuietAgrees
  <2>2. ASSUME mode = "run", NEW i \in DOMAIN ctrl' PROVE ctrl'[i][1] # "replace"
    <3>1. i \in DOMAIN ctrl \/ i = Len(ctrl')
      BY <1>3 DEF Sent
    <3> QED
      BY <1>3, <2>2, <3>1 DEF Sent, QuietInv
  <2> QED
    BY <2>1, <2>2 DEF QuietInv
<1> QED
  BY <1>1, <1>2, <1>3, SendSends

LEMMA SendsQuiet == ASSUME DataInv, QuietInv, Sends PROVE QuietInv'
<1>1. CASE EnterProgrammingMode
  BY <1>1, SentQuiet DEF EnterProgrammingMode, counters
<1>2. CASE ProgrammingModeOff
  BY <1>2, SentQuiet DEF ProgrammingModeOff, counters
<1>3. CASE PairingUiExit
  BY <1>3, SentQuiet DEF PairingUiExit, counters
<1>4. CASE \E request \in Asks : Ask(request)
  <2>1. PICK request \in Asks : Ask(request)
    BY <1>4
  <2>2. request[1] # "replace"
    BY ProvisioningAssumption DEF WantsAck
  <2>3. /\ TrySend(request) /\ UNCHANGED <<record, published, unseen, mode>>
        /\ ~astray' => ~astray /\ (ctrl' = ctrl => copy' = copy)
    BY <2>1 DEF Ask
  <2> QED
    BY <2>2, <2>3, SentQuiet
<1>5. CASE \E put \in Puts : HandleSettingsPut(put)
  <2>1. PICK put \in Puts : HandleSettingsPut(put)
    BY <1>5
  <2>2. PICK q : q = <<"replace", ApplySettingsPut(copy, put).rec>>
    OBVIOUS
  <2>3. /\ mode = "prog"
        /\ TrySend(q) \/ ctrl' = ctrl
        /\ UNCHANGED <<record, published, unseen, mode>>
        /\ ~astray' => ~astray /\ (ctrl' = ctrl => copy' = copy)
    BY <2>1, <2>2 DEF HandleSettingsPut
  <2> QED
    BY <2>3, SentQuiet
<1> QED
  BY <1>1, <1>2, <1>3, <1>4, <1>5 DEF Sends

LEMMA OthersQuiet == ASSUME DataInv, QuietInv, Others PROVE QuietInv'
<1>1. CASE ApplyPersist
  <2>1. mode = "run" /\ IsRecord(record) /\ Sorted(record.roster) /\ published = record
    BY <1>1 DEF ApplyPersist, QuietInv, DataInv, TypeOK
  <2>2. copy' = record
    BY <1>1, <2>1, RecordTidy DEF ApplyPersist
  <2> QED
    BY <1>1, <2>1, <2>2 DEF ApplyPersist, QuietInv, QuietAgrees, counters
<1>2. CASE SyncPersist
  BY <1>2 DEF SyncPersist, QuietInv, QuietAgrees, counters
<1>3. CASE EnterAcked \/ PutAcked \/ HttpExitAcked \/ UiExitAcked \/ FirmwareBegins
           \/ WriteSector \/ FirmwareFails \/ FirmwareDone
  <2>1. UNCHANGED <<record, published, ctrl, unseen, mode, copy, astray>>
    BY <1>3 DEF EnterAcked, PutAcked, HttpExitAcked, UiExitAcked, FirmwareBegins, WriteSector,
       FirmwareFails, FirmwareDone, counters, storageVars
  <2> QED
    BY <2>1 DEF QuietInv, QuietAgrees
<1> QED
  BY <1>1, <1>2, <1>3 DEF Others

-----------------------------------------------------------------------------
(* Who waits for an answer.                                                *)

LEMMA PlacesStep == ASSUME PlacesInv, Sends \/ Others \/ StorageStep PROVE PlacesInv'
<1>1. CASE StorageStep
  BY <1>1 DEF StorageStep, StorageTask, taskVars, PlacesInv
<1>2. CASE EnterProgrammingMode \/ ProgrammingModeOff \/ PairingUiExit
  BY <1>2 DEF EnterProgrammingMode, ProgrammingModeOff, PairingUiExit, counters, PlacesInv
<1>3. CASE \E request \in Asks : Ask(request)
  BY <1>3 DEF Ask, PlacesInv
<1>4. CASE \E put \in Puts : HandleSettingsPut(put)
  <2>1. /\ mode = "prog" /\ http' \in {http, "put"}
        /\ UNCHANGED <<mode, dom, ui>>
    BY <1>4 DEF HandleSettingsPut
  <2> QED
    BY <2>1 DEF PlacesInv
<1>5. CASE ApplyPersist \/ EnterAcked \/ SyncPersist \/ PutAcked
  BY <1>5 DEF ApplyPersist, EnterAcked, SyncPersist, PutAcked, counters, PlacesInv
<1>6. CASE HttpExitAcked \/ UiExitAcked
  BY <1>6 DEF HttpExitAcked, UiExitAcked, counters, PlacesInv
<1>7. CASE FirmwareBegins \/ WriteSector \/ FirmwareFails \/ FirmwareDone
  BY <1>7 DEF FirmwareBegins, WriteSector, FirmwareFails, FirmwareDone, counters, PlacesInv
<1> QED
  BY <1>1, <1>2, <1>3, <1>4, <1>5, <1>6, <1>7 DEF Sends, Others
LEMMA EmptyWhenNone == ASSUME NEW s, IsList(s), Len(s) = 0 PROVE s = <<>>
<1>1. \A i \in 1 .. Len(s) : s[i] = <<>>[i]
  OBVIOUS
<1> QED
  BY <1>1, EmptyIsRoster, ListEqual

\* A write that is done with the flag in the record leaves it on flash.
LEMMA FlagWritten ==
  ASSUME NEW r, IsRecord(r), NEW f, f = Tidy(r), r.prog = TRUE
  PROVE  f # NoRecord /\ f.prog
<1>1. IsRecord(f) /\ f["prog"] = r["prog"]
  BY RecordTidy DEF FieldNames
<1> QED
  BY <1>1, RecordIsSome

LEMMA HandledDomain ==
  ASSUME DataInv, DomainWaits, NEW r, NEW w, Handled(r, w)
  PROVE  DomainWaits'
<1>1. /\ UNCHANGED <<dom, mode>> /\ ctrl # <<>> /\ IsList(ctrl') /\ Len(ctrl') \in Nat
      /\ DOMAIN ctrl' = 1 .. Len(ctrl') /\ Len(ctrl) = Len(ctrl') + 1
      /\ 1 \in DOMAIN ctrl
      /\ \A i \in DOMAIN ctrl' : i + 1 \in DOMAIN ctrl /\ ctrl'[i] = ctrl[i + 1]
      /\ ack' = (IF WantsAck(ctrl[1]) THEN w[2] ELSE ack)
  BY DEF Handled, Taken
<1>2. CASE dom \in {"starting", "running"}
  BY <1>1, <1>2 DEF DomainWaits
<1>3. CASE dom = "waiting"
  <2>1. /\ ack = None
        /\ \A i \in DOMAIN ctrl :
             WantsAck(ctrl[i]) => i = Len(ctrl) /\ ctrl[i] = <<"prog", TRUE>>
    BY <1>1, <1>3 DEF DomainWaits
  <2>2. CASE WantsAck(ctrl[1])
    <3>1. Len(ctrl) = 1 /\ ctrl[1] = <<"prog", TRUE>>
      BY <1>1, <2>1, <2>2
    <3>2. ctrl' = <<>>
      <4>1. PICK k \in Nat : k = Len(ctrl') /\ 1 = k + 1
        BY <1>1, <3>1
      <4>2. k = 0
        BY <4>1
      <4> QED
        BY <1>1, <4>1, <4>2, EmptyWhenNone
    <3>3. r = [record EXCEPT !.prog = TRUE]
      BY <3>1 DEF Handled, Applied
    <3>4. r.prog = TRUE /\ IsRecord(r)
      BY <3>3, RecordFlag DEF DataInv, TypeOK, Handled
    <3>5. w[2] \in BOOLEAN /\ (w[2] = TRUE => Decode(flash') = Tidy(r))
      BY DEF Handled, Wrote
    <3>6. ack' \in BOOLEAN /\ (ack' = TRUE => FlagOnFlash')
      BY <1>1, <2>2, <3>4, <3>5, FlagWritten DEF FlagOnFlash
    <3> QED
      BY <1>1, <1>3, <3>2, <3>6 DEF DomainWaits
  <2>3. CASE ~WantsAck(ctrl[1])
    <3>1. ack' = None
      BY <1>1, <2>1, <2>3
    <3>2. ASSUME NEW i \in DOMAIN ctrl', WantsAck(ctrl'[i])
          PROVE  i = Len(ctrl') /\ ctrl'[i] = <<"prog", TRUE>>
      <4>1. i + 1 = Len(ctrl) /\ ctrl'[i] = <<"prog", TRUE>>
        BY <1>1, <2>1, <3>2
      <4> QED
        BY <1>1, <4>1
    <3> QED
      BY <1>1, <1>3, <3>1, <3>2 DEF DomainWaits
  <2> QED
    BY <2>2, <2>3
<1>4. CASE dom = "leaving"
  BY <1>1, <1>4 DEF DomainWaits
<1> QED
  BY <1>2, <1>3, <1>4 DEF DataInv, TypeOK

LEMMA SendsDomain == ASSUME DataInv, PlacesInv, DomainWaits, Sends PROVE DomainWaits'
<1>1. IsList(ctrl)
  BY DEF DataInv, Requests
<1>2. CASE EnterProgrammingMode
  <2>1. PICK q : q = <<"prog", TRUE>>
    OBVIOUS
  <2>2. /\ mode = "run" /\ dom = "running" /\ dom' = "waiting" /\ ack' = ack /\ TrySend(q)
    BY <1>2, <2>1 DEF EnterProgrammingMode
  <2>3. ack = None /\ \A i \in DOMAIN ctrl : ~WantsAck(ctrl[i])
    BY <2>2 DEF DomainWaits
  <2>4. ASSUME NEW i \in DOMAIN ctrl', WantsAck(ctrl'[i])
        PROVE  i = Len(ctrl') /\ ctrl'[i] = q
    <3>1. Sent(q)
      BY <1>1, <2>2, <2>3, <2>4, SendSends
    <3>2. i \in DOMAIN ctrl \/ i = Len(ctrl')
      BY <3>1 DEF Sent
    <3> QED
      BY <2>3, <2>4, <3>1, <3>2 DEF Sent
  <2> QED
    BY <2>1, <2>2, <2>3, <2>4 DEF DomainWaits
<1>3. CASE \E request \in Asks : Ask(request)
  <2>1. PICK request \in Asks : Ask(request)
    BY <1>3
  <2>2. ~WantsAck(request)
    BY ProvisioningAssumption
  <2>3. /\ mode = "run" /\ dom = "running" /\ TrySend(request)
        /\ dom' = "running" /\ mode' = "run" /\ ack' = ack
    BY <2>1 DEF Ask
  <2>4. ack = None /\ \A i \in DOMAIN ctrl : ~WantsAck(ctrl[i])
    BY <2>3 DEF DomainWaits
  <2>5. ASSUME NEW i \in DOMAIN ctrl' PROVE ~WantsAck(ctrl'[i])
    <3>1. CASE Sent(request)
      <4>1. i \in DOMAIN ctrl \/ i = Len(ctrl')
        BY <3>1 DEF Sent
      <4> QED
        BY <2>2, <2>4, <3>1, <4>1 DEF Sent
    <3>2. CASE ctrl' = ctrl
      BY <2>4, <3>2
    <3> QED
      BY <1>1, <2>3, <3>1, <3>2, SendSends
  <2> QED
    BY <2>3, <2>4, <2>5 DEF DomainWaits
<1>4. CASE ProgrammingModeOff \/ PairingUiExit \/ \E put \in Puts : HandleSettingsPut(put)
  <2>1. mode = "prog" /\ UNCHANGED <<mode, dom>>
    BY <1>4 DEF ProgrammingModeOff, PairingUiExit, HandleSettingsPut
  <2>2. dom = "starting"
    BY <2>1 DEF PlacesInv
  <2> QED
    BY <2>1, <2>2 DEF DomainWaits
<1> QED
  BY <1>2, <1>3, <1>4 DEF Sends

LEMMA OthersDomain == ASSUME PlacesInv, DomainWaits, Others PROVE DomainWaits'
<1>1. CASE ApplyPersist
  BY <1>1 DEF ApplyPersist, DomainWaits
<1>2. CASE EnterAcked
  <2>1. /\ mode' = mode /\ ack # None /\ ack' = None /\ ctrl' = ctrl /\ flash' = flash
        /\ dom = "waiting" /\ dom' = IF ack THEN "leaving" ELSE "running"
    BY <1>2 DEF EnterAcked
  <2>2. ctrl = <<>> /\ ack \in BOOLEAN /\ (ack = TRUE => FlagOnFlash)
    BY <2>1 DEF DomainWaits
  <2>3. DOMAIN ctrl' = {}
    BY <2>1, <2>2, EmptyIsRoster, ListShape
  <2> QED
    BY <2>1, <2>2, <2>3 DEF DomainWaits, FlagOnFlash
<1>3. CASE PutAcked \/ HttpExitAcked \/ UiExitAcked \/ SyncPersist
  <2>1. mode = "prog" /\ UNCHANGED <<mode, dom>>
    BY <1>3 DEF PutAcked, HttpExitAcked, UiExitAcked, SyncPersist, PlacesInv
  <2>2. dom = "starting"
    BY <2>1 DEF PlacesInv
  <2> QED
    BY <2>1, <2>2 DEF DomainWaits
<1>4. CASE FirmwareBegins \/ WriteSector \/ FirmwareFails \/ FirmwareDone
  <2>1. UNCHANGED <<mode, dom, ack, ctrl, flash>>
    BY <1>4 DEF FirmwareBegins, WriteSector, FirmwareFails, FirmwareDone, storageVars
  <2> QED
    BY <2>1 DEF DomainWaits, FlagOnFlash
<1> QED
  BY <1>1, <1>2, <1>3, <1>4 DEF Others

LEMMA HandledServer ==
  ASSUME ServerWaits, NEW r, NEW w, Handled(r, w)
  PROVE  ServerWaits'
<1>1. /\ UNCHANGED <<mode, ui, http, snapshot, seed>> /\ ctrl # <<>>
      /\ Len(ctrl) = Len(ctrl') + 1 /\ Len(ctrl') \in Nat /\ IsList(ctrl')
      /\ ack' = (IF WantsAck(ctrl[1]) THEN w[2] ELSE ack)
  BY DEF Handled, Taken
<1>2. ASSUME mode = "prog", ui = "idle", http = "put"
      PROVE  ctrl' = <<>> /\ (ack' = TRUE => Decode(flash') = Tidy(Completed(snapshot, seed)))
  <2>1. PICK q : q = <<"replace", snapshot>>
    OBVIOUS
  <2>2. ctrl = <<q>>
    BY <1>1, <1>2, <2>1 DEF ServerWaits
  <2>3. Len(ctrl) = 1 /\ ctrl[1] = q
    BY <2>2, OneIsList
  <2>4. WantsAck(q) /\ Applied(q, record) = {Completed(snapshot, seed)}
    BY <2>1 DEF WantsAck, Applied
  <2>5. r = Completed(snapshot, seed)
    BY <2>3, <2>4 DEF Handled
  <2>6. ctrl' = <<>>
    <3>1. PICK k \in Nat : k = Len(ctrl') /\ 1 = k + 1
      BY <1>1, <2>3
    <3>2. k = 0
      BY <3>1
    <3> QED
      BY <1>1, <3>1, <3>2, EmptyWhenNone
  <2>7. w[2] = TRUE => Decode(flash') = Tidy(r)
    BY DEF Handled, Wrote
  <2> QED
    BY <1>1, <2>3, <2>4, <2>5, <2>6, <2>7
<1> QED
  BY <1>1, <1>2 DEF ServerWaits

LEMMA SendsServer == ASSUME DataInv, ServerWaits, Sends PROVE ServerWaits'
<1>1. CASE EnterProgrammingMode \/ \E request \in Asks : Ask(request)
  <2>1. mode' = "run"
    BY <1>1 DEF EnterProgrammingMode, Ask
  <2> QED
    BY <2>1 DEF ServerWaits
<1>2. CASE ProgrammingModeOff \/ PairingUiExit
  BY <1>2 DEF ProgrammingModeOff, PairingUiExit, ServerWaits
<1>3. CASE \E put \in Puts : HandleSettingsPut(put)
  <2>1. PICK put \in Puts : HandleSettingsPut(put)
    BY <1>3
  <2>2. PICK s, q : s = ApplySettingsPut(copy, put).rec /\ q = <<"replace", s>>
    OBVIOUS
  <2>3. /\ mode = "prog" /\ http = "idle"
        /\ ctrl' = ctrl \/ TrySend(q)
        /\ IF ctrl' = ctrl THEN UNCHANGED <<http, snapshot>>
           ELSE http' = "put" /\ snapshot' = s
        /\ UNCHANGED <<mode, ui, ack>>
    BY <2>1, <2>2 DEF HandleSettingsPut
  <2>4. ASSUME ui = "idle", ctrl' # ctrl PROVE ctrl' = <<<<"replace", snapshot'>>>> /\ ack' = None
    <3>1. ctrl = <<>> /\ ack = None
      BY <2>3, <2>4 DEF ServerWaits
    <3>2. Sent(q)
      BY <2>3, <2>4, SendSends DEF DataInv, Requests
    <3> QED
      BY <2>2, <2>3, <2>4, <3>1, <3>2 DEF Sent
  <2> QED
    BY <2>3, <2>4 DEF ServerWaits
<1> QED
  BY <1>1, <1>2, <1>3 DEF Sends

LEMMA OthersServer == ASSUME PlacesInv, ServerWaits, Others PROVE ServerWaits'
<1>1. CASE ApplyPersist \/ EnterAcked
  <2>1. mode' # "prog"
    BY <1>1 DEF ApplyPersist, EnterAcked, PlacesInv
  <2> QED
    BY <2>1 DEF ServerWaits
<1>2. CASE SyncPersist \/ WriteSector
  BY <1>2 DEF SyncPersist, WriteSector, storageVars, ServerWaits
<1>3. CASE PutAcked
  BY <1>3 DEF PutAcked, ServerWaits
<1>4. CASE HttpExitAcked \/ UiExitAcked
  BY <1>4 DEF HttpExitAcked, UiExitAcked, ServerWaits
<1>5. CASE FirmwareBegins \/ FirmwareFails \/ FirmwareDone
  <2>1. /\ UNCHANGED <<mode, ui, ack, ctrl, flash, snapshot, seed>>
        /\ http \in {"idle", "upload"} /\ http' \in {"idle", "upload", "leaving"}
    BY <1>5 DEF FirmwareBegins, FirmwareFails, FirmwareDone
  <2> QED
    BY <2>1 DEF ServerWaits
<1> QED
  BY <1>1, <1>2, <1>3, <1>4, <1>5 DEF Others
-----------------------------------------------------------------------------
(* The invariant is inductive.                                             *)

LEMMA InitInv == Init => Inv
<1> SUFFICES ASSUME Init PROVE Inv
  OBVIOUS
<1>1. /\ mode = "off" /\ flash \in FirstFlash
      /\ record = DefaultRecord /\ published = DefaultRecord /\ copy = DefaultRecord
      /\ ctrl = <<>> /\ unseen = FALSE /\ ack = None /\ held = FALSE /\ faults = 0
      /\ dom = "starting" /\ http = "idle" /\ ui = "idle" /\ snapshot = NoRecord
  BY DEF Init
<1>2. IsList(ctrl) /\ Len(ctrl) = 0 /\ DOMAIN ctrl = {}
  BY <1>1, EmptyIsRoster, ListShape
<1>3. Stored(flash)
  BY <1>1, ProvisioningAssumption, RecordTidy DEF Stored
<1>4. TypeOK
  <2>1. Len(ctrl) <= CtrlDepth
    BY <1>2, StorageAssumption
  <2> QED
    BY <1>1, <2>1, DefaultIsRecord DEF TypeOK
<1>5. DataInv
  BY <1>1, <1>2, <1>3, <1>4 DEF DataInv, Requests
<1>6. QuietInv
  BY <1>1 DEF QuietInv, QuietAgrees
<1>7. PlacesInv /\ DomainWaits /\ ServerWaits
  BY <1>1, <1>2 DEF PlacesInv, DomainWaits, ServerWaits
<1> QED
  BY <1>5, <1>6, <1>7 DEF Inv

LEMMA StutterInv == Inv /\ UNCHANGED vars => Inv'
<1> SUFFICES ASSUME Inv, UNCHANGED vars PROVE Inv'
  OBVIOUS
<1>1. /\ UNCHANGED <<flash, record, ctrl, published, unseen, ack, seed, held, faults>>
      /\ UNCHANGED <<mode, copy, astray, dom, http, ui, snapshot>>
  BY DEF vars, storageVars, taskVars
<1>2. DataInv'
  BY ZenonT(90), <1>1 DEF Inv, DataInv, TypeOK, Requests
<1>3. QuietInv'
  BY <1>1 DEF Inv, QuietInv, QuietAgrees
<1>4. PlacesInv'
  BY <1>1 DEF Inv, PlacesInv
<1>5. DomainWaits'
  BY <1>1 DEF Inv, DomainWaits, FlagOnFlash
<1>6. ServerWaits'
  BY <1>1 DEF Inv, ServerWaits
<1> QED
  BY <1>2, <1>3, <1>4, <1>5, <1>6 DEF Inv

LEMMA NextInv == Inv /\ [Next]_vars => Inv'
<1> SUFFICES ASSUME Inv, [Next]_vars PROVE Inv'
  OBVIOUS
<1>1. DataInv /\ QuietInv /\ PlacesInv /\ DomainWaits /\ ServerWaits
  BY DEF Inv
<1>2. CASE Resets
  BY <1>1, <1>2, ResetsKeep
<1>3. CASE StorageStep
  <2>1. PICK r, w : Handled(r, w)
    BY <1>1, <1>3, StepHandles
  <2>2. DataInv' /\ QuietInv'
    BY <1>1, <2>1, HandledData, HandledQuiet
  <2>3. PlacesInv' /\ DomainWaits' /\ ServerWaits'
    BY <1>1, <1>3, <2>1, PlacesStep, HandledDomain, HandledServer
  <2> QED
    BY <2>2, <2>3 DEF Inv
<1>4. CASE Sends
  <2>1. DataInv' /\ QuietInv'
    BY <1>1, <1>4, SendsData, SendsQuiet
  <2>2. PlacesInv' /\ DomainWaits' /\ ServerWaits'
    BY <1>1, <1>4, PlacesStep, SendsDomain, SendsServer
  <2> QED
    BY <2>1, <2>2 DEF Inv
<1>5. CASE Others
  <2>1. DataInv' /\ QuietInv'
    BY <1>1, <1>5, OthersData, OthersQuiet
  <2>2. PlacesInv' /\ DomainWaits' /\ ServerWaits'
    BY <1>1, <1>5, PlacesStep, OthersDomain, OthersServer
  <2> QED
    BY <2>1, <2>2 DEF Inv
<1>6. CASE UNCHANGED vars
  BY <1>6, StutterInv
<1> QED
  BY <1>2, <1>3, <1>4, <1>5, <1>6, NextIs

LEMMA Invariant == Spec => []Inv
BY InitInv, NextInv, PTL DEF Spec

-----------------------------------------------------------------------------
(* The theorems.                                                           *)

\* The tasks are where they can be, and every record they hold is one.
THEOREM TypeCorrect == Spec => []TypeOK
<1>1. Inv => TypeOK
  BY DEF Inv, DataInv
<1> QED
  BY <1>1, Invariant, PTL

\* When every request is done and its publication taken, the domain or the web
\* server sees the record of the storage task.
THEOREM QuietTasksAgree == Spec => []QuietAgrees
<1>1. Inv => QuietAgrees
  BY DEF Inv, QuietInv
<1> QED
  BY <1>1, Invariant, PTL

\* The handset leaves normal operation only with the flag on flash.
THEOREM FlagIsDurable == Spec => []EnterIsDurable
<1>1. Inv => EnterIsDurable
  BY DEF Inv, DomainWaits, FlagOnFlash, EnterIsDurable
<1> QED
  BY <1>1, Invariant, PTL

\* A settings request answered 200 has its record on flash.
THEOREM AnswersAreSaved == Spec => AnsweredIsSaved
<1>1. Inv => (http = "put" /\ http' = "idle" /\ mode' = mode /\ ui = "idle" /\ ack = TRUE
                => Decode(flash) = Tidy(Completed(snapshot, seed)))
  <2> SUFFICES ASSUME Inv, http = "put", ui = "idle", ack = TRUE
               PROVE  Decode(flash) = Tidy(Completed(snapshot, seed))
    OBVIOUS
  <2>1. mode = "prog"
    BY DEF Inv, PlacesInv
  <2>2. ack # None
    BY StorageAssumption
  <2> QED
    BY <2>1, <2>2 DEF Inv, ServerWaits
<1> QED
  BY <1>1, Invariant, PTL DEF AnsweredIsSaved
-----------------------------------------------------------------------------
(* The flash is one record changed whole, step by step.                    *)

LEMMA InitDurable == Init => Durable!Init
BY DEF Init, Durable!Init

\* A request that is handled is a change, or a change that fails.
LEMMA HandledDurable ==
  ASSUME DataInv, NEW r, NEW w, Handled(r, w)
  PROVE  Durable!Next
<1>1. /\ IsRecord(r) /\ Identified(r) /\ Wrote(w, flash, r, faults < MaxFaults)
      /\ record' = r /\ flash' = w[1] /\ faults' = faults + (IF w[2] THEN 0 ELSE 1)
      /\ faults \in Nat
  BY DEF Handled, DataInv
<1>2. Identified(Tidy(record'))
  <2>1. Tidy(r)["id"] = r["id"] /\ Tidy(r)["host"] = r["host"]
    BY <1>1, RecordTidy DEF FieldNames
  <2> QED
    BY <1>1, <2>1 DEF Identified
<1>3. CASE w[2] = TRUE /\ Decode(w[1]) = Tidy(r)
  <2>1. Decode(flash') = Tidy(record') /\ faults' = faults
    BY <1>1, <1>3
  <2> QED
    BY <1>2, <2>1 DEF Durable!Next, Durable!Save
<1>4. CASE w[2] = FALSE /\ (w[1] = flash \/ Decode(w[1]) = NoRecord)
  <2>1. Decode(flash') \in {Decode(flash), NoRecord} /\ faults' > faults
    BY <1>1, <1>4
  <2> QED
    BY <1>2, <2>1 DEF Durable!Next, Durable!SaveFails
<1> QED
  BY <1>1, <1>3, <1>4 DEF Wrote

\* A reset is a start, from what is on flash unless there was a fault.
LEMMA ResetDurable ==
  ASSUME DataInv, NEW f, NEW n, ResetFrom(f, n)
  PROVE  Durable!Next
<1>1. /\ n \in Nat /\ Rebooted(f, n) /\ faults \in Nat
      /\ \/ f = flash /\ n = faults
         \/ (f = flash \/ Decode(f) = NoRecord) /\ n = faults + 1
  BY DEF ResetFrom, DataInv
<1>2. PICK e \in Nat \ {0} : Booted(f, n, e)
  BY <1>1 DEF Rebooted
<1>3. Tidy(record') = record'
  <2>1. Ready(record')
    BY <1>2 DEF Booted
  <2> QED
    BY <2>1, RecordTidy DEF Ready
<1>4. PICK S, N, d : S = Starts(Decode(flash)) /\ N = Starts(NoRecord) /\ d = Decode(flash)
  OBVIOUS
<1>5. Starts(Decode(f)) \subseteq S \cup N /\ Decode(f) \in {d, NoRecord}
  BY <1>1, <1>4
<1>6. record' \in S \cup N /\ Decode(flash') \in {d, NoRecord} \cup S \cup N
  BY <1>2, <1>4, <1>5 DEF Booted
<1>7. CASE faults' = faults
  <2>1. n = faults /\ f = flash
    BY <1>1, <1>2, <1>7 DEF Booted
  <2>2. record' \in S /\ Decode(flash') \in {d, record'}
    BY <1>2, <1>4, <1>7, <2>1 DEF Booted
  <2> QED
    BY <1>3, <1>4, <1>7, <2>2 DEF Durable!Next, Durable!Restart
<1>8. CASE faults' # faults
  <2>1. faults' > faults
    BY <1>1, <1>2, <1>8 DEF Booted
  <2> QED
    BY <1>3, <1>4, <1>6, <2>1 DEF Durable!Next, Durable!Crash
<1> QED
  BY <1>7, <1>8

LEMMA NextDurable == Inv /\ [Next]_vars => [Durable!Next]_Durable!vars
<1> SUFFICES ASSUME Inv, [Next]_vars PROVE [Durable!Next]_Durable!vars
  OBVIOUS
<1>1. DataInv
  BY DEF Inv
<1>2. CASE Resets
  <2>1. PICK f, n : ResetFrom(f, n)
    BY <1>1, <1>2, ResetsReboot
  <2> QED
    BY <1>1, <2>1, ResetDurable
<1>3. CASE StorageStep
  <2>1. PICK r, w : Handled(r, w)
    BY <1>1, <1>3, StepHandles
  <2> QED
    BY <1>1, <2>1, HandledDurable
<1>4. CASE Sends
  <2>1. UNCHANGED <<flash, record, faults>>
    BY <1>4 DEF Sends, EnterProgrammingMode, ProgrammingModeOff, PairingUiExit, Ask,
       HandleSettingsPut
  <2> QED
    BY <2>1 DEF Durable!vars
<1>5. CASE Others
  <2>1. UNCHANGED <<flash, record, faults>>
    BY <1>5 DEF Others, ApplyPersist, EnterAcked, SyncPersist, PutAcked, HttpExitAcked,
       UiExitAcked, FirmwareBegins, WriteSector, FirmwareFails, FirmwareDone, storageVars
  <2> QED
    BY <2>1 DEF Durable!vars
<1>6. CASE UNCHANGED vars
  BY <1>6 DEF vars, storageVars, Durable!vars
<1> QED
  BY <1>2, <1>3, <1>4, <1>5, <1>6, NextIs

\* The flash of the handset is one record changed whole: every step of the storage
\* task, every boot and every power cut is a change, a failed change or a start of it.
THEOREM StorageIsDurable == Spec => IsDurable
BY InitDurable, NextDurable, Invariant, PTL DEF Spec, IsDurable, Durable!Spec
=============================================================================
