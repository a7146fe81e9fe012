---------------------------- MODULE MetricsProofs ----------------------------
(***************************************************************************)
(* Proofs about what the metrics collector counts and reports, for any     *)
(* samples, types of message, reasons of a rejection and bounds, any       *)
(* number of latencies and any number of resets.                           *)
(***************************************************************************)
EXTENDS MetricsCollector, FiniteSetTheorems, SequenceTheorems, WellFoundedInduction, TLAPS

-----------------------------------------------------------------------------
(* Natural numbers. *)

Less == {p \in Nat \X Nat : p[1] < p[2]}

(* A set of them that is not empty has a least one. *)
LEMMA Least ==
  ASSUME NEW S, S \subseteq Nat, S # {}
  PROVE  \E m \in S : \A n \in S : m <= n
<1>1. IsWellFoundedOn(Less, Nat)
  <2>1. OpToRel(<, Nat) = Less
    BY DEF OpToRel, Less
  <2> QED
    BY <2>1, NatLessThanWellFounded
<1>2. PICK m \in S : \A n \in S : ~ (<<n, m>> \in Less)
  BY <1>1, WFMin
<1>3. ASSUME NEW n \in S, ~ (m <= n) PROVE FALSE
  <2>1. m \in Nat /\ n \in Nat /\ n < m
    BY <1>3
  <2>2. <<n, m>> \in Less
    BY <2>1 DEF Less
  <2> QED
    BY <1>2, <2>2, Zenon
<1> QED
  BY <1>3

-----------------------------------------------------------------------------
(* Entries and how many they are. *)

LEMMA EntriesAre ==
  ASSUME NEW a, NEW S
  PROVE  \A e : e \in Entries(a, S) <=> \E s \in S : \E n \in 1..a[s] : e = <<s, n>>
BY DEF Entries

LEMMA SizeGrows ==
  ASSUME NEW a, NEW S, NEW T, S \subseteq T, IsFiniteSet(Entries(a, T))
  PROVE  /\ Entries(a, S) \subseteq Entries(a, T) /\ IsFiniteSet(Entries(a, S))
         /\ Size(a, S) \in Nat /\ Size(a, T) \in Nat /\ Size(a, S) <= Size(a, T)
         /\ Size(a, S) = Size(a, T) => Entries(a, S) = Entries(a, T)
<1>1. Entries(a, S) \subseteq Entries(a, T)
  BY EntriesAre
<1>2. /\ IsFiniteSet(Entries(a, S))
      /\ Cardinality(Entries(a, S)) <= Cardinality(Entries(a, T))
      /\ Cardinality(Entries(a, S)) = Cardinality(Entries(a, T)) =>
           Entries(a, S) = Entries(a, T)
  BY <1>1, FS_Subset
<1>3. Cardinality(Entries(a, S)) \in Nat /\ Cardinality(Entries(a, T)) \in Nat
  BY <1>2, FS_CardinalityType
<1> QED
  BY <1>1, <1>2, <1>3 DEF Size

LEMMA NoEntries ==
  ASSUME NEW a
  PROVE  Entries(a, {}) = {} /\ IsFiniteSet(Entries(a, {})) /\ Size(a, {}) = 0
<1>1. Entries(a, {}) = {}
  BY DEF Entries
<1> QED
  BY <1>1, FS_EmptySet DEF Size

(* One entry more, of x. *)
LEMMA OneMore ==
  ASSUME NEW a, NEW b, NEW S, NEW T, NEW x, T = S \union {x}, NEW n \in Nat,
         IF x \in S THEN a[x] = n ELSE n = 0,
         b[x] = n + 1, \A y \in S \ {x} : b[y] = a[y], IsFiniteSet(Entries(a, S))
  PROVE  IsFiniteSet(Entries(b, T)) /\ Size(b, T) = Size(a, S) + 1
<1> DEFINE e == <<x, n + 1>>
<1>1. 1..(n + 1) = (1..n) \union {n + 1} /\ n + 1 \notin 1..n
  OBVIOUS
<1>2. e \notin Entries(a, S)
  BY <1>1, EntriesAre
<1>3. Entries(b, T) = Entries(a, S) \union {e}
  <2>1. ASSUME NEW y \in S, y # x, NEW m
        PROVE  <<y, m>> \in Entries(b, T) <=> <<y, m>> \in Entries(a, S)
    BY <2>1, EntriesAre
  <2>2. ASSUME NEW m
        PROVE  <<x, m>> \in Entries(b, T) <=> <<x, m>> \in Entries(a, S) \/ m = n + 1
    <3>1. <<x, m>> \in Entries(b, T) <=> m \in 1..(n + 1)
      BY EntriesAre
    <3>2. <<x, m>> \in Entries(a, S) <=> m \in 1..n
      BY <1>1, EntriesAre
    <3> QED
      BY <1>1, <3>1, <3>2
  <2>3. \A f : f \in Entries(b, T) => \E y \in S \union {x} : \E m : f = <<y, m>>
    BY EntriesAre
  <2>4. \A f : f \in Entries(a, S) => \E y \in S : \E m : f = <<y, m>>
    BY EntriesAre
  <2>5. ASSUME NEW f \in Entries(b, T) PROVE f \in Entries(a, S) \union {e}
    <3>1. PICK y \in S \union {x} : \E m : f = <<y, m>>
      BY <2>3
    <3> QED
      BY <2>1, <2>2, <3>1
  <2>6. ASSUME NEW f \in Entries(a, S) PROVE f \in Entries(b, T)
    <3>1. PICK y \in S : \E m : f = <<y, m>>
      BY <2>4
    <3> QED
      BY <2>1, <2>2, <3>1
  <2>7. e \in Entries(b, T)
    BY <2>2
  <2> QED
    BY <2>5, <2>6, <2>7
<1>4. /\ IsFiniteSet(Entries(a, S) \union {e})
      /\ Cardinality(Entries(a, S) \union {e}) = Cardinality(Entries(a, S)) + 1
  BY <1>2, FS_AddElement
<1> QED
  BY <1>3, <1>4 DEF Size

-----------------------------------------------------------------------------
(* The percentile. *)

(* How many samples of S in an array are at most v, and how many below it. *)
Upto(a, S, v) == Size(a, {s \in S : s.value <= v})
Below(a, S, v) == Size(a, {s \in S : s.value < v})

(* The index of the 95th percentile is one of the array. *)
LEMMA IndexOf95 ==
  ASSUME NEW n \in Nat
  PROVE  LET i == PercentileIndex(n, 95)
         IN i \in Nat /\ 100 * i <= 95 * n /\ 95 * n < 100 * i + 100 /\ (n > 0 => i < n)
BY DEF PercentileIndex

LEMMA UptoGrows ==
  ASSUME NEW a, NEW S, S \subseteq Samples, IsFiniteSet(Entries(a, S)),
         NEW v \in Nat, NEW w \in Nat
  PROVE  /\ Size(a, S) \in Nat /\ Upto(a, S, v) \in Nat /\ Upto(a, S, v) <= Size(a, S)
         /\ v < w => Upto(a, S, v) <= Below(a, S, w)
         /\ Below(a, S, v) \in Nat /\ Below(a, S, v) <= Upto(a, S, v)
<1> DEFINE A == {s \in S : s.value <= v}
           B == {s \in S : s.value < v}
           C == {s \in S : s.value < w}
<1>1. A \subseteq S /\ B \subseteq A /\ C \subseteq S /\ (v < w => A \subseteq C)
  BY MetricsAssumption
<1>2. /\ Size(a, S) \in Nat /\ Size(a, A) \in Nat /\ Size(a, A) <= Size(a, S)
      /\ IsFiniteSet(Entries(a, A)) /\ IsFiniteSet(Entries(a, C))
  BY <1>1, SizeGrows
<1>3. Size(a, B) \in Nat /\ Size(a, B) <= Size(a, A)
  BY <1>1, <1>2, SizeGrows
<1>4. v < w => Size(a, A) <= Size(a, C)
  BY <1>1, <1>2, SizeGrows
<1> QED
  BY <1>2, <1>3, <1>4 DEF Upto, Below

(* An array that has not all its samples of S up to v has one above it.    *)
LEMMA SomeAbove ==
  ASSUME NEW a, NEW S, S \subseteq Samples, IsFiniteSet(Entries(a, S)),
         NEW v \in Nat, Upto(a, S, v) < Size(a, S)
  PROVE  \E w \in Nat : Upto(a, S, v) < Upto(a, S, w)
<1> DEFINE A == {s \in S : s.value <= v}
<1>1. A \subseteq S
  OBVIOUS
<1> DEFINE m == Size(a, A)
           n == Size(a, S)
<1>9. m = Upto(a, S, v) /\ m \in Nat /\ n \in Nat /\ m < n
  BY <1>1, SizeGrows DEF Upto
<1>2. Entries(a, A) \subseteq Entries(a, S) /\ Entries(a, A) # Entries(a, S)
  <2>1. Entries(a, A) \subseteq Entries(a, S)
    BY <1>1, EntriesAre
  <2>2. Entries(a, A) = Entries(a, S) => m = n
    BY DEF Size
  <2> HIDE DEF m, n, A
  <2> QED
    BY <1>9, <2>1, <2>2
<1>3. PICK e \in Entries(a, S) : e \notin Entries(a, A)
  BY <1>2
<1>4. PICK s \in S : \E k \in 1..a[s] : e = <<s, k>>
  BY <1>3, EntriesAre
<1>5. s.value \in Nat /\ v < s.value
  <2>1. s \notin A
    BY <1>3, <1>4, EntriesAre
  <2> QED
    BY <2>1, MetricsAssumption
<1> DEFINE B == {r \in S : r.value <= s.value}
<1>6. A \subseteq B /\ B \subseteq S /\ s \in B
  BY <1>5, MetricsAssumption
<1>7. IsFiniteSet(Entries(a, B)) /\ e \in Entries(a, B)
  BY <1>4, <1>6, SizeGrows, EntriesAre
<1>8. /\ Size(a, A) \in Nat /\ Size(a, B) \in Nat /\ Size(a, A) <= Size(a, B)
      /\ Size(a, A) # Size(a, B)
  BY <1>3, <1>6, <1>7, SizeGrows
<1>10. Size(a, B) = Upto(a, S, s.value)
  BY DEF Upto
<1> HIDE DEF A, B
<1> QED
  BY <1>5, <1>8, <1>9, <1>10

(* Some value has all samples at or below it. *)
LEMMA AllUpto ==
  ASSUME NEW a, NEW S, S \subseteq Samples, IsFiniteSet(Entries(a, S))
  PROVE  \E v \in Nat : Upto(a, S, v) = Size(a, S)
<1> DEFINE Missing(v) == Size(a, S) - Upto(a, S, v)
           M == {Missing(v) : v \in Nat}
<1>1. \A v \in Nat : /\ Size(a, S) \in Nat /\ Upto(a, S, v) \in Nat
                     /\ Upto(a, S, v) <= Size(a, S)
  BY UptoGrows
<1>2. M \subseteq Nat /\ M # {}
  <2>1. \A v \in Nat : Missing(v) \in Nat
    BY <1>1
  <2>2. 0 \in Nat /\ Missing(0) \in M
    OBVIOUS
  <2> HIDE DEF Missing
  <2> QED
    BY <2>1, <2>2
<1>3. PICK m \in M : \A k \in M : m <= k
  BY <1>2, Least
<1>4. PICK v \in Nat : m = Missing(v)
  OBVIOUS
<1>5. ASSUME Upto(a, S, v) < Size(a, S) PROVE FALSE
  <2>1. PICK w \in Nat : Upto(a, S, v) < Upto(a, S, w)
    BY <1>5, SomeAbove
  <2>2. m <= Missing(w)
    BY <1>3
  <2> QED
    BY <1>1, <1>4, <2>1, <2>2
<1> QED
  BY <1>1, <1>5

(* The percentile is a value of S that the index falls on.                 *)
LEMMA PercentileIs ==
  ASSUME NEW a, NEW S, S \subseteq Samples, IsFiniteSet(Entries(a, S)), Size(a, S) > 0
  PROVE  LET i == PercentileIndex(Size(a, S), 95)
             v == Percentile(a, S, 95)
         IN v \in Nat /\ Below(a, S, v) <= i /\ i < Upto(a, S, v)
<1> DEFINE i == PercentileIndex(Size(a, S), 95)
           W == {v \in Nat : i < Upto(a, S, v)}
<1>1. Size(a, S) \in Nat /\ i \in Nat /\ i < Size(a, S)
  BY IndexOf95, UptoGrows
<1> HIDE DEF i
<1>2. PICK v \in W : \A w \in W : v <= w
  <2>1. W \subseteq Nat /\ W # {}
    BY <1>1, AllUpto
  <2> QED
    BY <2>1, Least
<1>3. Below(a, S, v) <= i
  <2>1. CASE v = 0
    <3>1. {s \in S : s.value < v} = {}
      BY <2>1, MetricsAssumption
    <3>2. Below(a, S, v) = 0
      BY <3>1, NoEntries DEF Below
    <3> QED
      BY <1>1, <3>2
  <2>2. CASE v # 0
    <3>1. v - 1 \in Nat /\ v - 1 \notin W
      BY <1>2, <2>2
    <3>2. {s \in S : s.value < v} = {s \in S : s.value <= v - 1}
      BY MetricsAssumption
    <3>3. Below(a, S, v) = Upto(a, S, v - 1)
      BY <3>2 DEF Below, Upto
    <3>4. Upto(a, S, v - 1) \in Nat
      BY <3>1, UptoGrows
    <3> QED
      BY <1>1, <3>1, <3>3, <3>4
  <2> QED
    BY <2>1, <2>2
<1>4. v \in {s.value : s \in S}
  <2> SUFFICES ASSUME v \notin {s.value : s \in S} PROVE FALSE
    OBVIOUS
  <2>1. {s \in S : s.value < v} = {s \in S : s.value <= v}
    <3>1. \A s \in S : s.value \in Nat /\ s.value # v
      BY MetricsAssumption
    <3>2. \A s \in S : s.value < v <=> s.value <= v
      BY <1>2, <3>1
    <3> QED
      BY <3>2
  <2>2. Below(a, S, v) = Upto(a, S, v) /\ Upto(a, S, v) \in Nat
    BY <2>1, UptoGrows DEF Below, Upto
  <2> QED
    BY <1>1, <1>3, <2>2
<1>5. LET p == Percentile(a, S, 95)
      IN p \in {s.value : s \in S} /\ Below(a, S, p) <= i /\ i < Upto(a, S, p)
  <2>0. Size(a, S) # 0
    BY <1>1
  <2>1. Percentile(a, S, 95) =
          CHOOSE p \in {s.value : s \in S} : Below(a, S, p) <= i /\ i < Upto(a, S, p)
    BY <2>0, Zenon DEF Percentile, Below, Upto, i
  <2>2. \E p \in {s.value : s \in S} : Below(a, S, p) <= i /\ i < Upto(a, S, p)
    BY <1>2, <1>3, <1>4
  <2> QED
    BY <2>1, <2>2
<1> QED
  BY <1>5, MetricsAssumption DEF i

-----------------------------------------------------------------------------
(* The invariant. *)

Transaction == [type : Types, confirmed : BOOLEAN]

(* Where the transactions of a type are, and the confirmed ones. *)
OfType(t) == {n \in 1..Len(transactions) : transactions[n].type = t}
Confirmed == {n \in 1..Len(transactions) : transactions[n].confirmed}

(* What is recorded, and what is counted of it. *)
Recorded == /\ transactions \in Seq(Transaction)
            /\ submitted = Len(transactions) /\ submitted \in Nat
            /\ IsFiniteSet(Confirmed) /\ confirmed = Cardinality(Confirmed)
            /\ rejected \in Nat /\ replayDetected \in Nat /\ replayDetected <= rejected

(* An object that counts by type has only what was counted. *)
Counts(counts) == /\ DOMAIN counts \subseteq Types
                  /\ \A t \in DOMAIN counts : counts[t] \in Nat \ {0}

CountedByType == /\ Counts(messageTypes)
                 /\ \A t \in Types : /\ IsFiniteSet(OfType(t))
                                     /\ Cardinality(OfType(t)) = CountOf(t)

(* Only so many samples were recorded, whatever samples there are.         *)
Samplings == /\ latency \in [Kinds -> [Samples -> Nat]]
             /\ \A k \in Kinds : IsFiniteSet(Entries(latency[k], Samples))

(* Every transaction is counted with its type, once. *)
AllCounted == /\ IsFiniteSet(Entries(messageTypes, DOMAIN messageTypes))
              /\ Total(messageTypes) = submitted

(* A report's own counts are at least its total, once it has its own.      *)
Holding == held # None =>
             /\ held.total \in Nat /\ held.live \in BOOLEAN
             /\ held.live => held.total <= submitted
             /\ ~held.live => Total(held.types) >= held.total

Inv == Recorded /\ CountedByType /\ Samplings /\ AllCounted /\ Holding

-----------------------------------------------------------------------------
(* What one more transaction changes. *)

LEMMA MoreTransactions ==
  ASSUME transactions \in Seq(Transaction), NEW x \in Transaction,
         transactions' = Append(transactions, x)
  PROVE  /\ transactions' \in Seq(Transaction) /\ Len(transactions) \in Nat
         /\ Len(transactions') = Len(transactions) + 1
         /\ 1..Len(transactions') = (1..Len(transactions)) \union {Len(transactions) + 1}
         /\ Len(transactions) + 1 \notin 1..Len(transactions)
         /\ transactions'[Len(transactions) + 1] = x
         /\ \A n \in 1..Len(transactions) : transactions'[n] = transactions[n]
<1>1. /\ transactions' \in Seq(Transaction) /\ Len(transactions) \in Nat
      /\ Len(transactions') = Len(transactions) + 1
      /\ transactions'[Len(transactions) + 1] = x
      /\ \A n \in 1..Len(transactions) : transactions'[n] = transactions[n]
  BY AppendProperties, LenProperties
<1> QED
  BY <1>1

(* The new one is of its type, and of no other. *)
LEMMA MoreOfType ==
  ASSUME transactions \in Seq(Transaction), NEW x \in Transaction,
         transactions' = Append(transactions, x), NEW t \in Types,
         IsFiniteSet(OfType(t))
  PROVE  /\ IsFiniteSet(OfType(t)')
         /\ Cardinality(OfType(t)') =
              IF t = x.type THEN Cardinality(OfType(t)) + 1 ELSE Cardinality(OfType(t))
<1> DEFINE n == Len(transactions) + 1
<1>1. CASE t = x.type
  <2>1. OfType(t)' = OfType(t) \union {n} /\ n \notin OfType(t)
    BY <1>1, MoreTransactions DEF OfType
  <2>2. /\ IsFiniteSet(OfType(t) \union {n})
        /\ Cardinality(OfType(t) \union {n}) = Cardinality(OfType(t)) + 1
    BY <2>1, FS_AddElement
  <2> QED
    BY <1>1, <2>1, <2>2
<1>2. CASE t # x.type
  <2>1. OfType(t)' = OfType(t)
    BY <1>2, MoreTransactions DEF OfType
  <2> QED
    BY <1>2, <2>1
<1> QED
  BY <1>1, <1>2

LEMMA MoreConfirmed ==
  ASSUME transactions \in Seq(Transaction), NEW x \in Transaction,
         transactions' = Append(transactions, x), IsFiniteSet(Confirmed)
  PROVE  /\ IsFiniteSet(Confirmed')
         /\ Cardinality(Confirmed') =
              IF x.confirmed THEN Cardinality(Confirmed) + 1 ELSE Cardinality(Confirmed)
<1> DEFINE n == Len(transactions) + 1
<1>1. CASE x.confirmed
  <2>1. Confirmed' = Confirmed \union {n} /\ n \notin Confirmed
    BY <1>1, MoreTransactions DEF Confirmed
  <2>2. /\ IsFiniteSet(Confirmed \union {n})
        /\ Cardinality(Confirmed \union {n}) = Cardinality(Confirmed) + 1
    BY <2>1, FS_AddElement
  <2> QED
    BY <1>1, <2>1, <2>2
<1>2. CASE ~x.confirmed
  <2>1. Confirmed' = Confirmed
    BY <1>2, MoreTransactions DEF Confirmed
  <2> QED
    BY <1>2, <2>1
<1> QED
  BY <1>1, <1>2

(* One more of type t is counted, whether or not the type was there. *)
LEMMA BumpCounts ==
  ASSUME Counts(messageTypes), NEW t \in Types, messageTypes' = Bump(t)
  PROVE  /\ Counts(messageTypes')
         /\ \A u \in Types : CountOf(u)' = IF u = t THEN CountOf(u) + 1 ELSE CountOf(u)
<1>1. \A u \in Types : CountOf(u) \in Nat
  BY DEF Counts, CountOf
<1>2. /\ DOMAIN messageTypes' = DOMAIN messageTypes \union {t}
      /\ \A u \in DOMAIN messageTypes \union {t} :
           messageTypes'[u] = CountOf(u) + (IF u = t THEN 1 ELSE 0)
  BY DEF Bump
<1>3. Counts(messageTypes')
  BY <1>1, <1>2 DEF Counts, CountOf
<1>4. ASSUME NEW u \in Types
      PROVE  CountOf(u)' = IF u = t THEN CountOf(u) + 1 ELSE CountOf(u)
  BY <1>1, <1>2 DEF CountOf
<1> QED
  BY <1>3, <1>4

-----------------------------------------------------------------------------
(* The theorems. *)

LEMMA InvInit == Init => Inv
<1> SUFFICES ASSUME Init PROVE Inv
  OBVIOUS
<1>1. transactions = <<>> /\ Len(transactions) = 0 /\ DOMAIN messageTypes = {}
  BY EmptySeq DEF Init, NoCounts
<1>2. Confirmed = {} /\ \A t : OfType(t) = {}
  BY <1>1 DEF Confirmed, OfType
<1>5. AllCounted
  BY <1>1, NoEntries DEF Init, AllCounted, Total
<1>6. Samplings
  <2>1. \A k \in Kinds : Entries(latency[k], Samples) = {}
    BY DEF Init, Entries
  <2> QED
    BY <2>1, FS_EmptySet DEF Init, Samplings
<1>3. Recorded
  BY <1>1, <1>2, FS_EmptySet DEF Init, Recorded
<1>4. CountedByType
  BY <1>1, <1>2, FS_EmptySet DEF CountedByType, Counts, CountOf
<1> QED
  BY <1>3, <1>4, <1>5, <1>6 DEF Init, Inv, Holding

LEMMA InvStep == Inv /\ [Next]_vars => Inv'
<1> SUFFICES ASSUME Recorded, CountedByType, Samplings, AllCounted, Holding, [Next]_vars
             PROVE  Inv'
  BY DEF Inv
(* What holds for as long as no transaction is recorded and none forgotten. *)
<1>1. ASSUME UNCHANGED <<transactions, submitted, confirmed, messageTypes>>
      PROVE  /\ CountedByType' /\ AllCounted'
             /\ rejected' \in Nat /\ replayDetected' \in Nat /\ replayDetected' <= rejected' =>
                  Recorded'
  BY <1>1 DEF Recorded, CountedByType, Confirmed, OfType, CountOf, AllCounted
<1>2. ASSUME NEW k \in Kinds, NEW s \in Samples, RecordLatency(k, s) PROVE Inv'
  <2>1. latency' \in [Kinds -> [Samples -> Nat]]
    BY <1>2 DEF RecordLatency, Samplings
  <2>2. IsFiniteSet(Entries(latency'[k], Samples))
    <3> DEFINE a == latency[k]
               b == latency'[k]
    <3>1. a[s] \in Nat /\ b[s] = a[s] + 1 /\ \A y \in Samples \ {s} : b[y] = a[y]
      BY <1>2 DEF RecordLatency, Samplings
    <3>2. IsFiniteSet(Entries(a, Samples)) /\ Samples = Samples \union {s}
      BY DEF Samplings
    <3> HIDE DEF a, b
    <3>3. IsFiniteSet(Entries(b, Samples))
      BY <3>1, <3>2, OneMore
    <3> QED
      BY <3>3 DEF b
  <2>3. \A j \in Kinds \ {k} : latency'[j] = latency[j]
    BY <1>2 DEF RecordLatency, Samplings
  <2>4. Samplings'
    BY <2>1, <2>2, <2>3 DEF Samplings
  <2>5. Holding'
    BY <1>2 DEF RecordLatency, reliability, Holding
  <2> QED
    BY <1>1, <1>2, <2>4, <2>5 DEF RecordLatency, reliability, Recorded, Inv
<1>3. ASSUME NEW t \in Types, NEW ok \in BOOLEAN, RecordTransaction(t, ok) PROVE Inv'
  <2> DEFINE x == [type |-> t, confirmed |-> ok]
  <2>1. /\ transactions \in Seq(Transaction) /\ x \in Transaction
        /\ transactions' = Append(transactions, x)
    BY <1>3 DEF RecordTransaction, Recorded, Transaction
  <2>2. Recorded'
    <3>1. IsFiniteSet(Confirmed) /\ Cardinality(Confirmed) \in Nat
      BY FS_CardinalityType DEF Recorded
    <3>2. /\ IsFiniteSet(Confirmed')
          /\ Cardinality(Confirmed') = Cardinality(Confirmed) + (IF ok THEN 1 ELSE 0)
      BY <2>1, <3>1, MoreConfirmed
    <3>3. transactions' \in Seq(Transaction) /\ Len(transactions') = Len(transactions) + 1
      BY <2>1, MoreTransactions
    <3> QED
      BY <1>3, <3>1, <3>2, <3>3 DEF RecordTransaction, Recorded
  <2>3. CountedByType'
    <3>1. /\ Counts(messageTypes')
          /\ \A u \in Types : CountOf(u)' = IF u = t THEN CountOf(u) + 1 ELSE CountOf(u)
      BY <1>3, BumpCounts DEF RecordTransaction, CountedByType
    <3>2. ASSUME NEW u \in Types
          PROVE  IsFiniteSet(OfType(u)') /\ Cardinality(OfType(u)') = CountOf(u)'
      BY <2>1, <3>1, MoreOfType DEF CountedByType
    <3> QED
      BY <3>1, <3>2 DEF CountedByType
  <2>4. AllCounted'
    <3>1. /\ CountOf(t) \in Nat
          /\ IF t \in DOMAIN messageTypes THEN messageTypes[t] = CountOf(t)
             ELSE CountOf(t) = 0
      BY DEF CountedByType, Counts, CountOf
    <3>2. /\ DOMAIN messageTypes' = DOMAIN messageTypes \union {t}
          /\ messageTypes'[t] = CountOf(t) + 1
          /\ \A y \in DOMAIN messageTypes \ {t} : messageTypes'[y] = messageTypes[y]
      BY <1>3, <3>1 DEF RecordTransaction, Bump, CountedByType, Counts, CountOf
    <3>3. /\ IsFiniteSet(Entries(messageTypes', DOMAIN messageTypes'))
          /\ Size(messageTypes', DOMAIN messageTypes') =
               Size(messageTypes, DOMAIN messageTypes) + 1
      BY <3>1, <3>2, OneMore DEF AllCounted
    <3> QED
      BY <1>3, <3>3 DEF RecordTransaction, AllCounted, Total
  <2>5. Holding'
    BY <1>3 DEF RecordTransaction, Holding, Recorded
  <2> QED
    BY <1>3, <2>2, <2>3, <2>4, <2>5 DEF RecordTransaction, Samplings, Inv
<1>4. ASSUME NEW reason \in Reasons, RecordRejection(reason) PROVE Inv'
  <2>1. rejected' \in Nat /\ replayDetected' \in Nat /\ replayDetected' <= rejected'
    BY <1>4 DEF RecordRejection, Recorded
  <2> QED
    BY <1>1, <1>4, <2>1 DEF RecordRejection, Samplings, Holding, Inv
<1>5. CASE GenerateReport
  <2>1. Holding'
    <3>1. /\ held'.total = submitted /\ held'.live /\ held'.live \in BOOLEAN
          /\ submitted' = submitted /\ submitted \in Nat
      BY <1>5 DEF GenerateReport, reliability, Recorded
    <3> QED
      BY <3>1 DEF Holding
  <2> QED
    BY <1>1, <1>5, <2>1 DEF GenerateReport, reliability, Samplings, Recorded, Inv
<1>6. CASE Reset
  <2>1. transactions' = <<>> /\ Len(transactions') = 0 /\ DOMAIN messageTypes' = {}
    BY <1>6, EmptySeq DEF Reset, Renew, NoCounts
  <2>2. Confirmed' = {} /\ \A t : OfType(t)' = {}
    BY <2>1 DEF Confirmed, OfType
  <2>3. Recorded'
    BY <1>6, <2>1, <2>2, FS_EmptySet DEF Reset, Recorded
  <2>4. CountedByType'
    BY <2>1, <2>2, FS_EmptySet DEF CountedByType, Counts, CountOf
  <2>5. AllCounted'
    BY <1>6, <2>1, NoEntries DEF Reset, AllCounted, Total
  <2>6. Samplings'
    <3>1. /\ latency' = [k \in Kinds |-> [s \in Samples |-> 0]]
          /\ \A k \in Kinds : Entries(latency'[k], Samples) = {}
      BY <1>6 DEF Reset, Entries
    <3> QED
      BY <3>1, FS_EmptySet DEF Samplings
  <2>7. Holding'
    BY <1>6 DEF Reset, Renew, TypesOf, AllCounted, Recorded, Holding
  <2> QED
    BY <2>3, <2>4, <2>5, <2>6, <2>7 DEF Inv
<1>7. CASE UNCHANGED vars
  BY <1>1, <1>7 DEF vars, reliability, Recorded, Samplings, Holding, Inv
<1> QED
  BY <1>2, <1>3, <1>4, <1>5, <1>6, <1>7 DEF Next

LEMMA InvInvariant == Spec => []Inv
BY InvInit, InvStep, PTL DEF Spec

(* Every variable holds what it is meant to; a type of message is only     *)
(* there when one was counted, reset after reset.                          *)
THEOREM TypeCorrect == Spec => []TypeOK
<1>1. Inv => TypeOK
  <2> SUFFICES ASSUME Inv PROVE TypeOK
    OBVIOUS
  <2>1. confirmed \in Nat
    BY FS_CardinalityType DEF Inv, Recorded
  <2> QED
    BY <2>1 DEF Inv, Recorded, CountedByType, Counts, Samplings, Holding, Transaction, TypeOK
<1> QED
  BY <1>1, InvInvariant, PTL

(* The counters, the counts by type and the list of transactions agree,    *)
(* whatever was recorded and however often the collector was reset, and    *)
(* the detected replays are among the rejections.                          *)
THEOREM CountersAlwaysMatch == Spec => []CountersMatchRecords
<1>1. Inv => CountersMatchRecords
  <2> SUFFICES ASSUME Inv PROVE CountersMatchRecords
    OBVIOUS
  <2>1. Indices(LAMBDA x : x.confirmed) = Confirmed
    BY DEF Indices, Confirmed
  <2>2. \A t \in Types : Indices(LAMBDA x : x.type = t) = OfType(t)
    BY DEF Indices, OfType
  <2> QED
    BY <2>1, <2>2 DEF Inv, Recorded, CountedByType, CountersMatchRecords
<1> QED
  BY <1>1, InvInvariant, PTL

(* The report says that critical messages meet their target exactly when   *)
(* more than 95% of their latencies are below it, or when there are none,  *)
(* whatever the latencies are and however many.                            *)
THEOREM TargetAlwaysExact == Spec => []TargetIsExact
<1>1. Inv => TargetIsExact
  <2> SUFFICES ASSUME Inv PROVE TargetIsExact
    OBVIOUS
  <2> DEFINE a == latency["e2e"]
             n == Size(a, Critical)
             i == PercentileIndex(n, 95)
             v == Percentile(a, Critical, 95)
  <2>1. Critical \subseteq Samples /\ IsFiniteSet(Entries(a, Critical))
    <3>1. Critical \subseteq Samples /\ IsFiniteSet(Entries(a, Samples))
      BY DEF Critical, Kinds, Inv, Samplings
    <3> QED
      BY <3>1, SizeGrows
  <2> HIDE DEF a
  <2>2. /\ Size(a, {s \in Critical : s.value < Target}) = Below(a, Critical, 100)
        /\ n \in Nat /\ Below(a, Critical, 100) \in Nat
    <3>1. n \in Nat /\ Below(a, Critical, 100) \in Nat
      BY <2>1, UptoGrows
    <3> QED
      BY <3>1 DEF Below, Target
  <2>3. CASE n = 0
    <3>1. v = 0
      BY <2>3 DEF Percentile
    <3> QED
      BY <2>3, <3>1 DEF TargetIsExact, MeetsTarget, Target, a
  <2>4. CASE n # 0
    <3>1. v \in Nat /\ Below(a, Critical, v) <= i /\ i < Upto(a, Critical, v)
      BY <2>1, <2>2, <2>4, PercentileIs
    <3>2. i \in Nat /\ 100 * i <= 95 * n /\ 95 * n < 100 * i + 100
      BY <2>2, IndexOf95
    <3> HIDE DEF n, i, v
    <3>3. v < 100 => 100 * Below(a, Critical, 100) > 95 * n
      <4> SUFFICES ASSUME v < 100 PROVE 100 * Below(a, Critical, 100) > 95 * n
        OBVIOUS
      <4>1. Upto(a, Critical, v) \in Nat /\ Upto(a, Critical, v) <= Below(a, Critical, 100)
        BY <2>1, <3>1, UptoGrows
      <4> QED
        BY <2>2, <3>1, <3>2, <4>1
    <3>4. ~ (v < 100) => ~ (100 * Below(a, Critical, 100) > 95 * n)
      <4> SUFFICES ASSUME ~ (v < 100) PROVE 100 * Below(a, Critical, 100) <= 95 * n
        BY <2>2 DEF n
      <4>1. Below(a, Critical, v) \in Nat /\ Below(a, Critical, 100) <= Below(a, Critical, v)
        <5>1. /\ 100 < v => Upto(a, Critical, 100) <= Below(a, Critical, v)
              /\ Upto(a, Critical, 100) \in Nat /\ Below(a, Critical, v) \in Nat
              /\ Below(a, Critical, 100) <= Upto(a, Critical, 100)
          BY <2>1, <3>1, UptoGrows
        <5> QED
          BY <2>2, <3>1, <5>1
      <4> QED
        BY <2>2, <3>1, <3>2, <4>1
    <3>5. v < 100 <=> MeetsTarget
      BY DEF MeetsTarget, Target, v, a
    <3> QED
      BY <2>2, <2>4, <3>3, <3>4, <3>5 DEF TargetIsExact, n, a
  <2> QED
    BY <2>3, <2>4
<1> QED
  BY <1>1, InvInvariant, PTL

(* A report that is held while the collector goes on has at least as many  *)
(* transactions by type as in total, however often the collector is reset; *)
(* its own object's counts are those of the collector until it is.         *)
THEOREM HeldReportAlwaysAddsUp == Spec => []HeldReportAddsUp
<1>1. Inv => HeldReportAddsUp
  BY DEF Inv, Recorded, AllCounted, Holding, TypesOf, HeldReportAddsUp
<1> QED
  BY <1>1, InvInvariant, PTL

=============================================================================
