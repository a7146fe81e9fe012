------------------------- MODULE FabricLedgerProofs -------------------------
(***************************************************************************)
(* Proofs about FabricLedger, for every number of transactions, keys and   *)
(* peers, every set of chaincode calls and every batch size.               *)
(***************************************************************************)
EXTENDS FabricLedger, FiniteSetTheorems, SequenceTheorems, TLAPS

(* What the leaves below need of Invoke: the reads of an accepted call. *)
LEMMA InvokeReads ==
  ASSUME NEW w \in WorldState, NEW o \in Ops
  PROVE  /\ Invoke(w, o).answer \in {"ok", "exists", "noSender", "malformed"}
         /\ Invoke(w, o).reads \subseteq Keys \X Version
         /\ Invoke(w, o).answer = "ok" =>
              /\ w[o.key] = Absent
              /\ IF o.fn = "SubmitV2XMessage"
                 THEN /\ w[o.vehicle] # Absent
                      /\ Invoke(w, o).reads = {<<o.key, Absent>>, <<o.vehicle, w[o.vehicle]>>}
                 ELSE Invoke(w, o).reads = {<<o.key, Absent>>}
<1>1. o \in Call
  BY LedgerAssumption DEF LedgerAssumption
<1>2. CASE o.fn = "RegisterVehicle"
  BY <1>1, <1>2 DEF Invoke, RegisterVehicle, Exists, Read, Call, WorldState
<1>3. CASE o.fn = "SubmitV2XMessage"
  BY <1>1, <1>3 DEF Invoke, SubmitV2XMessage, Exists, Read, Call, WorldState
<1>4. CASE o.fn = "SubmitSecurityAlert"
  BY <1>1, <1>4 DEF Invoke, SubmitSecurityAlert, Exists, Read, Call, WorldState
<1> QED
  BY <1>1, <1>2, <1>3, <1>4 DEF Call, Functions

(* Ordering appends: the chain grows by one and keeps what it holds. *)
LEMMA OrderAppends ==
  ASSUME TypeOK, NEW t \in Txs, Order(t)
  PROVE  /\ chain' \in Seq(Txs)
         /\ Len(chain) \in Nat
         /\ Len(chain') = Len(chain) + 1
         /\ chain'[Len(chain) + 1] = t
         /\ \A i \in 1..Len(chain) : chain'[i] = chain[i] /\ chain[i] \in Txs
BY AppendProperties, ElementOfSeq DEF TypeOK, Order

(* The open block is finite and, cut or extended, never too long. *)
LEMMA UncutStep ==
  ASSUME TypeOK, [Next]_vars
  PROVE  Cardinality(Uncut') <= BatchSize
<1>0. /\ Len(chain) \in Nat
      /\ Cardinality(Uncut) <= BatchSize
      /\ BatchSize \in Nat
  BY LedgerAssumption DEF TypeOK, LedgerAssumption
<1>1. IsFiniteSet(Uncut) /\ Cardinality(Uncut) \in Nat
  <2>1. IsFiniteSet(1..Len(chain))
    BY <1>0, FS_Interval
  <2> QED
    BY <2>1, FS_Subset, FS_CardinalityType DEF Uncut
<1>2. ASSUME NEW t \in Txs, Order(t) PROVE Cardinality(Uncut') <= BatchSize
  <2>1. Uncut' \subseteq Uncut \union {Len(chain) + 1}
    BY <1>0, <1>2, OrderAppends DEF Uncut, Order
  <2>2. /\ IsFiniteSet(Uncut \union {Len(chain) + 1})
        /\ Cardinality(Uncut \union {Len(chain) + 1}) <= Cardinality(Uncut) + 1
    <3> DEFINE S == Uncut
               x == Len(chain) + 1
    <3>1. IsFiniteSet(S) /\ Cardinality(S) \in Nat
      BY <1>1
    <3> HIDE DEF S, x
    <3>2. /\ IsFiniteSet(S \union {x})
          /\ Cardinality(S \union {x}) = IF x \in S THEN Cardinality(S) ELSE Cardinality(S) + 1
      BY <3>1, FS_AddElement
    <3>3. Cardinality(S \union {x}) <= Cardinality(S) + 1
      BY <3>1, <3>2
    <3> QED
      BY <3>2, <3>3 DEF S, x
  <2>3. Cardinality(Uncut') <= Cardinality(Uncut \union {Len(chain) + 1})
    BY <2>1, <2>2, FS_Subset
  <2>4. Cardinality(Uncut) < BatchSize
    BY <1>2 DEF Order
  <2>5. Cardinality(Uncut') \in Nat /\ Cardinality(Uncut \union {Len(chain) + 1}) \in Nat
    BY <2>1, <2>2, FS_Subset, FS_CardinalityType
  <2> QED
    BY <1>0, <1>1, <2>2, <2>3, <2>4, <2>5
<1>3. CASE Cut
  <2>1. Uncut' = {}
    BY <1>0, <1>3 DEF Cut, Uncut
  <2> QED
    BY <2>1, <1>0, FS_EmptySet
<1>4. CASE UNCHANGED <<chain, blocks>>
  BY <1>0, <1>4 DEF Uncut
<1> QED
  BY <1>2, <1>3, <1>4 DEF Next, Endorse, Commit, Quiescent, vars

(* No step leaves the types. *)
LEMMA TypeStep == TypeOK /\ CallsKnown /\ [Next]_vars => TypeOK'
<1> SUFFICES ASSUME TypeOK, CallsKnown, [Next]_vars PROVE TypeOK'
  OBVIOUS
<1>0. Cardinality(Uncut') <= BatchSize
  BY UncutStep
<1>1. ASSUME NEW t \in Txs, NEW o \in Ops, NEW p \in Peers, Endorse(t, o, p) PROVE TypeOK'
  <2>1. world[p] \in WorldState
    BY DEF TypeOK
  <2>2. status' \in [Txs -> Statuses]
    BY <1>1, <2>1, InvokeReads DEF TypeOK, Endorse, Statuses
  <2>3. reads' \in [Txs -> SUBSET (Keys \X Version)]
    BY <1>1, <2>1, InvokeReads DEF TypeOK, Endorse
  <2> QED
    BY <1>0, <1>1, <2>2, <2>3 DEF TypeOK, Endorse
<1>2. ASSUME NEW t \in Txs, Order(t) PROVE TypeOK'
  <2>1. blocks' \subseteq 0..Len(chain') /\ height' \in [Peers -> 0..Len(chain')]
    BY <1>2, OrderAppends DEF TypeOK, Order
  <2>2. status' \in [Txs -> Statuses]
    BY <1>2 DEF TypeOK, Order, Statuses
  <2> QED
    BY <1>0, <1>2, <2>1, <2>2, OrderAppends DEF TypeOK, Order
<1>3. CASE Cut
  <2>1. Len(chain) \in Nat
    BY DEF TypeOK
  <2>2. chain' = chain /\ blocks' = blocks \union {Len(chain)} /\ blocks \subseteq 0..Len(chain)
    BY <1>3 DEF TypeOK, Cut
  <2>3. blocks' \subseteq 0..Len(chain')
    <3>1. Len(chain) \in 0..Len(chain)
      BY <2>1
    <3> QED
      BY <2>2, <3>1
  <2> QED
    BY <1>0, <1>3, <2>3 DEF TypeOK, Cut
<1>4. ASSUME NEW p \in Peers, Commit(p) PROVE TypeOK'
  <2>1. height[p] + 1 \in 1..Len(chain)
    BY <1>4 DEF TypeOK, Commit
  <2> DEFINE t == chain[height[p] + 1]
  <2>2. t \in Txs
    BY <2>1, ElementOfSeq DEF TypeOK
  <2>3. op[t].key \in Keys
    BY <2>1, <2>2, LedgerAssumption DEF CallsKnown, TypeOK, LedgerAssumption, Call
  <2>4. world' \in [Peers -> WorldState]
    <3>1. CASE world' = world
      BY <3>1 DEF TypeOK
    <3>2. CASE world' = [world EXCEPT ![p][op[t].key] = t]
      <4>1. world[p] \in WorldState
        BY DEF TypeOK
      <4>2. [world[p] EXCEPT ![op[t].key] = t] \in WorldState
        BY <4>1, <2>2, <2>3 DEF WorldState, Version
      <4> QED
        BY <3>2, <4>2 DEF TypeOK
    <3> QED
      BY <1>4, <3>1, <3>2 DEF Commit
  <2>5. height' \in [Peers -> 0..Len(chain')]
    BY <1>4, <2>1 DEF TypeOK, Commit
  <2> QED
    BY <1>0, <1>4, <2>4, <2>5 DEF TypeOK, Commit
<1>5. CASE UNCHANGED vars
  BY <1>0, <1>5 DEF TypeOK, vars
<1> QED
  BY <1>1, <1>2, <1>3, <1>4, <1>5 DEF Next, Quiescent

-----------------------------------------------------------------------------
(* The chain only grows at its end, so what is first stays first. *)

(* Nothing that the ordered transactions are judged by changes. *)
ChainKept == /\ chain' = chain
             /\ \A i \in 1..Len(chain) : op'[chain[i]] = op[chain[i]] /\ reads'[chain[i]] = reads[chain[i]]

(* An endorsement leaves the ordered transactions alone. *)
LEMMA EndorseKeeps ==
  ASSUME TypeOK, CallsKnown, NEW t \in Txs, NEW o \in Ops, NEW p \in Peers, Endorse(t, o, p)
  PROVE  ChainKept
<1>1. \A i \in 1..Len(chain) : chain[i] \in Txs /\ chain[i] # t
  BY ElementOfSeq DEF TypeOK, CallsKnown, Endorse
<1> QED
  BY <1>1 DEF TypeOK, Endorse, ChainKept

(* Calls are known after every step. *)
LEMMA CallsStep == TypeOK /\ CallsKnown /\ [Next]_vars => CallsKnown'
<1> SUFFICES ASSUME TypeOK, CallsKnown, [Next]_vars PROVE CallsKnown'
  OBVIOUS
<1>1. ASSUME NEW t \in Txs, NEW o \in Ops, NEW p \in Peers, Endorse(t, o, p) PROVE CallsKnown'
  <2>1. o # Absent /\ world[p] \in WorldState
    BY LedgerAssumption DEF LedgerAssumption, TypeOK
  <2>2. \A q \in Txs : status'[q] = "new" <=> op'[q] = Absent
    BY <1>1, <2>1, InvokeReads DEF TypeOK, CallsKnown, Endorse
  <2>3. \A i \in 1..Len(chain) : chain[i] \in Txs /\ chain[i] # t
    BY <1>1, ElementOfSeq DEF TypeOK, CallsKnown, Endorse
  <2>4. chain' = chain /\ \A i \in 1..Len(chain') : status'[chain'[i]] = "ordered"
    BY <1>1, <2>3 DEF TypeOK, CallsKnown, Endorse
  <2> QED
    BY <2>2, <2>4 DEF CallsKnown
<1>2. ASSUME NEW t \in Txs, Order(t) PROVE CallsKnown'
  <2>1. \A q \in Txs : status'[q] = "new" <=> op'[q] = Absent
    BY <1>2 DEF TypeOK, CallsKnown, Order
  <2>2. \A i \in 1..Len(chain') : status'[chain'[i]] = "ordered"
    <3>1. \A i \in 1..Len(chain) : status'[chain[i]] = "ordered"
      BY <1>2, OrderAppends DEF TypeOK, CallsKnown, Order
    <3>2. status'[t] = "ordered"
      BY <1>2 DEF TypeOK, Order
    <3> QED
      BY <1>2, <3>1, <3>2, OrderAppends
  <2> QED
    BY <2>1, <2>2 DEF CallsKnown
<1>3. CASE UNCHANGED <<op, status, chain>>
  BY <1>3 DEF CallsKnown
<1> QED
  BY <1>1, <1>2, <1>3 DEF Next, Cut, Commit, Quiescent, vars

(* Two first transactions for one key are the same. *)
LEMMA FirstUnique ==
  ASSUME Len(chain) \in Nat, NEW i \in 1..Len(chain), NEW j \in 1..Len(chain),
         First(i), First(j), KeyAt(i) = KeyAt(j)
  PROVE  i = j
BY DEF First

(* Being first and having read true survive a step that keeps the chain. *)
LEMMA KeptTrue ==
  ASSUME TypeOK, ChainKept, NEW t \in Txs, op'[t] = op[t], reads'[t] = reads[t],
         NEW n \in 0..Len(chain), ReadsTrue(t, n)
  PROVE  ReadsTrue(t, n)'
<1>0. Len(chain) \in Nat
  BY DEF TypeOK
<1>1. \A j \in 1..Len(chain) : KeyAt(j)' = KeyAt(j) /\ chain'[j] = chain[j]
  BY DEF ChainKept, KeyAt
<1>2. \A j \in 1..Len(chain) : First(j)' <=> First(j)
  BY <1>0, <1>1 DEF First
<1> QED
  BY <1>0, <1>1, <1>2 DEF ReadsTrue

(* ... and one that appends to it. *)
LEMMA AppendTrue ==
  ASSUME TypeOK, NEW q \in Txs, Order(q), NEW t \in Txs, NEW n \in 0..Len(chain), ReadsTrue(t, n)
  PROVE  ReadsTrue(t, n)'
<1>0. Len(chain) \in Nat /\ op' = op /\ reads' = reads
  BY DEF TypeOK, Order
<1>1. \A j \in 1..Len(chain) : KeyAt(j)' = KeyAt(j) /\ chain'[j] = chain[j]
  BY <1>0, OrderAppends DEF KeyAt
<1>2. \A j \in 1..Len(chain) : First(j)' <=> First(j)
  BY <1>0, <1>1 DEF First
<1> QED
  BY <1>0, <1>1, <1>2 DEF ReadsTrue

(* What an endorsed or ordered transaction has read stays true. *)
LEMMA ReadsStep ==
  ASSUME TypeOK, CallsKnown, ReadsKnown, WorldIsFirst, [Next]_vars
  PROVE  ReadsKnown'
<1>0. Len(chain) \in Nat /\ \A i \in 1..Len(chain) : chain[i] \in Txs /\ i - 1 \in 0..Len(chain)
  BY ElementOfSeq DEF TypeOK
<1>a. /\ \A q \in Txs : status[q] = "endorsed" => \A n : n = Len(chain) => ReadsTrue(q, n)
      /\ \A i \in 1..Len(chain), q \in Txs : q = chain[i] => ReadsTrue(q, i - 1)
  BY DEF ReadsKnown
<1>b. ASSUME \A q \in Txs : status'[q] = "endorsed" => \A n : n = Len(chain') => ReadsTrue(q, n)',
             \A i \in 1..Len(chain'), q \in Txs : q = chain'[i] => ReadsTrue(q, i - 1)',
             \A i \in 1..Len(chain') : chain'[i] \in Txs
      PROVE  ReadsKnown'
  BY <1>b DEF ReadsKnown, ReadsTrue, First, KeyAt
<1>1. ASSUME NEW t \in Txs, NEW o \in Ops, NEW p \in Peers, Endorse(t, o, p) PROVE ReadsKnown'
  <2>0. ChainKept
    BY <1>1, EndorseKeeps
  <2>1. chain' = chain
    BY <2>0 DEF ChainKept
  <2>2. ASSUME NEW i \in 1..Len(chain), NEW q \in Txs, q = chain[i] PROVE ReadsTrue(q, i - 1)'
    <3>1. op'[q] = op[q] /\ reads'[q] = reads[q]
      BY <2>0, <2>2 DEF ChainKept
    <3> QED
      BY <1>0, <1>a, <2>0, <2>2, <3>1, KeptTrue
  <2>3. ASSUME NEW q \in Txs, status'[q] = "endorsed", q # t, NEW n, n = Len(chain)
        PROVE  ReadsTrue(q, n)'
    <3>1. status[q] = "endorsed" /\ op'[q] = op[q] /\ reads'[q] = reads[q]
      BY <1>1, <2>3 DEF Endorse, TypeOK
    <3>2. n \in 0..Len(chain)
      BY <1>0, <2>3
    <3> QED
      BY <1>a, <2>0, <2>3, <3>1, <3>2, KeptTrue
  <2>4. ASSUME status'[t] = "endorsed", NEW n, n = Len(chain) PROVE ReadsTrue(t, n)'
    <3> DEFINE w == world[p]
    <3>1. w \in WorldState /\ height[p] \in 0..Len(chain)
      BY DEF TypeOK
    <3>2. Invoke(w, o).answer = "ok" /\ op'[t] = o /\ reads'[t] = Invoke(w, o).reads
      BY <1>1, <2>4, <3>1, InvokeReads DEF Endorse, TypeOK
    <3>3. CASE o.fn # "SubmitV2XMessage"
      BY <3>1, <3>2, <3>3, InvokeReads DEF ReadsTrue
    <3>4. CASE o.fn = "SubmitV2XMessage"
      <4>1. w[o.vehicle] # Absent /\ reads'[t] = {<<o.key, Absent>>, <<o.vehicle, w[o.vehicle]>>}
        BY <3>1, <3>2, <3>4, InvokeReads
      <4>2. o.vehicle \in Keys
        BY LedgerAssumption DEF LedgerAssumption, Call
      <4>3. PICK j \in 1..height[p] : chain[j] = w[o.vehicle] /\ KeyAt(j) = o.vehicle /\ First(j)
        BY <4>1, <4>2 DEF WorldIsFirst, Exists
      <4>4. j \in 1..Len(chain)
        BY <3>1, <1>0
      <4>5. KeyAt(j)' = KeyAt(j) /\ First(j)' /\ chain'[j] = chain[j]
        BY <1>0, <2>0, <4>3, <4>4 DEF ChainKept, KeyAt, First
      <4> QED
        BY <2>4, <3>2, <3>4, <4>1, <4>3, <4>4, <4>5 DEF ReadsTrue
    <3> QED
      BY <3>3, <3>4
  <2>5. \A i \in 1..Len(chain') : chain'[i] \in Txs
    BY <1>0, <2>1
  <2>6. \A q \in Txs : status'[q] = "endorsed" => \A n : n = Len(chain') => ReadsTrue(q, n)'
    BY <2>1, <2>3, <2>4
  <2>7. \A i \in 1..Len(chain'), q \in Txs : q = chain'[i] => ReadsTrue(q, i - 1)'
    BY <2>1, <2>2
  <2> QED
    BY <1>b, <2>5, <2>6, <2>7
<1>2. ASSUME NEW t \in Txs, Order(t) PROVE ReadsKnown'
  <2>0. /\ Len(chain') = Len(chain) + 1 /\ chain'[Len(chain) + 1] = t
        /\ \A i \in 1..Len(chain) : chain'[i] = chain[i]
    BY <1>2, OrderAppends
  <2>1. ASSUME NEW i \in 1..Len(chain), NEW q \in Txs, q = chain[i] PROVE ReadsTrue(q, i - 1)'
    BY <1>0, <1>2, <1>a, <2>1, AppendTrue
  <2>2. ASSUME NEW q \in Txs, status[q] = "endorsed", NEW n, n = Len(chain) PROVE ReadsTrue(q, n)'
    <3>1. n \in 0..Len(chain) /\ ReadsTrue(q, n)
      BY <1>0, <1>a, <2>2
    <3> QED
      BY <1>2, <3>1, AppendTrue
  <2>3. status[t] = "endorsed" /\ \A q \in Txs : status'[q] = "endorsed" => status[q] = "endorsed"
    BY <1>2 DEF Order, TypeOK
  <2>4. ASSUME NEW q \in Txs, status'[q] = "endorsed", NEW n, n = Len(chain') PROVE ReadsTrue(q, n)'
    <3>1. PICK m : m = Len(chain)
      OBVIOUS
    <3>2. ReadsTrue(q, m)'
      BY <2>2, <2>3, <2>4, <3>1
    <3>3. n = m + 1 /\ m \in Nat
      BY <1>0, <2>0, <2>4, <3>1
    <3> QED
      BY <3>2, <3>3 DEF ReadsTrue
  <2>5. ASSUME NEW i \in 1..Len(chain'), NEW q \in Txs, q = chain'[i] PROVE ReadsTrue(q, i - 1)'
    <3>1. CASE i \in 1..Len(chain)
      BY <2>0, <2>1, <2>5, <3>1
    <3>2. CASE i = Len(chain) + 1
      <4>1. q = t /\ i - 1 = Len(chain)
        BY <1>0, <2>0, <2>5, <3>2
      <4> QED
        BY <4>1, <2>2, <2>3
    <3> QED
      BY <1>0, <2>0, <3>1, <3>2
  <2>6. \A i \in 1..Len(chain') : chain'[i] \in Txs
    BY <1>0, <2>0
  <2> QED
    BY <1>b, <2>4, <2>5, <2>6
<1>3. CASE UNCHANGED <<op, status, reads, chain>>
  BY <1>3 DEF ReadsKnown, ReadsTrue, First, KeyAt
<1> QED
  BY <1>1, <1>2, <1>3 DEF Next, Cut, Commit, Quiescent, vars

-----------------------------------------------------------------------------
(* Validation: a transaction takes effect exactly if it is the first for   *)
(* its key.                                                                *)

LEMMA CommitDecides ==
  ASSUME TypeOK, CallsKnown, ReadsKnown, WorldIsFirst,
         NEW p \in Peers, NEW i \in 1..Len(chain), i = height[p] + 1,
         NEW t, t = chain[i]
  PROVE  /\ t \in Txs /\ op[t] \in Call /\ op[t].key \in Keys
         /\ Current(t, world[p]) <=> ~Exists(world[p], op[t].key)
         /\ Current(t, world[p]) => First(i)
<1>0. Len(chain) \in Nat /\ t \in Txs /\ height[p] \in 0..Len(chain) /\ height[p] = i - 1
  BY ElementOfSeq DEF TypeOK
<1>1. op[t] \in Call /\ op[t].key \in Keys /\ op[t].vehicle \in Keys
  BY <1>0, LedgerAssumption DEF CallsKnown, TypeOK, LedgerAssumption, Call
<1>2. <<op[t].key, Absent>> \in reads[t]
  BY DEF ReadsKnown, ReadsTrue
<1>3. Current(t, world[p]) => ~Exists(world[p], op[t].key)
  BY <1>2 DEF Current, Exists
<1>4. ASSUME ~Exists(world[p], op[t].key) PROVE Current(t, world[p])
  <2>1. CASE op[t].fn # "SubmitV2XMessage"
    <3>1. reads[t] = {<<op[t].key, Absent>>}
      BY <2>1 DEF ReadsKnown, ReadsTrue
    <3> QED
      BY <1>4, <3>1 DEF Current, Exists
  <2>2. CASE op[t].fn = "SubmitV2XMessage"
    <3>1. PICK j \in 1..(i - 1) : /\ First(j) /\ KeyAt(j) = op[t].vehicle
                                   /\ reads[t] = {<<op[t].key, Absent>>, <<op[t].vehicle, chain[j]>>}
      BY <2>2 DEF ReadsKnown, ReadsTrue
    <3>2. j \in 1..height[p] /\ j \in 1..Len(chain)
      BY <1>0
    <3>3. Exists(world[p], op[t].vehicle)
      BY <1>1, <3>1, <3>2 DEF WorldIsFirst
    <3>4. PICK h \in 1..height[p] : /\ chain[h] = world[p][op[t].vehicle]
                                     /\ KeyAt(h) = op[t].vehicle /\ First(h)
      BY <1>1, <3>3 DEF WorldIsFirst
    <3>5. h = j
      BY <1>0, <3>1, <3>2, <3>4, FirstUnique
    <3>6. world[p][op[t].key] = Absent /\ world[p][op[t].vehicle] = chain[j]
      BY <1>4, <3>4, <3>5 DEF Exists
    <3>7. ASSUME NEW x \in reads[t] PROVE world[p][x[1]] = x[2]
      <4>1. CASE x = <<op[t].key, Absent>>
        BY <3>6, <4>1
      <4>2. CASE x = <<op[t].vehicle, chain[j]>>
        BY <3>6, <4>2
      <4> QED
        BY <3>1, <4>1, <4>2
    <3> QED
      BY <3>7 DEF Current
  <2> QED
    BY <2>1, <2>2
<1>5. ~Exists(world[p], op[t].key) => First(i)
  BY <1>0, <1>1 DEF WorldIsFirst, First, KeyAt
<1> QED
  BY <1>0, <1>1, <1>3, <1>4, <1>5

(* A peer's world state stays that of the first transactions. *)
LEMMA WorldStep ==
  ASSUME TypeOK, CallsKnown, ReadsKnown, WorldIsFirst, [Next]_vars
  PROVE  WorldIsFirst'
<1>0. Len(chain) \in Nat /\ \A p \in Peers : height[p] \in 0..Len(chain)
  BY DEF TypeOK
<1>1. ASSUME \A j \in 1..Len(chain) : KeyAt(j)' = KeyAt(j) /\ chain'[j] = chain[j],
             UNCHANGED <<height, world>>
      PROVE  WorldIsFirst'
  <2>1. \A j \in 1..Len(chain) : First(j) => First(j)'
    BY <1>0, <1>1 DEF First
  <2> QED
    BY <1>0, <1>1, <2>1 DEF WorldIsFirst, Exists
<1>2. ASSUME NEW t \in Txs, NEW o \in Ops, NEW p \in Peers, Endorse(t, o, p) PROVE WorldIsFirst'
  BY <1>1, <1>2, EndorseKeeps DEF Endorse, ChainKept, KeyAt
<1>3. ASSUME NEW t \in Txs, Order(t) PROVE WorldIsFirst'
  BY <1>1, <1>3, OrderAppends DEF Order, KeyAt
<1>4. ASSUME NEW p \in Peers, Commit(p) PROVE WorldIsFirst'
  <2> DEFINE i == height[p] + 1
             t == chain[i]
  <2>1. /\ i \in 1..Len(chain) /\ chain' = chain /\ op' = op
        /\ height' = [height EXCEPT ![p] = i]
        /\ height'[p] = i /\ \A q \in Peers \ {p} : height'[q] = height[q] /\ world'[q] = world[q]
    BY <1>0, <1>4 DEF TypeOK, Commit
  <2>2. \A j \in 1..Len(chain) : KeyAt(j)' = KeyAt(j) /\ (First(j)' <=> First(j))
    BY <1>0, <2>1 DEF KeyAt, First
  <2>3. /\ t \in Txs /\ op[t].key \in Keys /\ KeyAt(i) = op[t].key
        /\ Current(t, world[p]) <=> ~Exists(world[p], op[t].key)
        /\ Current(t, world[p]) => First(i)
    BY <2>1, CommitDecides DEF KeyAt
  <2> HIDE DEF i, t
  <2>4. ASSUME NEW k \in Keys
        PROVE  IF Exists(world'[p], k)
               THEN \E j \in 1..i : chain[j] = world'[p][k] /\ KeyAt(j) = k /\ First(j)
               ELSE \A j \in 1..i : KeyAt(j) # k
    <3>1. i \in Nat /\ 1..i = 1..height[p] \union {i}
      BY <1>0, <2>1 DEF i
    <3>2. CASE Current(t, world[p])
      <4>1. world'[p] = [world[p] EXCEPT ![op[t].key] = t] /\ world[p] \in WorldState
        BY <1>4, <3>2 DEF Commit, TypeOK, t, i
      <4>2. t # Absent
        BY <2>3, LedgerAssumption DEF LedgerAssumption
      <4>3. CASE k = op[t].key
        BY <2>3, <3>1, <3>2, <4>1, <4>2, <4>3 DEF Exists, WorldState, t
      <4>4. CASE k # op[t].key
        <5>1. world'[p][k] = world[p][k]
          BY <4>1, <4>4 DEF WorldState
        <5> QED
          BY <2>3, <3>1, <4>4, <5>1 DEF Exists, WorldIsFirst
      <4> QED
        BY <4>3, <4>4
    <3>3. CASE ~Current(t, world[p])
      <4>1. world'[p] = world[p]
        BY <1>4, <3>3 DEF Commit, t, i
      <4> QED
        BY <2>3, <3>1, <3>3, <4>1 DEF WorldIsFirst, Exists
    <3> QED
      BY <3>2, <3>3
  <2>5. \A k \in Keys : IF Exists(world[p], k)'
                        THEN \E j \in 1..height'[p] : /\ chain'[j] = world'[p][k]
                                                      /\ KeyAt(j)' = k /\ First(j)'
                        ELSE \A j \in 1..height'[p] : KeyAt(j)' # k
    <3>1. \A j \in 1..i : j \in 1..Len(chain)
      BY <1>0, <2>1
    <3> QED
      BY <2>1, <2>2, <2>4, <3>1 DEF Exists
  <2>6. ASSUME NEW q \in Peers \ {p}
        PROVE  \A k \in Keys : IF Exists(world[q], k)'
                               THEN \E j \in 1..height'[q] : /\ chain'[j] = world'[q][k]
                                                             /\ KeyAt(j)' = k /\ First(j)'
                               ELSE \A j \in 1..height'[q] : KeyAt(j)' # k
    <3>1. \A j \in 1..height[q] : j \in 1..Len(chain)
      BY <1>0
    <3> QED
      BY <2>1, <2>2, <3>1 DEF WorldIsFirst, Exists
  <2> QED
    BY <2>5, <2>6 DEF WorldIsFirst
<1>5. CASE UNCHANGED <<op, chain, height, world>>
  BY <1>1, <1>5 DEF KeyAt
<1> QED
  BY <1>2, <1>3, <1>4, <1>5 DEF Next, Cut, Quiescent, vars

-----------------------------------------------------------------------------
(* The theorems. *)

LEMMA LedgerInvInit == Init => LedgerInv
<1> SUFFICES ASSUME Init PROVE LedgerInv
  OBVIOUS
<1>1. Len(chain) = 0 /\ chain \in Seq(Txs)
  BY DEF Init
<1>2. Uncut = {}
  BY <1>1 DEF Uncut
<1>3. Cardinality(Uncut) <= BatchSize
  BY <1>2, FS_EmptySet, LedgerAssumption DEF LedgerAssumption
<1>4. TypeOK
  BY <1>1, <1>3 DEF Init, TypeOK, Statuses, WorldState, Version
<1>5. CallsKnown /\ ReadsKnown /\ WorldIsFirst
  BY <1>1 DEF Init, CallsKnown, ReadsKnown, WorldIsFirst, Exists
<1> QED
  BY <1>4, <1>5 DEF LedgerInv

(* The inductive invariant holds of every reachable state. *)
THEOREM LedgerInvariant == Spec => []LedgerInv
<1>1. LedgerInv /\ [Next]_vars => LedgerInv'
  BY TypeStep, CallsStep, ReadsStep, WorldStep DEF LedgerInv
<1> QED
  BY LedgerInvInit, <1>1, PTL DEF Spec

(* The types of the model, the limit on an open block among them, hold. *)
THEOREM TypeCorrect == Spec => []TypeOK
<1>1. LedgerInv => TypeOK
  BY DEF LedgerInv
<1> QED
  BY <1>1, LedgerInvariant, PTL

(* A message is never committed without its sender's record, committed     *)
(* before it on the same peer, whichever peer endorsed it and however far  *)
(* behind the committing peer was.                                         *)
THEOREM SendersComeFirst == Spec => []SenderFirst
<1>1. ASSUME LedgerInv PROVE SenderFirst
  <2>0. /\ TypeOK /\ CallsKnown /\ ReadsKnown /\ WorldIsFirst
        /\ Len(chain) \in Nat /\ \A p \in Peers : height[p] \in 0..Len(chain)
    BY <1>1 DEF LedgerInv, TypeOK
  <2> SUFFICES ASSUME NEW p \in Peers, NEW k \in Keys, NEW t, t = world[p][k],
                      t # Absent, op[t].fn = "SubmitV2XMessage"
               PROVE  /\ Exists(world[p], op[t].vehicle)
                      /\ \E i, j \in 1..height[p] :
                           i < j /\ chain[i] = world[p][op[t].vehicle] /\ chain[j] = t
    BY DEF SenderFirst
  <2>1. PICK j \in 1..height[p] : chain[j] = t
    BY <2>0 DEF WorldIsFirst, Exists
  <2>2. j \in 1..Len(chain)
    BY <2>0
  <2>3. t \in Txs /\ op[t].vehicle \in Keys
    BY <2>0, <2>1, <2>2, ElementOfSeq, LedgerAssumption DEF CallsKnown, TypeOK, LedgerAssumption, Call
  <2>4. PICK i \in 1..(j - 1) : First(i) /\ KeyAt(i) = op[t].vehicle
    BY <2>0, <2>1, <2>2 DEF ReadsKnown, ReadsTrue
  <2>5. i \in 1..height[p] /\ i \in 1..Len(chain) /\ i < j
    BY <2>0
  <2>6. Exists(world[p], op[t].vehicle)
    BY <2>0, <2>3, <2>4, <2>5 DEF WorldIsFirst
  <2>7. PICK h \in 1..height[p] : /\ chain[h] = world[p][op[t].vehicle]
                                  /\ KeyAt(h) = op[t].vehicle /\ First(h)
    BY <2>0, <2>3, <2>6 DEF WorldIsFirst
  <2>8. h = i
    BY <2>0, <2>4, <2>5, <2>7, FirstUnique
  <2> QED
    BY <2>1, <2>5, <2>6, <2>7, <2>8
<1> QED
  BY <1>1, LedgerInvariant, PTL

(* Validation drops no transaction but a duplicate. *)
THEOREM OnlyDuplicatesDropped == Spec => []DroppedIsDuplicate
<1>1. ASSUME LedgerInv PROVE DroppedIsDuplicate
  <2>0. /\ TypeOK /\ CallsKnown /\ WorldIsFirst
        /\ Len(chain) \in Nat /\ \A p \in Peers : height[p] \in 0..Len(chain)
    BY <1>1 DEF LedgerInv, TypeOK
  <2> SUFFICES ASSUME NEW p \in Peers, NEW j \in 1..height[p]
               PROVE  \E i \in 1..j : /\ op[chain[i]].key = op[chain[j]].key
                                       /\ world[p][op[chain[j]].key] = chain[i]
    BY DEF DroppedIsDuplicate
  <2>1. j \in 1..Len(chain)
    BY <2>0
  <2>2. KeyAt(j) \in Keys
    BY <2>0, <2>1, ElementOfSeq, LedgerAssumption DEF KeyAt, CallsKnown, TypeOK, LedgerAssumption, Call
  <2>3. PICK i \in 1..height[p] : chain[i] = world[p][KeyAt(j)] /\ KeyAt(i) = KeyAt(j) /\ First(i)
    BY <2>0, <2>2 DEF WorldIsFirst
  <2>4. i \in 1..j
    BY <2>0, <2>3 DEF First
  <2> QED
    BY <2>3, <2>4 DEF KeyAt
<1> QED
  BY <1>1, LedgerInvariant, PTL

-----------------------------------------------------------------------------
(* The channel implements WriteOnceLedger. *)

(* Peers that hold something under a key hold the same transaction. *)
LEMMA Agreement ==
  ASSUME LedgerInv, NEW p \in Peers, NEW q \in Peers, NEW k \in Keys,
         Exists(world[p], k), Exists(world[q], k)
  PROVE  world[p][k] = world[q][k]
<1>0. Len(chain) \in Nat /\ height[p] \in 0..Len(chain) /\ height[q] \in 0..Len(chain)
  BY DEF LedgerInv, TypeOK
<1>1. PICK i \in 1..height[p] : chain[i] = world[p][k] /\ KeyAt(i) = k /\ First(i)
  BY DEF LedgerInv, WorldIsFirst
<1>2. PICK j \in 1..height[q] : chain[j] = world[q][k] /\ KeyAt(j) = k /\ First(j)
  BY DEF LedgerInv, WorldIsFirst
<1>3. i \in 1..Len(chain) /\ j \in 1..Len(chain)
  BY <1>0
<1> QED
  BY <1>0, <1>1, <1>2, <1>3, FirstUnique

(* The record of a key is what every peer that has one holds. *)
RecordAgrees ==
  \A k \in Keys :
    /\ \A p \in Peers : Exists(world[p], k) => Record[k] = world[p][k]
    /\ (\A p \in Peers : ~Exists(world[p], k)) => Record[k] = Absent

LEMMA RecordIs == LedgerInv => RecordAgrees
<1> SUFFICES ASSUME LedgerInv, NEW k \in Keys
             PROVE  /\ \A p \in Peers : Exists(world[p], k) => Record[k] = world[p][k]
                    /\ (\A p \in Peers : ~Exists(world[p], k)) => Record[k] = Absent
  BY DEF RecordAgrees
<1>1. ASSUME NEW p \in Peers, Exists(world[p], k) PROVE Record[k] = world[p][k]
  <2> DEFINE q == CHOOSE q \in Peers : Exists(world[q], k)
  <2>1. q \in Peers /\ Exists(world[q], k)
    BY <1>1
  <2>2. Record[k] = world[q][k]
    BY <1>1 DEF Record
  <2> HIDE DEF q
  <2> QED
    BY <1>1, <2>1, <2>2, Agreement
<1> QED
  BY <1>1 DEF Record

LEMMA RecordIsNext == LedgerInv' => RecordAgrees'
BY RecordIs, PTL

(* Every step is a step of the abstract ledger, or leaves it alone. *)
LEMMA LedgerStep ==
  ASSUME LedgerInv, LedgerInv', [Next]_vars
  PROVE  [Ledger!LedgerNext]_(Ledger!lvars)
<1>0. TypeOK /\ CallsKnown /\ ReadsKnown /\ WorldIsFirst
  BY DEF LedgerInv
<1>a. RecordAgrees /\ RecordAgrees'
  BY RecordIs, RecordIsNext
<1>b. UNCHANGED world => Record' = Record
  BY DEF Record, Exists
<1>1. ASSUME NEW t \in Txs, NEW o \in Ops, NEW p \in Peers, Endorse(t, o, p)
      PROVE  Ledger!LedgerNext
  <2>1. op[t] = Absent /\ op' = [op EXCEPT ![t] = o] /\ o # Absent /\ o \in Call
    BY <1>0, <1>1, LedgerAssumption DEF Endorse, CallsKnown, LedgerAssumption
  <2>2. o.key \in Keys /\ Needs(o) \in SUBSET Keys
    BY <2>1 DEF Needs, Call
  <2>3. Request[t] = Absent
    BY <2>1 DEF Request
  <2>4. Request' = [Request EXCEPT ![t] = [key |-> o.key, needs |-> Needs(o)]]
    BY <1>0, <2>1 DEF Request, TypeOK
  <2>5. Record' = Record /\ world' = world
    BY <1>1, <1>b DEF Endorse
  <2> QED
    BY <2>2, <2>3, <2>4, <2>5 DEF Ledger!LedgerNext, Ledger!Ask
<1>2. ASSUME NEW p \in Peers, Commit(p), world' # world
      PROVE  Ledger!LedgerNext
  <2>1. PICK i \in 1..Len(chain), t \in Txs :
          /\ i = height[p] + 1 /\ t = chain[i] /\ Current(t, world[p])
          /\ world' = [world EXCEPT ![p][op[t].key] = t]
    <3>1. height[p] + 1 \in 1..Len(chain)
      BY <1>0, <1>2 DEF Commit, TypeOK
    <3>2. chain[height[p] + 1] \in Txs
      BY <1>0, <3>1, ElementOfSeq DEF TypeOK
    <3> QED
      BY <1>2, <3>1, <3>2 DEF Commit
  <2>2. /\ op[t] \in Call /\ op[t].key \in Keys
        /\ ~Exists(world[p], op[t].key) /\ First(i)
    BY <1>0, <2>1, CommitDecides
  <2> DEFINE k == op[t].key
  <2>3. Request[t] = [key |-> k, needs |-> Needs(op[t])] /\ Request[t] # Absent
    <3>1. op[t] # Absent /\ [key |-> k, needs |-> Needs(op[t])] \in [key : Keys, needs : SUBSET Keys]
      BY <2>2, LedgerAssumption DEF LedgerAssumption, Needs, Call
    <3> QED
      BY <3>1, LedgerAssumption DEF LedgerAssumption, Request
  <2>4. \A n \in Needs(op[t]) : world[p][n] # Absent
    <3>1. CASE op[t].fn # "SubmitV2XMessage"
      BY <3>1 DEF Needs
    <3>2. CASE op[t].fn = "SubmitV2XMessage"
      <4>1. PICK j \in 1..(i - 1) : <<op[t].vehicle, chain[j]>> \in reads[t]
        BY <1>0, <2>1, <3>2 DEF ReadsKnown, ReadsTrue
      <4>2. chain[j] \in Txs
        BY <1>0, ElementOfSeq DEF TypeOK
      <4>3. world[p][op[t].vehicle] = chain[j]
        BY <2>1, <4>1 DEF Current
      <4> QED
        BY <3>2, <4>2, <4>3, LedgerAssumption DEF Needs, LedgerAssumption
    <3> QED
      BY <3>1, <3>2
  <2>5. Request' = Request
    BY <1>2 DEF Commit, Request
  <2>6. Ledger!Take(p, t)
    BY <2>1, <2>2, <2>3, <2>4, <2>5 DEF Ledger!Take, Exists
  <2>7. \A q \in Peers, n \in Keys : world'[q][n] = IF q = p /\ n = k THEN t ELSE world[q][n]
    BY <1>0, <2>1, <2>2 DEF TypeOK, WorldState
  <2>8. t # Absent
    BY <2>1, LedgerAssumption DEF LedgerAssumption
  <2>9. Record'[k] = t
    BY <1>a, <2>2, <2>7, <2>8 DEF RecordAgrees, Exists
  <2>10. \A n \in Keys \ {k} : Record'[n] = Record[n]
    <3> SUFFICES ASSUME NEW n \in Keys \ {k} PROVE Record'[n] = Record[n]
      OBVIOUS
    <3>1. \A q \in Peers : world'[q][n] = world[q][n]
      BY <2>7
    <3> QED
      BY <1>a, <3>1 DEF RecordAgrees, Exists
  <2>11. CASE Record[k] = Absent
    <3>1. Record' = [Record EXCEPT ![k] = t]
      BY <2>2, <2>9, <2>10 DEF Record
    <3>2. Request[t].key = k
      BY <2>3
    <3>3. Ledger!Write(p, t)
      BY <2>6, <2>11, <3>1, <3>2 DEF Ledger!Write
    <3> QED
      BY <3>3 DEF Ledger!LedgerNext
  <2>12. CASE Record[k] # Absent
    <3>1. PICK q \in Peers : Exists(world[q], k)
      BY <1>a, <2>2, <2>12 DEF RecordAgrees
    <3>2. Record[k] = world[q][k] /\ Record'[k] = world'[q][k] /\ q # p
      BY <1>a, <2>2, <2>7, <3>1 DEF RecordAgrees, Exists
    <3>3. Record[k] = t
      BY <2>2, <2>7, <2>9, <3>2
    <3>4. Record' = Record
      BY <2>2, <2>9, <2>10, <3>3 DEF Record
    <3> QED
      BY <2>3, <2>6, <3>3, <3>4 DEF Ledger!LedgerNext, Ledger!Follow
  <2> QED
    BY <2>11, <2>12
<1>3. CASE UNCHANGED <<op, world>>
  BY <1>b, <1>3 DEF Ledger!lvars, Request
<1> QED
  BY <1>1, <1>2, <1>3 DEF Next, Order, Cut, Commit, Quiescent, vars

(* The channel implements the write-once ledger. *)
THEOREM FabricImplementsLedger == Spec => ImplementsLedger
<1>1. Init => Ledger!LedgerInit
  BY DEF Init, Ledger!LedgerInit, Request, Record, Exists
<1>2. LedgerInv /\ LedgerInv' /\ [Next]_vars => [Ledger!LedgerNext]_(Ledger!lvars)
  BY LedgerStep
<1> QED
  BY <1>1, <1>2, LedgerInvariant, PTL DEF Spec, ImplementsLedger, Ledger!LedgerSpec

=============================================================================
