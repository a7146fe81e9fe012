------------------------- MODULE GatewayAccounting -------------------------
(***************************************************************************)
(* The proof that the gateway's statistics add up, for any number of       *)
(* concurrent requests: each step moves at most one request between the    *)
(* sets the counters are compared with, and counts what it moves.          *)
(***************************************************************************)
EXTENDS GatewayProofs

(* A step of request r leaves every other request where it is. *)
Only(r) == /\ boot' = boot
           /\ \A q \in Requests \ {r} : /\ pc'[q] = pc[q]
                                        /\ outcome'[q] = outcome[q]
                                        /\ life'[q] = life[q]

(* A finite set with one element more has one more, with one less one less. *)
LEMMA OneMore ==
  ASSUME NEW S, IsFiniteSet(S), NEW x, x \notin S
  PROVE  Cardinality(S \union {x}) = Cardinality(S) + 1 /\ Cardinality(S) \in Nat
BY FS_AddElement, FS_CardinalityType

LEMMA OneLess ==
  ASSUME NEW S, IsFiniteSet(S), NEW x \in S
  PROVE  Cardinality(S \ {x}) = Cardinality(S) - 1 /\ Cardinality(S \ {x}) \in Nat
<1>1. IsFiniteSet(S \ {x})
  BY FS_RemoveElement
<1> QED
  BY <1>1, FS_RemoveElement, FS_CardinalityType

(* The sets of requests Accounting counts are finite. *)
LEMMA CountedFinite ==
  /\ IsFiniteSet(Undecided) /\ IsFiniteSet(HalfTallied)
  /\ Cardinality(Undecided) \in Nat /\ Cardinality(HalfTallied) \in Nat
<1>1. Undecided \subseteq Requests /\ HalfTallied \subseteq Requests
  BY DEF Undecided, HalfTallied, Arrived
<1>2. IsFiniteSet(Undecided) /\ IsFiniteSet(HalfTallied)
  BY <1>1, FS_Subset, GatewayAssumption DEF GatewayAssumption
<1> QED
  BY <1>2, FS_CardinalityType

(* Where every other request stays. *)
LEMMA OthersStay ==
  ASSUME NEW r \in Requests, Only(r)
  PROVE  /\ Undecided' \ {r} = Undecided \ {r}
         /\ HalfTallied' \ {r} = HalfTallied \ {r}
BY DEF Only, Undecided, HalfTallied, Arrived

(* A counter goes up by one and the others stay. *)
LEMMA Counted ==
  ASSUME TypeOK, NEW c \in Counters, Count(c)
  PROVE  /\ stats'[c] = stats[c] + 1
         /\ \A d \in Counters \ {c} : stats'[d] = stats[d]
         /\ \A d \in Counters : stats[d] \in Nat
BY DEF TypeOK, Count

(* A step that counts nothing and moves no request keeps the balance. *)
LEMMA NothingMoves ==
  ASSUME Accounting, NEW r \in Requests, Only(r), stats' = stats,
         r \in Undecided' <=> r \in Undecided,
         r \in HalfTallied' <=> r \in HalfTallied
  PROVE  Accounting'
<1>1. Undecided' = Undecided /\ HalfTallied' = HalfTallied
  BY OthersStay
<1> QED
  BY <1>1 DEF Accounting

-----------------------------------------------------------------------------
(* The steps that move a request. *)

(* A request that arrives is counted and undecided. *)
LEMMA ReceiveCounts ==
  ASSUME TypeOK, Shape, Accounting, NEW r \in Requests,
         NEW route \in Routes, NEW d \in Dtos, Receive(r, route, d)
  PROVE  Accounting'
<1>1. Only(r)
  BY DEF Receive, Goto, Only, TypeOK
<1>2. r \notin Undecided /\ r \notin HalfTallied
  BY DEF Receive, Shape, TypeOK, Undecided, HalfTallied, Arrived
<1>3. r \in Undecided' /\ r \notin HalfTallied'
  BY DEF Receive, Goto, Shape, TypeOK, Undecided, HalfTallied, Arrived
<1>4. Undecided' = Undecided \union {r} /\ HalfTallied' = HalfTallied
  BY <1>1, <1>2, <1>3, OthersStay
<1>5. Cardinality(Undecided') = Cardinality(Undecided) + 1
  BY <1>2, <1>4, CountedFinite, OneMore
<1>6. "received" \in Counters /\ Count("received")
  BY DEF Receive, Counters
<1>7. /\ stats'["received"] = stats["received"] + 1
      /\ \A c \in Counters \ {"received"} : stats'[c] = stats[c]
      /\ \A c \in Counters : stats[c] \in Nat
  BY <1>6, Counted
<1> QED
  BY <1>4, <1>5, <1>7, CountedFinite DEF Accounting, Counters

(* A request that leaves the undecided as rejected is counted so. *)
LEMMA RejectionCounts ==
  ASSUME TypeOK, Accounting, NEW r \in Requests, Only(r), Count("rejected"),
         r \in Undecided, r \notin Undecided', r \notin HalfTallied, r \notin HalfTallied'
  PROVE  Accounting'
<1>1. Undecided' = Undecided \ {r} /\ HalfTallied' = HalfTallied
  BY OthersStay
<1>2. Cardinality(Undecided') = Cardinality(Undecided) - 1
  BY <1>1, CountedFinite, OneLess
<1>3. /\ stats'["rejected"] = stats["rejected"] + 1
      /\ \A c \in Counters \ {"rejected"} : stats'[c] = stats[c]
      /\ \A c \in Counters : stats[c] \in Nat
  BY Counted DEF Counters
<1> QED
  BY <1>1, <1>2, <1>3, CountedFinite DEF Accounting, Counters

LEMMA ConversionFailsCounts ==
  ASSUME TypeOK, Shape, Accounting, NEW r \in Requests, ConversionFails(r)
  PROVE  Accounting'
<1>1. Only(r) /\ Count("rejected")
  BY DEF ConversionFails, Conclude, Goto, Only, TypeOK
<1>2. r \in Undecided /\ r \notin HalfTallied
  BY DEF ConversionFails, Shape, InFlight, Undecided, HalfTallied, Arrived
<1>3. r \notin Undecided' /\ r \notin HalfTallied'
  BY DEF ConversionFails, Conclude, Goto, TypeOK, Undecided, HalfTallied, Arrived
<1> QED
  BY <1>1, <1>2, <1>3, RejectionCounts

(* A verdict takes its request from the undecided: a success is then half  *)
(* tallied.                                                                *)
LEMMA TallyVerdictCounts ==
  ASSUME TypeOK, Shape, Accounting, NEW r \in Requests, TallyVerdict(r)
  PROVE  Accounting'
<1>1. Only(r)
  BY DEF TallyVerdict, Goto, Only, TypeOK
<1>2. r \in Undecided /\ r \notin HalfTallied
  BY DEF TallyVerdict, Shape, InFlight, Undecided, HalfTallied, Arrived
<1>3. r \notin Undecided'
  BY DEF TallyVerdict, Shape, Goto, TypeOK, Undecided, Arrived
<1>4. CASE outcome[r] \notin Success
  <2>1. Count("rejected") /\ r \notin HalfTallied'
    BY <1>4 DEF TallyVerdict, Goto, TypeOK, HalfTallied, Arrived
  <2> QED
    BY <1>1, <1>2, <1>3, <2>1, RejectionCounts
<1>5. CASE outcome[r] \in Success
  <2>1. Count("validated") /\ r \in HalfTallied'
    BY <1>5 DEF TallyVerdict, Goto, TypeOK, Shape, InFlight, HalfTallied, Arrived, Success
  <2>2. Undecided' = Undecided \ {r} /\ HalfTallied' = HalfTallied \union {r}
    BY <1>1, <1>2, <1>3, <2>1, OthersStay
  <2>3. /\ Cardinality(Undecided') = Cardinality(Undecided) - 1
        /\ Cardinality(HalfTallied') = Cardinality(HalfTallied) + 1
    BY <1>2, <2>2, CountedFinite, OneLess, OneMore
  <2>4. /\ stats'["validated"] = stats["validated"] + 1
        /\ \A c \in Counters \ {"validated"} : stats'[c] = stats[c]
        /\ \A c \in Counters : stats[c] \in Nat
    BY <2>1, Counted DEF Counters
  <2> QED
    BY <2>3, <2>4, CountedFinite DEF Accounting, Counters
<1> QED
  BY <1>4, <1>5

(* A status takes its request from the half tallied. *)
LEMMA TallyStatusCounts ==
  ASSUME TypeOK, Shape, Accounting, NEW r \in Requests, TallyStatus(r)
  PROVE  Accounting'
<1>1. Only(r) /\ outcome[r] \in Success /\ Count(outcome[r])
  BY DEF TallyStatus, Goto, Only, TypeOK, Shape, Accepted
<1>2. r \notin Undecided /\ r \in HalfTallied
  BY <1>1 DEF TallyStatus, Shape, InFlight, Success, Undecided, HalfTallied, Arrived
<1>3. r \notin Undecided' /\ r \notin HalfTallied'
  BY <1>1 DEF TallyStatus, Goto, TypeOK, Success, Undecided, HalfTallied, Arrived
<1>4. Undecided' = Undecided /\ HalfTallied' = HalfTallied \ {r}
  BY <1>1, <1>2, <1>3, OthersStay
<1>5. Cardinality(HalfTallied') = Cardinality(HalfTallied) - 1
  BY <1>2, <1>4, CountedFinite, OneLess
<1>6. outcome[r] \in Counters /\ outcome[r] \in {"submitted", "aggregated"}
  BY <1>1 DEF Success, Counters
<1>7. /\ stats'[outcome[r]] = stats[outcome[r]] + 1
      /\ \A c \in Counters \ {outcome[r]} : stats'[c] = stats[c]
      /\ \A c \in Counters : stats[c] \in Nat
  BY <1>1, <1>6, Counted
<1>8. /\ \A c \in {"received", "validated", "rejected"} : stats'[c] = stats[c]
      /\ stats'["submitted"] + stats'["aggregated"] = stats["submitted"] + stats["aggregated"] + 1
  <2>1. /\ "received" \in Counters \ {outcome[r]} /\ "validated" \in Counters \ {outcome[r]}
        /\ "rejected" \in Counters \ {outcome[r]}
    BY <1>6 DEF Counters
  <2>2. CASE outcome[r] = "submitted"
    <3>1. stats'["submitted"] = stats["submitted"] + 1 /\ stats'["aggregated"] = stats["aggregated"]
      BY <1>7, <2>2 DEF Counters
    <3> QED
      BY <1>7, <2>1, <3>1 DEF Counters
  <2>3. CASE outcome[r] = "aggregated"
    <3>1. stats'["aggregated"] = stats["aggregated"] + 1 /\ stats'["submitted"] = stats["submitted"]
      BY <1>7, <2>3 DEF Counters
    <3> QED
      BY <1>7, <2>1, <3>1 DEF Counters
  <2> QED
    BY <1>6, <2>2, <2>3
<1>9. /\ stats["received"] \in Nat /\ stats["validated"] \in Nat /\ stats["rejected"] \in Nat
      /\ stats["submitted"] \in Nat /\ stats["aggregated"] \in Nat
  BY <1>7 DEF Counters
<1> QED
  BY <1>4, <1>5, <1>8, <1>9, CountedFinite DEF Accounting

-----------------------------------------------------------------------------
(* The steps that move none. *)

LEMMA OthersCountNothing ==
  ASSUME TypeOK, Shape, Accounting, NEW r \in Requests,
         \/ RejectBody(r) \/ Convert(r)
         \/ CheckReplayAttack(r) \/ InsertKey(r) \/ ValidatePlausibility(r)
         \/ Aggregate(r) \/ SubmitLoad(r) \/ SubmitStore(r) \/ PortFails(r)
  PROVE  Accounting'
<1> USE DEF TypeOK, Shape, InFlight, Conclude, Goto
<1>1. CASE RejectBody(r)
  <2>1. Only(r) /\ stats' = stats
    BY <1>1 DEF RejectBody, Only
  <2>2. r \notin Undecided /\ r \notin HalfTallied /\ r \notin Undecided' /\ r \notin HalfTallied'
    BY <1>1 DEF RejectBody, Undecided, HalfTallied, Arrived
  <2> QED
    BY <2>1, <2>2, NothingMoves
<1>2. CASE ~RejectBody(r)
  <2>1. Only(r) /\ stats' = stats
    <3>1. ASSUME Convert(r) \/ CheckReplayAttack(r) \/ InsertKey(r) \/ ValidatePlausibility(r)
          PROVE  Only(r) /\ stats' = stats
      BY <3>1 DEF Convert, CheckReplayAttack, InsertKey, ValidatePlausibility, Only
    <3>2. ASSUME Aggregate(r) \/ SubmitLoad(r) \/ SubmitStore(r)
          PROVE  Only(r) /\ stats' = stats
      BY <3>2 DEF Aggregate, SubmitLoad, SubmitStore, Only
    <3>3. ASSUME PortFails(r) PROVE Only(r) /\ stats' = stats
      BY <3>3 DEF PortFails, Only
    <3> QED
      BY <1>2, <3>1, <3>2, <3>3
  <2>2. r \in Undecided /\ r \notin HalfTallied
    <3>1. pc[r] \in {"convert", "secure", "insert", "plausible", "dispatch", "append"}
      <4>1. PortFails(r) => pc[r] \in {"secure", "dispatch"}
        BY DEF PortFails
      <4> QED
        BY <1>2, <4>1
        DEF Convert, CheckReplayAttack, InsertKey, ValidatePlausibility, Aggregate, SubmitLoad, SubmitStore
    <3> QED
      BY <3>1 DEF Undecided, HalfTallied, Arrived
  <2>3. r \in Undecided' /\ r \notin HalfTallied'
    <3>1. ASSUME Convert(r) \/ CheckReplayAttack(r) \/ InsertKey(r) \/ ValidatePlausibility(r)
          PROVE  r \in Undecided' /\ r \notin HalfTallied'
      BY <2>2, <3>1
      DEF Convert, CheckReplayAttack, InsertKey, ValidatePlausibility, Undecided, HalfTallied, Arrived
    <3>2. ASSUME Aggregate(r) \/ SubmitLoad(r) \/ SubmitStore(r)
          PROVE  r \in Undecided' /\ r \notin HalfTallied'
      BY <2>2, <3>2 DEF Aggregate, SubmitLoad, SubmitStore, Undecided, HalfTallied, Arrived
    <3>3. ASSUME PortFails(r) PROVE r \in Undecided' /\ r \notin HalfTallied'
      BY <2>2, <3>3, GatewayAssumption
      DEF PortFails, GatewayAssumption, Undecided, HalfTallied, Arrived
    <3> QED
      BY <1>2, <3>1, <3>2, <3>3
  <2> QED
    BY <2>1, <2>2, <2>3, NothingMoves
<1> QED
  BY <1>1, <1>2

(* A new lifetime has received nothing. *)
LEMMA CrashResets ==
  ASSUME TypeOK, Crash
  PROVE  Accounting'
<1>1. Undecided' = {} /\ HalfTallied' = {}
  BY DEF Crash, TypeOK, Undecided, HalfTallied, Arrived
<1>2. \A c \in Counters : stats'[c] = 0
  BY DEF Crash
<1> QED
  BY <1>1, <1>2, FS_EmptySet DEF Accounting, Counters

-----------------------------------------------------------------------------
(* Whatever the interleaving of the atomic increments, no message escapes  *)
(* the statistics and none is counted twice.                               *)
THEOREM StatisticsAddUp == Spec => []Accounting
<1>1. Init => Accounting
  <2>1. Init => Undecided = {} /\ HalfTallied = {} /\ \A c \in Counters : stats[c] = 0
    BY DEF Init, Undecided, HalfTallied, Arrived
  <2> QED
    BY <2>1, FS_EmptySet DEF Accounting, Counters
<1>2. GatewayInv /\ Accounting /\ [Next]_vars => Accounting'
  <2> SUFFICES ASSUME TypeOK, Shape, Accounting, [Next]_vars PROVE Accounting'
    BY DEF GatewayInv
  <2>1. CASE Tick \/ Quiescent \/ UNCHANGED vars
    BY <2>1 DEF Tick, Quiescent, vars, reqVars, Accounting, Undecided, HalfTallied, Arrived
  <2> QED
    BY <2>1, ReceiveCounts, ConversionFailsCounts, TallyVerdictCounts, TallyStatusCounts,
       OthersCountNothing, CrashResets DEF Next, Serve
<1> QED
  BY <1>1, <1>2, GatewayInvariant, PTL DEF Spec

=============================================================================
