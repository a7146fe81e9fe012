-------------------------- MODULE MetricsCollector --------------------------
(***************************************************************************)
(* The MetricsCollector of the Fabric client                               *)
(* (hyperledger-fabric/client/nodejs/MetricsCollector.js): what it counts, *)
(* the percentiles and the target of its report, and a report that a       *)
(* caller holds on to while the collector goes on.                         *)
(*                                                                         *)
(* A latency array is a bag of samples: its report depends on the values   *)
(* only.  Left out: wall-clock time and with it the throughput, averages,  *)
(* and the resource samples.                                               *)
(***************************************************************************)
EXTENDS Integers, Sequences, FiniteSets

CONSTANTS
  Samples,      \* latency samples: a value and a priority
  MaxOf,        \* the bound on how often each is recorded, by kind
  Types,        \* types of message
  Reasons,      \* reasons of a rejection
  MaxTx,        \* the bound on transactions between resets
  MaxRejected,  \* the bound on rejections between resets
  None          \* no report

Kinds == {"e2e", "consensus", "validation"}

ASSUME MetricsAssumption ==
  /\ \A s \in Samples : s.value \in Nat /\ s.priority \in 0..2
  /\ MaxOf \in [Kinds -> [Samples -> Nat]]
  /\ MaxTx \in Nat /\ MaxRejected \in Nat

VARIABLES
  latency,        \* how often each sample is in each latency array
  transactions,   \* the transactions recorded, in order
  submitted, confirmed, rejected, replayDetected,
  messageTypes,   \* the object that counts the transactions of each type
  held            \* the last report generated, its messageTypes an object

reliability == <<submitted, confirmed, rejected, replayDetected>>
vars == <<latency, transactions, reliability, messageTypes, held>>

NoCounts == <<>>

Init == /\ latency = [k \in Kinds |-> [s \in Samples |-> 0]]
        /\ transactions = <<>>
        /\ submitted = 0 /\ confirmed = 0 /\ rejected = 0 /\ replayDetected = 0
        /\ messageTypes = NoCounts
        /\ held = None

-----------------------------------------------------------------------------
(* Recording. *)

(* recordE2ELatency, recordConsensusLatency, recordValidationLatency *)
RecordLatency(k, s) ==
  /\ latency[k][s] < MaxOf[k][s]
  /\ latency' = [latency EXCEPT ![k][s] = @ + 1]
  /\ UNCHANGED <<transactions, reliability, messageTypes, held>>

(* A type that is not there yet is at 0. *)
CountOf(t) == IF t \in DOMAIN messageTypes THEN messageTypes[t] ELSE 0

(* A mutant of Bump: the first of a type is set to 0, and not counted. *)
BumpLater(t) ==
  [u \in DOMAIN messageTypes \union {t} |->
     CountOf(u) + (IF u = t /\ t \in DOMAIN messageTypes THEN 1 ELSE 0)]

Bump(t) == [u \in DOMAIN messageTypes \union {t} |-> CountOf(u) + (IF u = t THEN 1 ELSE 0)]

RecordTransaction(t, ok) ==
  /\ Len(transactions) < MaxTx
  /\ transactions' = Append(transactions, [type |-> t, confirmed |-> ok])
  /\ submitted' = submitted + 1
  /\ confirmed' = confirmed + (IF ok THEN 1 ELSE 0)
  /\ messageTypes' = Bump(t)
  /\ UNCHANGED <<latency, rejected, replayDetected, held>>

RecordRejection(reason) ==
  /\ rejected < MaxRejected
  /\ rejected' = rejected + 1
  /\ replayDetected' = replayDetected + (IF reason = "REPLAY_ATTACK" THEN 1 ELSE 0)
  /\ UNCHANGED <<latency, transactions, submitted, confirmed, messageTypes, held>>

-----------------------------------------------------------------------------
(* The report. *)

(* The entries of an array that are in S, numbered, and how many they are. *)
Entries(array, S) == UNION {{s} \X (1..array[s]) : s \in S}
Size(array, S) == Cardinality(Entries(array, S))

(* A mutant of PercentileIndex: the nearest rank. *)
NearestRank(n, percent) == (n * percent + 99) \div 100 - 1

PercentileIndex(n, percent) == (n * percent) \div 100

(* The value at that index of the samples of S, sorted; 0 if there are     *)
(* none.                                                                   *)
Percentile(array, S, percent) ==
  LET i == PercentileIndex(Size(array, S), percent)
      Upto(v) == Size(array, {s \in S : s.value <= v})
      Below(v) == Size(array, {s \in S : s.value < v})
  IN IF Size(array, S) = 0 THEN 0
     ELSE CHOOSE v \in {s.value : s \in S} : Below(v) <= i /\ i < Upto(v)

Critical == {s \in Samples : s.priority = 0}

Target == 100

(* criticalLatency.p95 < 100 *)
MeetsTarget == Percentile(latency["e2e"], Critical, 95) < Target

Total(counts) == Size(counts, DOMAIN counts)

(* The report's summary is a copy, its messageTypes the collector's own    *)
(* object, as long as the collector has it.                                *)
GenerateReport ==
  /\ held' = [total |-> submitted, live |-> TRUE, types |-> NoCounts]
  /\ UNCHANGED <<latency, transactions, reliability, messageTypes>>

TypesOf(report) == IF report.live THEN messageTypes ELSE report.types

-----------------------------------------------------------------------------

(* A mutant of Renew: the counts are cleared where they are. *)
ClearInPlace == messageTypes' = NoCounts /\ UNCHANGED held

(* A mutant of Renew: the counts by type are forgotten about. *)
KeepTypes == UNCHANGED <<messageTypes, held>>

(* The collector has a new object; a report held keeps the old one.        *)
Renew == /\ messageTypes' = NoCounts
         /\ held' = IF held = None THEN None
                    ELSE [total |-> held.total, live |-> FALSE, types |-> TypesOf(held)]

Reset == /\ latency' = [k \in Kinds |-> [s \in Samples |-> 0]]
         /\ transactions' = <<>>
         /\ submitted' = 0 /\ confirmed' = 0 /\ rejected' = 0 /\ replayDetected' = 0
         /\ Renew

Next == \/ \E k \in Kinds, s \in Samples : RecordLatency(k, s)
        \/ \E t \in Types, ok \in BOOLEAN : RecordTransaction(t, ok)
        \/ \E reason \in Reasons : RecordRejection(reason)
        \/ GenerateReport
        \/ Reset

Spec == Init /\ [][Next]_vars

-----------------------------------------------------------------------------
(* The properties of the component. *)

(* What each variable holds.  A type is only there when it was counted.    *)
TypeOK ==
  /\ latency \in [Kinds -> [Samples -> Nat]]
  /\ transactions \in Seq([type : Types, confirmed : BOOLEAN])
  /\ {submitted, confirmed, rejected, replayDetected} \subseteq Nat
  /\ DOMAIN messageTypes \subseteq Types
  /\ \A t \in DOMAIN messageTypes : messageTypes[t] \in Nat \ {0}
  /\ held # None => held.total \in Nat /\ held.live \in BOOLEAN

Indices(P(_)) == {n \in 1..Len(transactions) : P(transactions[n])}

(* The counters, the counts by type and the list of transactions tell the  *)
(* same story, reset after reset; the detected replays are among the       *)
(* rejections (which are not among the submissions, so that the rejection  *)
(* rate may exceed 100%).                                                  *)
CountersMatchRecords ==
  /\ submitted = Len(transactions)
  /\ confirmed = Cardinality(Indices(LAMBDA x : x.confirmed))
  /\ replayDetected <= rejected
  /\ \A t \in Types : Cardinality(Indices(LAMBDA x : x.type = t)) = CountOf(t)

(* The report says that critical messages meet their target exactly when   *)
(* more than 95% of their latencies are below it, or when there are none:  *)
(* 95% do not do, so that a single late sample of 20 or less is enough to  *)
(* miss it; what other priorities take does not count.                     *)
TargetIsExact ==
  LET n == Size(latency["e2e"], Critical)
      below == Size(latency["e2e"], {s \in Critical : s.value < Target})
  IN MeetsTarget <=> n = 0 \/ 100 * below > 95 * n

(* A report that is held while the collector goes on never has fewer       *)
(* transactions by type than in total, be the collector reset meanwhile;   *)
(* it may have more, and has as many until another is recorded.            *)
HeldReportAddsUp ==
  held # None =>
    /\ Total(TypesOf(held)) >= held.total
    /\ held.live => Total(TypesOf(held)) = submitted

=============================================================================
