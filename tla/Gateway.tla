------------------------------ MODULE Gateway ------------------------------
(***************************************************************************)
(* The RSU gateway (gateway-rsu/): one MessageProcessingService shared by  *)
(* the REST handlers, the gRPC unary handlers, a gRPC stream and a gRPC    *)
(* batch.  Every request is served by a goroutine whose steps interleave   *)
(* with all the others wherever they touch shared state: the atomic        *)
(* counters, the mutex-protected replay cache, the unprotected slice of    *)
(* pending transactions and the wall clock.                                *)
(***************************************************************************)
EXTENDS Integers, Sequences, FiniteSets

CONSTANTS
  Requests,     \* the requests clients send to the gateway
  Ids,          \* non-empty message ids
  Texts,        \* the RFC 3339 texts of times, to the second and with an offset
  Stamps,       \* "timestamp" as parsed: <<the instant, the text Format makes of it>>
  Unparsable,   \* a "timestamp" that is not RFC 3339
  Now,          \* the text of the gateway's own clock at each of its ticks
  Dtos,         \* the request bodies clients send
  Routes,       \* the adapters' entry points in use
  NoMessage,    \* the body of a request not sent, the entity of one not converted
  FreshWindow,  \* ValidatePlausibility's IsFresh window (10 s in the code), in ticks
  PortFaults,   \* answers of the ports beyond those of the wired adapters
  MaxClock,     \* bound on the clock
  MaxBoots      \* bound on the lifetimes of the process

Times == Stamps \union ((0..MaxClock) \X Texts)

(* A priority is the number sent, cut to an integer as int() does; complete *)
(* says that Validate finds nothing wrong but the priority.                *)
Dto == [id : Ids, stamp : Stamps \union {Unparsable}, priority : Int, complete : BOOLEAN]
Message == [id : Ids, time : Times, priority : 0..3]

ASSUME GatewayAssumption ==
  /\ IsFiniteSet(Requests)
  /\ Stamps \subseteq Nat \X Texts
  /\ Unparsable \notin Stamps
  /\ Now \in [0..MaxClock -> Texts]
  /\ Dtos \subseteq Dto
  /\ Routes \subseteq {"rest", "unary", "stream", "batch"}
  /\ "rest" \in Routes
  /\ NoMessage \notin Message
  /\ FreshWindow \in Nat
  /\ PortFaults \subseteq {"signatureError", "badSignature", "replayError", "submitError"}
  /\ MaxClock \in Nat
  /\ MaxBoots \in Nat

VARIABLES
  pc,           \* the step a request is at
  via,          \* the adapter it came through
  dto,          \* its body
  message,      \* the entity made of the body
  outcome,      \* the result of ProcessMessage, abstracted to its cause
  life,         \* the lifetime of the process that received it (0: none yet)
  loaded,       \* the slice header a SubmitTransaction call has read
  boot,         \* the current lifetime of the process
  clock,        \* wall clock, in ticks no longer than a second
  replayCache,  \* the keys of SecurityAdapter.replayCache
  mu,           \* SecurityAdapter.mu: TRUE while a goroutine holds it
  pendingTxs,   \* BlockchainAdapter.pendingTxs: whose transactions it holds
  stats         \* the Statistics counters

reqVars    == <<pc, via, dto, message, outcome, life, loaded>>
security   == <<replayCache, mu>>
vars       == <<reqVars, boot, clock, security, pendingTxs, stats>>

Steps    == {"idle", "convert", "secure", "insert", "plausible", "dispatch", "append",
             "tally", "tallyStatus", "returned", "lost"}
Success  == {"submitted", "aggregated"}
Reasons  == {"badSignature", "replay", "implausible"}
Errors   == {"malformed", "conversion", "signatureError", "replayError", "submitError"}
Outcomes == {"none"} \union Success \union Reasons \union Errors
Counters == {"received", "validated", "rejected", "submitted", "aggregated"}

InFlight(r) == pc[r] \notin {"idle", "returned", "lost"}
Count(c)    == stats' = [stats EXCEPT ![c] = @ + 1]
Goto(r, s)  == pc' = [pc EXCEPT ![r] = s]
Conclude(r, o, s) == /\ outcome' = [outcome EXCEPT ![r] = o]
                     /\ Goto(r, s)

(* The replay key: two instants in one second have the same text, one      *)
(* instant in two time zones has two.                                      *)
Key(r) == <<message[r].id, message[r].time[2]>>

(* protoToMap hands the priority over as an int, which dtoToEntity does not *)
(* recognise: it stays 0 on every gRPC route.                               *)
Priority(route, d) == IF route = "rest" THEN d.priority ELSE 0

(* A mutant of Validates: the range of the priority is not checked. *)
ValidatesAnyPriority(route, d) == d.complete

(* V2XMessage.Validate. *)
Validates(route, d) == d.complete /\ Priority(route, d) \in 0..3

Entity(r) == [id       |-> dto[r].id,
              time     |-> IF dto[r].stamp = Unparsable
                             THEN <<clock, Now[clock]>> ELSE dto[r].stamp,
              priority |-> Priority(via[r], dto[r])]

IsFresh(m) == clock - m.time[1] \in -FreshWindow..FreshWindow

IsCritical(m) == m.priority = 0

-----------------------------------------------------------------------------
Init == /\ pc = [r \in Requests |-> "idle"]
        /\ via = [r \in Requests |-> "rest"]
        /\ dto = [r \in Requests |-> NoMessage]
        /\ message = [r \in Requests |-> NoMessage]
        /\ outcome = [r \in Requests |-> "none"]
        /\ life = [r \in Requests |-> 0]
        /\ loaded = [r \in Requests |-> <<>>]
        /\ boot = 1
        /\ clock = 0
        /\ replayCache = {}
        /\ mu = FALSE
        /\ pendingTxs = <<>>
        /\ stats = [c \in Counters |-> 0]

(* ProcessBatch and StreamMessages handle one message after the other; the *)
(* server runs every other request in a goroutine of its own.              *)
MayStart(route) == route \in {"stream", "batch"} =>
                     \A q \in Requests : ~(InFlight(q) /\ via[q] = route)

(* A request reaches ProcessMessage, which counts it before anything else. *)
Receive(r, route, d) ==
  /\ pc[r] = "idle"
  /\ MayStart(route)
  /\ via' = [via EXCEPT ![r] = route]
  /\ dto' = [dto EXCEPT ![r] = d]
  /\ life' = [life EXCEPT ![r] = boot]
  /\ Count("received")
  /\ Goto(r, "convert")
  /\ UNCHANGED <<message, outcome, loaded, boot, clock, security, pendingTxs>>

(* A body that is not JSON is answered by the REST handler itself. *)
RejectBody(r) ==
  /\ pc[r] = "idle"
  /\ life' = [life EXCEPT ![r] = boot]
  /\ Conclude(r, "malformed", "returned")
  /\ UNCHANGED <<via, dto, message, loaded, boot, clock, security, pendingTxs, stats>>

Convert(r) ==
  /\ pc[r] = "convert"
  /\ Validates(via[r], dto[r])
  /\ message' = [message EXCEPT ![r] = Entity(r)]
  /\ Goto(r, "secure")
  /\ UNCHANGED <<via, dto, outcome, life, loaded, boot, clock, security, pendingTxs, stats>>

(* A mutant of ConversionFails: its early return skips the counter. *)
ConversionFailsUncounted(r) ==
  /\ pc[r] = "convert"
  /\ ~Validates(via[r], dto[r])
  /\ Conclude(r, "conversion", "returned")
  /\ UNCHANGED <<via, dto, message, life, loaded, boot, clock, security, pendingTxs, stats>>

ConversionFails(r) ==
  /\ pc[r] = "convert"
  /\ ~Validates(via[r], dto[r])
  /\ Count("rejected")
  /\ Conclude(r, "conversion", "returned")
  /\ UNCHANGED <<via, dto, message, life, loaded, boot, clock, security, pendingTxs>>

(* The ports' other answers.  The wired ValidateSignature only asks for a  *)
(* non-empty signature, which Validate has asked for already, and no wired *)
(* adapter returns an error; the use case is written for any that does.    *)
PortFails(r) ==
  /\ \E f \in PortFaults :
       /\ pc[r] = (IF f = "submitError" THEN "dispatch" ELSE "secure")
       /\ f = "submitError" => IsCritical(message[r])
       /\ Conclude(r, f, "tally")
  /\ UNCHANGED <<via, dto, message, life, loaded, boot, clock, security, pendingTxs, stats>>

(* A mutant of CheckReplayAttack: the cache is read under a read lock, so   *)
(* that the lock is free between the lookup and the insertion.             *)
CheckUnderReadLock(r) ==
  /\ pc[r] = "secure"
  /\ ~mu
  /\ IF Key(r) \in replayCache
       THEN Conclude(r, "replay", "tally")
       ELSE Goto(r, "insert") /\ UNCHANGED outcome
  /\ UNCHANGED <<via, dto, message, life, loaded, boot, clock, security, pendingTxs, stats>>

(* A mutant of CheckReplayAttack: the timestamp is left out of the lookup. *)
CheckById(r) ==
  /\ pc[r] = "secure"
  /\ ~mu
  /\ IF \E k \in replayCache : k[1] = message[r].id
       THEN Conclude(r, "replay", "tally") /\ UNCHANGED mu
       ELSE Goto(r, "insert") /\ mu' = TRUE /\ UNCHANGED outcome
  /\ UNCHANGED <<via, dto, message, life, loaded, boot, clock, replayCache, pendingTxs, stats>>

(* A mutant of CheckReplayAttack: the Unlock is not deferred but stands     *)
(* before the last return, and the return of a replay misses it.           *)
ReplayReturnsLocked(r) ==
  /\ pc[r] = "secure"
  /\ ~mu
  /\ mu' = TRUE
  /\ IF Key(r) \in replayCache
       THEN Conclude(r, "replay", "tally")
       ELSE Goto(r, "insert") /\ UNCHANGED outcome
  /\ UNCHANGED <<via, dto, message, life, loaded, boot, clock, replayCache, pendingTxs, stats>>

(* The signature is good.  CheckReplayAttack waits for the lock and looks  *)
(* the key up; a replay returns, which gives the lock back ...             *)
CheckReplayAttack(r) ==
  /\ pc[r] = "secure"
  /\ ~mu
  /\ \/ /\ Key(r) \in replayCache
        /\ Conclude(r, "replay", "tally")
        /\ UNCHANGED mu
     \/ /\ Key(r) \notin replayCache
        /\ mu' = TRUE
        /\ Goto(r, "insert")
        /\ UNCHANGED outcome
  /\ UNCHANGED <<via, dto, message, life, loaded, boot, clock, replayCache, pendingTxs, stats>>

(* ... any other request inserts its key before its return does so. *)
InsertKey(r) ==
  /\ pc[r] = "insert"
  /\ replayCache' = replayCache \union {Key(r)}
  /\ mu' = FALSE
  /\ Goto(r, "plausible")
  /\ UNCHANGED <<via, dto, message, outcome, life, loaded, boot, clock, pendingTxs, stats>>

(* A mutant of ValidatePlausibility: an implausible message gives its key   *)
(* back, so that it may be sent again.                                      *)
PlausibilityReleasesKey(r) ==
  /\ pc[r] = "plausible"
  /\ IF IsFresh(message[r])
       THEN Goto(r, "dispatch") /\ UNCHANGED <<outcome, replayCache>>
       ELSE Conclude(r, "implausible", "tally") /\ replayCache' = replayCache \ {Key(r)}
  /\ UNCHANGED <<via, dto, message, life, loaded, boot, clock, mu, pendingTxs, stats>>

ValidatePlausibility(r) ==
  /\ pc[r] = "plausible"
  /\ \/ /\ IsFresh(message[r])
        /\ Goto(r, "dispatch")
        /\ UNCHANGED outcome
     \/ /\ ~IsFresh(message[r])
        /\ Conclude(r, "implausible", "tally")
  /\ UNCHANGED <<via, dto, message, life, loaded, boot, clock, security, pendingTxs, stats>>

(* A non-critical message is reported as aggregated and kept nowhere. *)
Aggregate(r) ==
  /\ pc[r] = "dispatch"
  /\ ~IsCritical(message[r])
  /\ Conclude(r, "aggregated", "tally")
  /\ UNCHANGED <<via, dto, message, life, loaded, boot, clock, security, pendingTxs, stats>>

(* SubmitTransaction's append reads the slice header ... *)
SubmitLoad(r) ==
  /\ pc[r] = "dispatch"
  /\ IsCritical(message[r])
  /\ loaded' = [loaded EXCEPT ![r] = pendingTxs]
  /\ Goto(r, "append")
  /\ UNCHANGED <<via, dto, message, outcome, life, boot, clock, security, pendingTxs, stats>>

(* ... and stores a new one.  No lock covers both.  The slice becomes as   *)
(* long as the one read and the transaction, and each of its places holds  *)
(* what that one would have there, or what is there now: the append moved  *)
(* to a new array, wrote into the spare capacity of the current one, or    *)
(* only set the length because another append has moved the array since.   *)
SubmitStore(r) ==
  /\ pc[r] = "append"
  /\ LET appended == Append(loaded[r], r)
     IN pendingTxs' \in {s \in [DOMAIN appended -> Requests] :
                          \A i \in DOMAIN s : \/ s[i] = appended[i]
                                              \/ i \in DOMAIN pendingTxs /\ s[i] = pendingTxs[i]}
  /\ loaded' = [loaded EXCEPT ![r] = <<>>]
  /\ Conclude(r, "submitted", "tally")
  /\ UNCHANGED <<via, dto, message, life, boot, clock, security, stats>>

(* ProcessMessage's counters are separate atomics: the verdict first ... *)
TallyVerdict(r) ==
  /\ pc[r] = "tally"
  /\ \/ /\ outcome[r] \in Success
        /\ Count("validated")
        /\ Goto(r, "tallyStatus")
     \/ /\ outcome[r] \notin Success
        /\ Count("rejected")
        /\ Goto(r, "returned")
  /\ UNCHANGED <<via, dto, message, outcome, life, loaded, boot, clock, security, pendingTxs>>

(* ... then the status of a success.  Then ProcessMessage returns and the  *)
(* adapter writes the answer, which changes no state whether it arrives.   *)
TallyStatus(r) ==
  /\ pc[r] = "tallyStatus"
  /\ Count(outcome[r])
  /\ Goto(r, "returned")
  /\ UNCHANGED <<via, dto, message, outcome, life, loaded, boot, clock, security, pendingTxs>>

Tick == /\ clock < MaxClock
        /\ clock' = clock + 1
        /\ UNCHANGED <<reqVars, boot, security, pendingTxs, stats>>

(* A mutant of Crash: the pending transactions survive, the cache does not. *)
CrashKeepsPending ==
  /\ boot < MaxBoots
  /\ boot' = boot + 1
  /\ pc' = [r \in Requests |-> IF InFlight(r) THEN "lost" ELSE pc[r]]
  /\ loaded' = [r \in Requests |-> <<>>]
  /\ replayCache' = {}
  /\ mu' = FALSE
  /\ stats' = [c \in Counters |-> 0]
  /\ UNCHANGED <<via, dto, message, outcome, life, clock, pendingTxs>>

(* The process stops and starts again: everything it keeps is in memory,   *)
(* and REST handlers are not drained.                                      *)
Crash == /\ boot < MaxBoots
         /\ boot' = boot + 1
         /\ pc' = [r \in Requests |-> IF InFlight(r) THEN "lost" ELSE pc[r]]
         /\ loaded' = [r \in Requests |-> <<>>]
         /\ replayCache' = {}
         /\ mu' = FALSE
         /\ pendingTxs' = <<>>
         /\ stats' = [c \in Counters |-> 0]
         /\ UNCHANGED <<via, dto, message, outcome, life, clock>>

(* Every request has ended: nothing more to do. *)
Quiescent == /\ \A r \in Requests : ~InFlight(r) /\ pc[r] # "idle"
             /\ UNCHANGED vars

Serve(r) == \/ Convert(r) \/ ConversionFails(r)
            \/ CheckReplayAttack(r) \/ InsertKey(r)
            \/ ValidatePlausibility(r)
            \/ Aggregate(r) \/ SubmitLoad(r) \/ SubmitStore(r)
            \/ TallyVerdict(r) \/ TallyStatus(r)

Next == \/ \E r \in Requests : \/ \E route \in Routes, d \in Dtos : Receive(r, route, d)
                               \/ RejectBody(r)
                               \/ Serve(r)
                               \/ PortFails(r)
        \/ Tick
        \/ Crash
        \/ Quiescent

Spec == Init /\ [][Next]_vars

(* The Go scheduler runs every goroutine; clients, ports, the clock and    *)
(* crashes are not obliged to do anything.  A goroutine waiting for the    *)
(* lock need only get it when the lock stays free: it is taken a finite    *)
(* number of times, once by each request.                                  *)
Fairness == \A r \in Requests : WF_vars(Serve(r))
FairSpec == Spec /\ Fairness

-----------------------------------------------------------------------------
(* The properties of the component. *)

(* The request has been through CheckReplayAttack and inserted its key. *)
Passed(r) == \/ pc[r] \in {"plausible", "dispatch", "append"}
             \/ outcome[r] \in Success \union {"implausible", "submitError"}

Accepted(r) == outcome[r] \in Success

KeySpace == Ids \X Texts

Pending == {pendingTxs[i] : i \in DOMAIN pendingTxs}

(* Every variable has the type the code gives it, and a request has an     *)
(* entity from dtoToEntity on.                                             *)
TypeOK ==
  /\ pc \in [Requests -> Steps]
  /\ via \in [Requests -> Routes]
  /\ dto \in [Requests -> Dtos \union {NoMessage}]
  /\ message \in [Requests -> Message \union {NoMessage}]
  /\ outcome \in [Requests -> Outcomes]
  /\ boot \in Nat
  /\ life \in [Requests -> 0..boot]
  /\ loaded \in [Requests -> Seq(Requests)]
  /\ clock \in 0..MaxClock
  /\ replayCache \subseteq KeySpace
  /\ mu \in BOOLEAN
  /\ pendingTxs \in Seq(Requests)
  /\ stats \in [Counters -> Nat]

(* Within one lifetime of the process two requests with the same id and    *)
(* timestamp are never both accepted, however their steps interleave:      *)
(* SecurityAdapter looks the key up and inserts it under one lock.         *)
AtMostOnce ==
  \A r, q \in Requests :
    /\ Accepted(r) /\ Accepted(q)
    /\ life[r] = life[q]
    /\ Key(r) = Key(q)
    => r = q

(* A request is refused as a replay only because another request of the    *)
(* same lifetime inserted the same key before it (which does not mean that *)
(* the other one was accepted: it may since have been found implausible).  *)
RefusalHasCause ==
  \A r \in Requests : outcome[r] = "replay" =>
    \E q \in Requests \ {r} : /\ life[q] = life[r]
                             /\ (Passed(q) \/ pc[q] = "lost")
                             /\ message[q] # NoMessage
                             /\ Key(q) = Key(r)

(* The requests of this lifetime that ProcessMessage has counted, those it  *)
(* has not decided or whose verdict is not counted yet, and those that are  *)
(* validated and whose status is not counted yet.                           *)
Arrived == {r \in Requests : life[r] = boot /\ outcome[r] # "malformed"}
Undecided == {r \in Arrived : outcome[r] = "none" \/ pc[r] = "tally"}
HalfTallied == {r \in Arrived : pc[r] = "tallyStatus"}

(* No message escapes the statistics and none is counted twice, on any     *)
(* path through ProcessMessage: what was received is validated, rejected   *)
(* or still being processed, and what was validated is submitted or        *)
(* aggregated but for the requests between the two atomic increments.      *)
Accounting ==
  /\ stats["received"] = stats["validated"] + stats["rejected"] + Cardinality(Undecided)
  /\ stats["validated"] = stats["submitted"] + stats["aggregated"] + Cardinality(HalfTallied)

(* Even with appends racing, pendingTxs never holds a transaction twice,   *)
(* and holds only those of critical messages of this lifetime that passed  *)
(* every check.                                                            *)
PendingSound ==
  /\ \A i, j \in DOMAIN pendingTxs : pendingTxs[i] = pendingTxs[j] => i = j
  /\ \A r \in Pending : /\ life[r] = boot
                        /\ outcome[r] = "submitted"
                        /\ message[r].priority = 0
                        /\ Key(r) \in replayCache

(* Every request that reached ProcessMessage is answered, unless the       *)
(* process ends first: no return leaves the cache locked, after which every *)
(* later request of any adapter would wait for ever.                       *)
EveryRequestEnds == \A r \in Requests : InFlight(r) ~> ~InFlight(r)

(* The gateway as a ReplayGuard: a claim is a key inserted by a request of *)
(* this lifetime.                                                          *)
Claims == {<<Key(r), r>> : r \in {q \in Requests : life[q] = boot /\ Passed(q)}}

Verdict == [r \in Requests |->
              IF Accepted(r) THEN "accepted"
              ELSE IF outcome[r] # "none" THEN "refused"
              ELSE IF pc[r] = "lost" THEN "lost" ELSE "open"]

Guard == INSTANCE ReplayGuard WITH Keys <- KeySpace, claims <- Claims, verdict <- Verdict

(* Every step of the gateway is a step the replay guard allows, or none. *)
ImplementsGuard == Guard!GuardSpec

-----------------------------------------------------------------------------
(* The inductive invariant behind TypeOK, AtMostOnce and ImplementsGuard.  *)

(* What the step a request is at says of its other attributes. *)
Shape ==
  /\ boot >= 1
  /\ \A r \in Requests :
       /\ pc[r] = "idle" => life[r] = 0 /\ outcome[r] = "none"
       /\ pc[r] # "idle" => life[r] >= 1
       /\ InFlight(r) => life[r] = boot
       /\ pc[r] \in {"convert", "secure", "insert", "plausible", "dispatch", "append"}
            => outcome[r] = "none"
       /\ pc[r] = "convert" => dto[r] \in Dtos
       /\ pc[r] \in {"secure", "insert"} \/ Passed(r) => message[r] \in Message
       /\ pc[r] = "tally" => outcome[r] \notin {"none", "malformed"}
       /\ pc[r] = "tallyStatus" => Accepted(r)
       /\ pc[r] = "returned" => outcome[r] # "none"

(* The cache keeps the key of every request of this lifetime it let pass, *)
(* and no two requests of one lifetime passed with the same key.          *)
CacheKeeps == \A r \in Requests : Passed(r) /\ life[r] = boot => Key(r) \in replayCache
PassOnce == \A r, q \in Requests :
  Passed(r) /\ Passed(q) /\ life[r] = life[q] /\ Key(r) = Key(q) => r = q

(* The lock is held exactly while its one holder is about to insert a key  *)
(* that is still not in the cache.                                         *)
LockHeld ==
  /\ mu <=> \E r \in Requests : pc[r] = "insert"
  /\ \A r \in Requests : pc[r] = "insert" => Key(r) \notin replayCache
  /\ \A r, q \in Requests : pc[r] = "insert" /\ pc[q] = "insert" => r = q

GatewayInv == TypeOK /\ Shape /\ LockHeld /\ CacheKeeps /\ PassOnce

(* For RefusalHasCause: the cache holds no other keys. *)
CacheHasCause == \A k \in replayCache :
  \E q \in Requests : life[q] = boot /\ Passed(q) /\ Key(q) = k

(* For PendingSound: the slice headers that an append has stored or has    *)
(* read and not stored yet hold rightful transactions only, and have each  *)
(* transaction at one place, whichever of them have it.                    *)
Slices == {pendingTxs} \union {loaded[r] : r \in Requests}

Rightful(q) == /\ life[q] = boot
               /\ outcome[q] = "submitted"
               /\ message[q].priority = 0
               /\ Key(q) \in replayCache

Sound(s) == \A i \in DOMAIN s : Rightful(s[i])

Aligned(s, t) == \A i \in DOMAIN s, j \in DOMAIN t : s[i] = t[j] => i = j

SlicesSound == /\ \A s \in Slices : Sound(s)
               /\ \A s, t \in Slices : Aligned(s, t)
               /\ \A r \in Requests : pc[r] = "append" => message[r].priority = 0

-----------------------------------------------------------------------------
(* What the documentation says and the code does not do. *)

(* "Message processed and submitted to blockchain": the transaction of a   *)
(* request answered so is with the blockchain adapter.                     *)
SubmittedIsPending ==
  \A r \in Requests : life[r] = boot /\ outcome[r] = "submitted" => r \in Pending

(* "Non-critical messages should be aggregated", whatever adapter they     *)
(* came through.                                                           *)
NonCriticalAggregated ==
  \A r \in Requests : Accepted(r) /\ dto[r].priority \in 1..3 => outcome[r] = "aggregated"

(* "Non-critical messages are aggregated for batch processing": sooner or  *)
(* later their transactions go to the blockchain adapter, unless the       *)
(* process ends.                                                           *)
AggregatedIsBatched ==
  \A r \in Requests :
    (outcome[r] = "aggregated" /\ life[r] = boot) ~> (r \in Pending \/ life[r] # boot)

=============================================================================
