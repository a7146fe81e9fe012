--------------------------- MODULE GatewayProofs ---------------------------
(***************************************************************************)
(* Proofs about Gateway, for every set of requests, every set of bodies,   *)
(* every freshness window and every behaviour of the ports.                *)
(***************************************************************************)
EXTENDS Gateway, FiniteSetTheorems, SequenceTheorems, TLAPS

(* A tuple of variables, for the UNCHANGED of most actions. *)
USE DEF security

-----------------------------------------------------------------------------
(* Typing. *)

(* The entity built from a body that validates is a message. *)
LEMMA EntityType ==
  ASSUME TypeOK, NEW r \in Requests, dto[r] \in Dtos, Validates(via[r], dto[r])
  PROVE  Entity(r) \in Message
<1>1. dto[r] \in Dto
  BY GatewayAssumption DEF GatewayAssumption
<1>2. Entity(r).time \in Times
  BY <1>1, GatewayAssumption DEF Entity, Dto, Times, TypeOK, GatewayAssumption
<1>3. Priority(via[r], dto[r]) \in 0..3
  BY DEF Validates
<1> QED
  BY <1>1, <1>2, <1>3 DEF Entity, Message, Dto

(* The key of a message is in the key space. *)
LEMMA KeyType == \A r \in Requests : message[r] \in Message => Key(r) \in KeySpace
<1>1. \A t \in Times : t[2] \in Texts
  BY GatewayAssumption DEF Times, GatewayAssumption
<1> QED
  BY <1>1 DEF Key, KeySpace, Message

(* A count leaves the counters natural numbers. *)
LEMMA CountType ==
  ASSUME TypeOK, NEW c \in Counters, Count(c)
  PROVE  stats' \in [Counters -> Nat]
BY DEF TypeOK, Count

(* A racing append leaves a sequence of requests. *)
LEMMA StoreType ==
  ASSUME TypeOK, NEW r \in Requests, SubmitStore(r)
  PROVE  pendingTxs' \in Seq(Requests)
<1>1. loaded[r] \in Seq(Requests)
  BY DEF TypeOK
<1>2. DOMAIN Append(loaded[r], r) = 1..(Len(loaded[r]) + 1) /\ Len(loaded[r]) + 1 \in Nat
  BY <1>1
<1>3. pendingTxs' \in [DOMAIN Append(loaded[r], r) -> Requests]
  BY DEF SubmitStore
<1> QED
  BY <1>2, <1>3, SeqDef

(* No step leaves the types. *)
LEMMA TypeStep == TypeOK /\ Shape /\ [Next]_vars => TypeOK'
<1> SUFFICES ASSUME TypeOK, Shape, [Next]_vars PROVE TypeOK'
  OBVIOUS
<1> USE DEF TypeOK, Conclude, Goto, Steps, Outcomes, Success, Reasons, Errors
<1>1. ASSUME NEW r \in Requests, NEW route \in Routes, NEW d \in Dtos, Receive(r, route, d)
      PROVE  TypeOK'
  <2>1. stats' \in [Counters -> Nat]
    BY <1>1, CountType DEF Receive, Counters
  <2> QED
    BY <1>1, <2>1 DEF Receive
<1>2. ASSUME NEW r \in Requests, RejectBody(r) PROVE TypeOK'
  BY <1>2 DEF RejectBody
<1>3. ASSUME NEW r \in Requests, Convert(r) PROVE TypeOK'
  <2>1. Entity(r) \in Message
    BY <1>3, EntityType DEF Convert, Shape
  <2> QED
    BY <1>3, <2>1 DEF Convert
<1>4. ASSUME NEW r \in Requests, ConversionFails(r) PROVE TypeOK'
  <2>1. stats' \in [Counters -> Nat]
    BY <1>4, CountType DEF ConversionFails, Counters
  <2> QED
    BY <1>4, <2>1 DEF ConversionFails
<1>5. ASSUME NEW r \in Requests, CheckReplayAttack(r) PROVE TypeOK'
  BY <1>5 DEF CheckReplayAttack
<1>6. ASSUME NEW r \in Requests, ValidatePlausibility(r) PROVE TypeOK'
  BY <1>6 DEF ValidatePlausibility
<1>7. ASSUME NEW r \in Requests, Aggregate(r) PROVE TypeOK'
  BY <1>7 DEF Aggregate
<1>8. ASSUME NEW r \in Requests, SubmitLoad(r) PROVE TypeOK'
  BY <1>8 DEF SubmitLoad
<1>9. ASSUME NEW r \in Requests, SubmitStore(r) PROVE TypeOK'
  <2>1. pendingTxs' \in Seq(Requests)
    BY <1>9, StoreType
  <2>2. <<>> \in Seq(Requests)
    OBVIOUS
  <2> QED
    BY <1>9, <2>1, <2>2 DEF SubmitStore
<1>10. ASSUME NEW r \in Requests, PortFails(r) PROVE TypeOK'
  BY <1>10, GatewayAssumption DEF PortFails, GatewayAssumption
<1>11. ASSUME NEW r \in Requests, TallyVerdict(r) PROVE TypeOK'
  <2>1. stats' \in [Counters -> Nat]
    BY <1>11, CountType DEF TallyVerdict, Counters
  <2> QED
    BY <1>11, <2>1 DEF TallyVerdict
<1>12. ASSUME NEW r \in Requests, TallyStatus(r) PROVE TypeOK'
  <2>1. stats' \in [Counters -> Nat]
    BY <1>12, CountType DEF TallyStatus, Counters, Shape, Accepted
  <2> QED
    BY <1>12, <2>1 DEF TallyStatus
<1>13. CASE Tick
  BY <1>13, GatewayAssumption DEF Tick, reqVars, GatewayAssumption
<1>14. CASE Crash
  <2>1. mu' \in BOOLEAN
    BY <1>14 DEF Crash
  <2>2. stats' \in [Counters -> Nat] /\ loaded' \in [Requests -> Seq(Requests)]
    BY <1>14 DEF Crash
  <2> QED
    BY <1>14, <2>1, <2>2 DEF Crash
<1>15. ASSUME NEW r \in Requests, InsertKey(r) PROVE TypeOK'
  <2>1. message[r] \in Message
    BY <1>15 DEF InsertKey, Shape
  <2>2. Key(r) \in KeySpace
    BY <2>1, KeyType
  <2> QED
    BY <1>15, <2>2 DEF InsertKey
<1>16. CASE Quiescent \/ UNCHANGED vars
  BY <1>16 DEF Quiescent, vars, reqVars
<1> QED
  BY <1>1, <1>2, <1>3, <1>4, <1>5, <1>6, <1>7, <1>8, <1>9, <1>10, <1>11, <1>12, <1>13,
     <1>14, <1>15, <1>16 DEF Next, Serve

-----------------------------------------------------------------------------
(* The invariant. *)

(* What a step says of a request holds after every step. *)
LEMMA ShapeStep == TypeOK /\ Shape /\ [Next]_vars => Shape'
<1> SUFFICES ASSUME TypeOK, Shape, [Next]_vars PROVE Shape'
  OBVIOUS
<1> USE DEF TypeOK, Shape, Conclude, Goto, InFlight, Passed, Accepted, Success
<1>1. ASSUME NEW r \in Requests, NEW route \in Routes, NEW d \in Dtos, Receive(r, route, d)
      PROVE  Shape'
  BY <1>1 DEF Receive
<1>2. ASSUME NEW r \in Requests, RejectBody(r) PROVE Shape'
  BY <1>2 DEF RejectBody
<1>3. ASSUME NEW r \in Requests, Convert(r) PROVE Shape'
  <2>1. Entity(r) \in Message
    BY <1>3, EntityType DEF Convert
  <2> QED
    BY <1>3, <2>1 DEF Convert
<1>4. ASSUME NEW r \in Requests, ConversionFails(r) PROVE Shape'
  BY <1>4 DEF ConversionFails
<1>5. ASSUME NEW r \in Requests, CheckReplayAttack(r) PROVE Shape'
  BY <1>5 DEF CheckReplayAttack
<1>6. ASSUME NEW r \in Requests, ValidatePlausibility(r) PROVE Shape'
  BY <1>6 DEF ValidatePlausibility
<1>7. ASSUME NEW r \in Requests, Aggregate(r) PROVE Shape'
  BY <1>7 DEF Aggregate
<1>8. ASSUME NEW r \in Requests, SubmitLoad(r) PROVE Shape'
  BY <1>8 DEF SubmitLoad
<1>9. ASSUME NEW r \in Requests, SubmitStore(r) PROVE Shape'
  BY <1>9 DEF SubmitStore
<1>10. ASSUME NEW r \in Requests, PortFails(r) PROVE Shape'
  BY <1>10, GatewayAssumption DEF PortFails, GatewayAssumption
<1>11. ASSUME NEW r \in Requests, TallyVerdict(r) PROVE Shape'
  BY <1>11 DEF TallyVerdict
<1>12. ASSUME NEW r \in Requests, TallyStatus(r) PROVE Shape'
  BY <1>12 DEF TallyStatus
<1>13. CASE Tick
  BY <1>13 DEF Tick, reqVars
<1>14. CASE Crash
  BY <1>14 DEF Crash
<1>15. ASSUME NEW r \in Requests, InsertKey(r) PROVE Shape'
  BY <1>15 DEF InsertKey
<1>16. CASE Quiescent \/ UNCHANGED vars
  BY <1>16 DEF Quiescent, vars, reqVars
<1> QED
  BY <1>1, <1>2, <1>3, <1>4, <1>5, <1>6, <1>7, <1>8, <1>9, <1>10, <1>11, <1>12, <1>13,
     <1>14, <1>15, <1>16 DEF Next, Serve

(* Lock, lookup, insertion and Unlock exclude one another. *)
LEMMA LockStep == TypeOK /\ Shape /\ LockHeld /\ [Next]_vars => LockHeld'
<1> SUFFICES ASSUME TypeOK, Shape, LockHeld, [Next]_vars PROVE LockHeld'
  OBVIOUS
<1> USE DEF TypeOK, Conclude, Goto
<1>1. ASSUME UNCHANGED security,
             \A q \in Requests : pc'[q] = "insert" <=> pc[q] = "insert",
             \A q \in Requests : pc[q] = "insert" => message'[q] = message[q]
      PROVE  LockHeld'
  BY <1>1 DEF LockHeld, Key
<1>2. ASSUME NEW r \in Requests, CheckReplayAttack(r) PROVE LockHeld'
  <2>1. CASE Key(r) \in replayCache
    BY <1>1, <1>2, <2>1 DEF CheckReplayAttack
  <2>2. CASE Key(r) \notin replayCache
    <3>1. ~mu /\ mu'
      BY <1>2, <2>2 DEF CheckReplayAttack
    <3>2. \A q \in Requests : pc[q] # "insert"
      BY <3>1 DEF LockHeld
    <3>3. /\ \A q \in Requests : pc'[q] = "insert" <=> q = r
          /\ replayCache' = replayCache /\ message' = message
      BY <1>2, <2>2, <3>2 DEF CheckReplayAttack
    <3> QED
      BY <2>2, <3>1, <3>3 DEF LockHeld, Key
  <2> QED
    BY <2>1, <2>2
<1>3. ASSUME NEW r \in Requests, InsertKey(r) PROVE LockHeld'
  BY <1>3 DEF InsertKey, LockHeld
<1>4. CASE Crash
  BY <1>4 DEF Crash, LockHeld, InFlight
<1>5. ASSUME NEW r \in Requests,
             \/ RejectBody(r) \/ Convert(r) \/ ConversionFails(r)
             \/ \E route \in Routes, d \in Dtos : Receive(r, route, d)
      PROVE  LockHeld'
  BY <1>1, <1>5 DEF RejectBody, Convert, ConversionFails, Receive
<1>6. ASSUME NEW r \in Requests, ValidatePlausibility(r) \/ Aggregate(r) \/ SubmitLoad(r)
      PROVE  LockHeld'
  BY <1>1, <1>6 DEF ValidatePlausibility, Aggregate, SubmitLoad
<1>7. ASSUME NEW r \in Requests, SubmitStore(r) \/ PortFails(r) PROVE LockHeld'
  BY <1>1, <1>7 DEF SubmitStore, PortFails
<1>8. ASSUME NEW r \in Requests, TallyVerdict(r) \/ TallyStatus(r) PROVE LockHeld'
  BY <1>1, <1>8 DEF TallyVerdict, TallyStatus
<1>9. CASE Tick \/ Quiescent \/ UNCHANGED vars
  BY <1>1, <1>9 DEF Tick, Quiescent, vars, reqVars
<1> QED
  BY <1>2, <1>3, <1>4, <1>5, <1>6, <1>7, <1>8, <1>9 DEF Next, Serve

-----------------------------------------------------------------------------
(* Replay protection. *)

(* Nothing new has passed the replay check, and nothing that had passed it *)
(* changed its key or its lifetime.                                        *)
KeepsPassed ==
  /\ boot' = boot
  /\ replayCache' = replayCache
  /\ \A q \in Requests : Passed(q)' => Passed(q) /\ life'[q] = life[q] /\ message'[q] = message[q]

(* Only InsertKey and Crash touch what the replay check relies on.         *)
LEMMA OthersKeepPassed ==
  ASSUME TypeOK, Shape, [Next]_vars
  PROVE  KeepsPassed \/ (\E r \in Requests : InsertKey(r)) \/ Crash
<1> USE DEF TypeOK, Shape, Conclude, Goto, InFlight, Passed, Accepted, Success, KeepsPassed
<1>1. ASSUME NEW r \in Requests, NEW route \in Routes, NEW d \in Dtos, Receive(r, route, d)
      PROVE  KeepsPassed
  BY <1>1 DEF Receive
<1>2. ASSUME NEW r \in Requests, RejectBody(r) PROVE KeepsPassed
  BY <1>2 DEF RejectBody
<1>3. ASSUME NEW r \in Requests, Convert(r) PROVE KeepsPassed
  BY <1>3 DEF Convert
<1>4. ASSUME NEW r \in Requests, ConversionFails(r) PROVE KeepsPassed
  BY <1>4 DEF ConversionFails
<1>5. ASSUME NEW r \in Requests, ValidatePlausibility(r) PROVE KeepsPassed
  BY <1>5 DEF ValidatePlausibility
<1>6. ASSUME NEW r \in Requests, Aggregate(r) PROVE KeepsPassed
  BY <1>6 DEF Aggregate
<1>7. ASSUME NEW r \in Requests, SubmitLoad(r) PROVE KeepsPassed
  BY <1>7 DEF SubmitLoad
<1>8. ASSUME NEW r \in Requests, SubmitStore(r) PROVE KeepsPassed
  BY <1>8 DEF SubmitStore
<1>9. ASSUME NEW r \in Requests, PortFails(r) PROVE KeepsPassed
  BY <1>9, GatewayAssumption DEF PortFails, GatewayAssumption
<1>10. ASSUME NEW r \in Requests, TallyVerdict(r) PROVE KeepsPassed
  BY <1>10 DEF TallyVerdict
<1>11. ASSUME NEW r \in Requests, TallyStatus(r) PROVE KeepsPassed
  BY <1>11 DEF TallyStatus
<1>12. CASE Tick
  BY <1>12 DEF Tick, reqVars
<1>13. ASSUME NEW r \in Requests, CheckReplayAttack(r) PROVE KeepsPassed
  BY <1>13 DEF CheckReplayAttack
<1>14. CASE Quiescent \/ UNCHANGED vars
  BY <1>14 DEF Quiescent, vars, reqVars
<1> QED
  BY <1>1, <1>2, <1>3, <1>4, <1>5, <1>6, <1>7, <1>8, <1>9, <1>10, <1>11, <1>12, <1>13,
     <1>14
  DEF Next, Serve

(* The step that passes the check, and what it leaves alone. *)
LEMMA InsertEffect ==
  ASSUME TypeOK, Shape, NEW r \in Requests, InsertKey(r)
  PROVE  /\ boot' = boot /\ life' = life /\ message' = message
         /\ replayCache' = replayCache \union {Key(r)}
         /\ life[r] = boot /\ pc[r] = "insert"
         /\ \A q \in Requests \ {r} : Passed(q)' <=> Passed(q)
         /\ Passed(r)'
BY DEF InsertKey, TypeOK, Shape, Goto, InFlight, Passed, Success

(* A restart puts every request it finds into an earlier lifetime. *)
LEMMA CrashEffect ==
  ASSUME TypeOK, Shape, Crash
  PROVE  /\ life' = life /\ message' = message
         /\ \A q \in Requests : life[q] # boot' /\ (Passed(q)' => Passed(q))
BY DEF Crash, TypeOK, Shape, InFlight, Passed

(* The cache keeps the keys of this lifetime. *)
LEMMA CacheStep == TypeOK /\ Shape /\ CacheKeeps /\ [Next]_vars => CacheKeeps'
<1> SUFFICES ASSUME TypeOK, Shape, CacheKeeps, [Next]_vars,
                    NEW q \in Requests, Passed(q)', life'[q] = boot'
             PROVE  Key(q)' \in replayCache'
  BY DEF CacheKeeps
<1>1. CASE KeepsPassed
  BY <1>1 DEF KeepsPassed, CacheKeeps, Key
<1>2. ASSUME NEW r \in Requests, InsertKey(r) PROVE Key(q)' \in replayCache'
  BY <1>2, InsertEffect DEF CacheKeeps, Key
<1>3. CASE Crash
  BY <1>3, CrashEffect
<1> QED
  BY <1>1, <1>2, <1>3, OthersKeepPassed

(* No two requests of one lifetime pass with the same key: what the one    *)
(* that inserts did not find is still not there, since it has held the lock *)
(* ever since, and the cache has the keys of the others.                   *)
LEMMA PassOnceStep ==
  TypeOK /\ Shape /\ LockHeld /\ CacheKeeps /\ PassOnce /\ [Next]_vars => PassOnce'
<1> SUFFICES ASSUME TypeOK, Shape, LockHeld, CacheKeeps, PassOnce, [Next]_vars,
                    NEW p \in Requests, NEW q \in Requests,
                    Passed(p)', Passed(q)', life'[p] = life'[q], Key(p)' = Key(q)'
             PROVE  p = q
  BY DEF PassOnce
<1>1. CASE KeepsPassed
  BY <1>1 DEF KeepsPassed, PassOnce, Key
<1>2. ASSUME NEW r \in Requests, InsertKey(r) PROVE p = q
  <2>1. /\ life' = life /\ message' = message /\ life[r] = boot
        /\ \A x \in Requests \ {r} : Passed(x)' <=> Passed(x)
        /\ Key(r) \notin replayCache
    BY <1>2, InsertEffect DEF LockHeld
  <2>2. \A x \in Requests \ {r} : Passed(x) /\ life[x] = boot => Key(x) \in replayCache
    BY DEF CacheKeeps
  <2>3. CASE p # r /\ q # r
    BY <2>1, <2>3 DEF PassOnce, Key
  <2>4. CASE p = r \/ q = r
    BY <2>1, <2>2, <2>4 DEF Key
  <2> QED
    BY <2>3, <2>4
<1>3. CASE Crash
  BY <1>3, CrashEffect DEF PassOnce, Key
<1> QED
  BY <1>1, <1>2, <1>3, OthersKeepPassed

(* The invariant holds in the beginning. *)
LEMMA GatewayInvInit == Init => GatewayInv
<1> SUFFICES ASSUME Init PROVE GatewayInv
  OBVIOUS
<1>1. LockHeld
  BY DEF Init, LockHeld
<1>2. mu \in BOOLEAN
  BY DEF Init
<1> QED
  BY <1>1, <1>2, GatewayAssumption DEF Init, GatewayInv, GatewayAssumption, TypeOK, Shape,
     CacheKeeps, PassOnce, Passed, Accepted, Success, Reasons, Errors, Outcomes, Steps, InFlight, KeySpace

(* GatewayInv is an invariant of the gateway. *)
THEOREM GatewayInvariant == Spec => []GatewayInv
<1>1. GatewayInv /\ [Next]_vars => GatewayInv'
  BY TypeStep, ShapeStep, LockStep, CacheStep, PassOnceStep DEF GatewayInv
<1> QED
  BY <1>1, GatewayInvInit, PTL DEF Spec

(* Every variable of the gateway keeps its type. *)
THEOREM TypeCorrect == Spec => []TypeOK
<1>1. GatewayInv => TypeOK
  BY DEF GatewayInv
<1> QED
  BY <1>1, GatewayInvariant, PTL

(* SecurityAdapter's cache does its work for any number of concurrent      *)
(* requests on any of the adapters: in one lifetime of the process two     *)
(* requests with the same id and timestamp are never both accepted.        *)
THEOREM ReplaysRefused == Spec => []AtMostOnce
<1>1. GatewayInv => AtMostOnce
  BY DEF GatewayInv, AtMostOnce, PassOnce, Passed, Accepted
<1> QED
  BY <1>1, GatewayInvariant, PTL

-----------------------------------------------------------------------------
(* The gateway implements ReplayGuard. *)

(* The same requests hold the same keys. *)
SamePassed ==
  /\ boot' = boot
  /\ \A q \in Requests :
       /\ Passed(q)' <=> Passed(q)
       /\ Passed(q) => life'[q] = life[q] /\ message'[q] = message[q]

(* No verdict is given. *)
SameOutcome == /\ outcome' = outcome
               /\ \A q \in Requests : pc'[q] = "lost" <=> pc[q] = "lost"

(* Request r, undecided so far, gets outcome o. *)
Decides(r, o) == /\ outcome[r] = "none" /\ pc[r] # "lost"
                 /\ o # "none"
                 /\ outcome' = [outcome EXCEPT ![r] = o]
                 /\ \A q \in Requests : pc'[q] = "lost" <=> pc[q] = "lost"

LEMMA SameClaims == SamePassed => Claims' = Claims
BY DEF SamePassed, Claims, Key

LEMMA SameVerdict == SameOutcome => Verdict' = Verdict
BY DEF SameOutcome, Verdict, Accepted

LEMMA DecidedVerdict ==
  ASSUME TypeOK, NEW r \in Requests, NEW o, Decides(r, o)
  PROVE  /\ Verdict[r] = "open"
         /\ Verdict' = [Verdict EXCEPT ![r] = IF o \in Success THEN "accepted" ELSE "refused"]
<1>1. Verdict[r] = "open"
  BY DEF Decides, Verdict, Accepted, Success
<1>2. \A q \in Requests : Verdict'[q] =
        IF q = r THEN (IF o \in Success THEN "accepted" ELSE "refused") ELSE Verdict[q]
  BY DEF Decides, Verdict, Accepted, TypeOK
<1> QED
  BY <1>1, <1>2 DEF Verdict

(* A request that passed in this lifetime holds its claim, and its key is  *)
(* one of the guard's.                                                     *)
LEMMA PassedHolds ==
  ASSUME TypeOK, Shape, NEW r \in Requests, Passed(r), life[r] = boot
  PROVE  Key(r) \in KeySpace /\ <<Key(r), r>> \in Claims
BY KeyType DEF TypeOK, Shape, Claims

(* Every step is a step of the guard, or leaves it alone. *)
LEMMA GuardStep ==
  ASSUME GatewayInv, [Next]_vars
  PROVE  [Guard!GuardNext]_(Guard!gvars)
<1>0. TypeOK /\ Shape /\ LockHeld /\ CacheKeeps
  BY DEF GatewayInv
<1>a. ASSUME SamePassed, SameOutcome PROVE UNCHANGED Guard!gvars
  BY <1>a, SameClaims, SameVerdict DEF Guard!gvars
<1>b. ASSUME NEW r \in Requests, NEW o, Decides(r, o), SamePassed, o \notin Success
      PROVE  Guard!GuardNext
  BY <1>0, <1>b, SameClaims, DecidedVerdict DEF Guard!GuardNext, Guard!Refuse
<1>c. ASSUME NEW r \in Requests, NEW o, Decides(r, o), SamePassed, o \in Success,
             Passed(r), life[r] = boot
      PROVE  Guard!GuardNext
  BY <1>0, <1>c, SameClaims, DecidedVerdict, PassedHolds
  DEF Guard!GuardNext, Guard!Accept, Guard!Holds
<1>d. /\ "submitted" \in Success /\ "aggregated" \in Success
      /\ \A f \in {"malformed", "conversion", "replay", "implausible", "signatureError",
                   "badSignature", "replayError", "submitError"} : f \notin Success
  BY DEF Success
<1> USE DEF TypeOK, Shape, Conclude, Goto, InFlight
<1>1. ASSUME NEW r \in Requests, NEW route \in Routes, NEW d \in Dtos, Receive(r, route, d)
      PROVE  UNCHANGED Guard!gvars
  <2>1. SamePassed /\ SameOutcome
    BY <1>0, <1>1 DEF Receive, SamePassed, SameOutcome, Passed, Success
  <2> QED
    BY <2>1, <1>a
<1>2. ASSUME NEW r \in Requests, RejectBody(r) PROVE Guard!GuardNext
  <2>1. Decides(r, "malformed") /\ SamePassed
    BY <1>0, <1>2 DEF RejectBody, SamePassed, Decides, Passed, Success
  <2> QED
    BY <2>1, <1>b, <1>d
<1>3. ASSUME NEW r \in Requests, Convert(r) PROVE UNCHANGED Guard!gvars
  <2>1. SamePassed /\ SameOutcome
    BY <1>0, <1>3 DEF Convert, SamePassed, SameOutcome, Passed, Success
  <2> QED
    BY <2>1, <1>a
<1>4. ASSUME NEW r \in Requests, ConversionFails(r) PROVE Guard!GuardNext
  <2>1. Decides(r, "conversion") /\ SamePassed
    BY <1>0, <1>4 DEF ConversionFails, SamePassed, Decides, Passed, Success
  <2> QED
    BY <2>1, <1>b, <1>d
<1>5. ASSUME NEW r \in Requests, CheckReplayAttack(r)
      PROVE  Guard!GuardNext \/ UNCHANGED Guard!gvars
  <2>1. CASE Key(r) \in replayCache
    <3>1. Decides(r, "replay") /\ SamePassed
      BY <1>0, <1>5, <2>1 DEF CheckReplayAttack, SamePassed, Decides, Passed, Success
    <3> QED
      BY <3>1, <1>b, <1>d
  <2>2. CASE Key(r) \notin replayCache
    <3>1. SamePassed /\ SameOutcome
      BY <1>0, <1>5, <2>2 DEF CheckReplayAttack, SamePassed, SameOutcome, Passed, Success
    <3> QED
      BY <3>1, <1>a
  <2> QED
    BY <2>1, <2>2
<1>16. ASSUME NEW r \in Requests, InsertKey(r) PROVE Guard!GuardNext
  <2>1. Key(r) \in KeySpace
    BY <1>0, <1>16, KeyType DEF InsertKey
  <2>2. ~Guard!Claimed(Key(r))
    BY <1>0, <1>16, InsertEffect DEF Guard!Claimed, Claims, CacheKeeps, LockHeld, Key
  <2>3. ~Guard!Holds(r)
    BY <1>0, <1>16 DEF InsertKey, Guard!Holds, Claims, Passed, Success
  <2>4. Verdict[r] = "open"
    BY <1>0, <1>16 DEF InsertKey, Verdict, Accepted, Success
  <2>5. Claims' = Claims \union {<<Key(r), r>>}
    BY <1>0, <1>16, InsertEffect DEF Claims, Key
  <2>6. SameOutcome
    BY <1>0, <1>16 DEF InsertKey, SameOutcome
  <2> QED
    BY <2>1, <2>2, <2>3, <2>4, <2>5, <2>6, SameVerdict DEF Guard!GuardNext, Guard!Claim
<1>6. ASSUME NEW r \in Requests, ValidatePlausibility(r)
      PROVE  Guard!GuardNext \/ UNCHANGED Guard!gvars
  <2>1. CASE outcome' = outcome
    <3>1. SamePassed /\ SameOutcome
      BY <1>0, <1>6, <2>1 DEF ValidatePlausibility, SamePassed, SameOutcome, Passed, Success
    <3> QED
      BY <3>1, <1>a
  <2>2. CASE outcome' # outcome
    <3>1. Decides(r, "implausible") /\ SamePassed
      BY <1>0, <1>6, <2>2 DEF ValidatePlausibility, SamePassed, Decides, Passed, Success
    <3> QED
      BY <3>1, <1>b, <1>d
  <2> QED
    BY <2>1, <2>2
<1>7. ASSUME NEW r \in Requests, Aggregate(r) PROVE Guard!GuardNext
  <2>1. Decides(r, "aggregated") /\ SamePassed /\ Passed(r) /\ life[r] = boot
    BY <1>0, <1>7 DEF Aggregate, SamePassed, Decides, Passed, Success
  <2> QED
    BY <2>1, <1>c, <1>d
<1>8. ASSUME NEW r \in Requests, SubmitLoad(r) PROVE UNCHANGED Guard!gvars
  <2>1. SamePassed /\ SameOutcome
    BY <1>0, <1>8 DEF SubmitLoad, SamePassed, SameOutcome, Passed, Success
  <2> QED
    BY <2>1, <1>a
<1>9. ASSUME NEW r \in Requests, SubmitStore(r) PROVE Guard!GuardNext
  <2>1. Decides(r, "submitted") /\ SamePassed /\ Passed(r) /\ life[r] = boot
    BY <1>0, <1>9 DEF SubmitStore, SamePassed, Decides, Passed, Success
  <2> QED
    BY <2>1, <1>c, <1>d
<1>10. ASSUME NEW r \in Requests, PortFails(r) PROVE Guard!GuardNext
  <2>1. PICK f \in PortFaults : /\ pc[r] = (IF f = "submitError" THEN "dispatch" ELSE "secure")
                                /\ Conclude(r, f, "tally")
                                /\ life' = life /\ message' = message /\ boot' = boot
    BY <1>10 DEF PortFails
  <2>2. f \in {"signatureError", "badSignature", "replayError", "submitError"}
    BY GatewayAssumption DEF GatewayAssumption
  <2>3. Decides(r, f)
    BY <1>0, <2>1, <2>2 DEF Decides
  <2>4. SamePassed
    BY <1>0, <2>1, <2>2 DEF SamePassed, Passed, Success
  <2> QED
    BY <2>2, <2>3, <2>4, <1>b, <1>d
<1>11. ASSUME NEW r \in Requests, TallyVerdict(r) PROVE UNCHANGED Guard!gvars
  <2>1. SamePassed /\ SameOutcome
    BY <1>0, <1>11 DEF TallyVerdict, SamePassed, SameOutcome, Passed, Success
  <2> QED
    BY <2>1, <1>a
<1>12. ASSUME NEW r \in Requests, TallyStatus(r) PROVE UNCHANGED Guard!gvars
  <2>1. SamePassed /\ SameOutcome
    BY <1>0, <1>12 DEF TallyStatus, SamePassed, SameOutcome, Passed, Success, Accepted
  <2> QED
    BY <2>1, <1>a
<1>13. ASSUME Tick PROVE UNCHANGED Guard!gvars
  <2>1. SamePassed /\ SameOutcome
    BY <1>13 DEF Tick, reqVars, SamePassed, SameOutcome, Passed
  <2> QED
    BY <2>1, <1>a
<1>14. ASSUME Crash PROVE Guard!GuardNext
  <2> DEFINE L == {q \in Requests : InFlight(q) /\ outcome[q] = "none"}
  <2>1. \A q \in L : Verdict[q] = "open"
    BY DEF Verdict, Accepted, Success
  <2>2. Verdict' = [q \in Requests |-> IF q \in L THEN "lost" ELSE Verdict[q]]
    BY <1>0, <1>14 DEF Crash, Verdict, Accepted, Success
  <2>3. Claims' = {}
    BY <1>0, <1>14 DEF Crash, Claims
  <2> QED
    BY <2>1, <2>2, <2>3 DEF Guard!GuardNext, Guard!Restart
<1>15. ASSUME Quiescent \/ UNCHANGED vars PROVE UNCHANGED Guard!gvars
  <2>1. SamePassed /\ SameOutcome
    BY <1>15 DEF Quiescent, vars, reqVars, SamePassed, SameOutcome, Passed
  <2> QED
    BY <2>1, <1>a
<1> QED
  BY <1>1, <1>2, <1>3, <1>4, <1>5, <1>6, <1>7, <1>8, <1>9, <1>10, <1>11, <1>12, <1>13, <1>14, <1>15,
     <1>16
  DEF Next, Serve

(* The gateway implements the replay guard: every behaviour of the two     *)
(* adapters, the security adapter's cache and the process's restarts shows *)
(* the claims and the verdicts ReplayGuard allows.                         *)
THEOREM GatewayImplementsGuard == Spec => ImplementsGuard
<1>1. Init => Guard!GuardInit
  BY DEF Init, Guard!GuardInit, Claims, Verdict, Passed, Accepted, Success
<1>2. GatewayInv /\ [Next]_vars => [Guard!GuardNext]_(Guard!gvars)
  BY GuardStep
<1> QED
  BY <1>1, <1>2, GatewayInvariant, PTL DEF Spec, ImplementsGuard, Guard!GuardSpec

-----------------------------------------------------------------------------
(* Why requests are refused as replays. *)

(* A request that has passed the check keeps its key and its lifetime, and *)
(* only a restart takes it back, by losing it.                             *)
LEMMA PassedStays ==
  ASSUME TypeOK, Shape, [Next]_vars, NEW q \in Requests, Passed(q) \/ pc[q] = "lost"
  PROVE  /\ life'[q] = life[q] /\ message'[q] = message[q]
         /\ Passed(q)' \/ pc'[q] = "lost"
         /\ Passed(q) => Passed(q)' \/ Crash
<1> USE DEF TypeOK, Shape, Conclude, Goto, InFlight, Passed, Success
<1>1. ASSUME NEW r \in Requests, NEW route \in Routes, NEW d \in Dtos, Receive(r, route, d)
      PROVE  life'[q] = life[q] /\ message'[q] = message[q] /\ pc'[q] = pc[q] /\ outcome'[q] = outcome[q]
  BY <1>1 DEF Receive
<1>2. ASSUME NEW r \in Requests, RejectBody(r) \/ Convert(r) \/ ConversionFails(r)
      PROVE  life'[q] = life[q] /\ message'[q] = message[q] /\ pc'[q] = pc[q] /\ outcome'[q] = outcome[q]
  BY <1>2 DEF RejectBody, Convert, ConversionFails
<1>3. ASSUME NEW r \in Requests, CheckReplayAttack(r) \/ InsertKey(r) \/ PortFails(r)
      PROVE  /\ life'[q] = life[q] /\ message'[q] = message[q]
             /\ q # r => pc'[q] = pc[q] /\ outcome'[q] = outcome[q]
             /\ q = r => Passed(q)'
  <2>1. CASE CheckReplayAttack(r) \/ InsertKey(r)
    BY <2>1 DEF CheckReplayAttack, InsertKey
  <2>2. CASE PortFails(r)
    BY <2>2, GatewayAssumption DEF PortFails, GatewayAssumption
  <2> QED
    BY <1>3, <2>1, <2>2
<1>4. ASSUME NEW r \in Requests, ValidatePlausibility(r) \/ Aggregate(r)
      PROVE  life'[q] = life[q] /\ message'[q] = message[q] /\ (q # r => pc'[q] = pc[q] /\ outcome'[q] = outcome[q])
             /\ (q = r => Passed(q)')
  BY <1>4 DEF ValidatePlausibility, Aggregate
<1>5. ASSUME NEW r \in Requests, SubmitLoad(r) \/ SubmitStore(r)
      PROVE  life'[q] = life[q] /\ message'[q] = message[q] /\ (q # r => pc'[q] = pc[q] /\ outcome'[q] = outcome[q])
             /\ (q = r => Passed(q)')
  BY <1>5 DEF SubmitLoad, SubmitStore
<1>6. ASSUME NEW r \in Requests, TallyVerdict(r) \/ TallyStatus(r)
      PROVE  life'[q] = life[q] /\ message'[q] = message[q] /\ (q # r => pc'[q] = pc[q] /\ outcome'[q] = outcome[q])
             /\ (q = r => (Passed(q) => Passed(q)') /\ pc[q] # "lost")
  BY <1>6 DEF TallyVerdict, TallyStatus
<1>7. CASE Tick \/ Quiescent \/ UNCHANGED vars
  BY <1>7 DEF Tick, Quiescent, vars, reqVars
<1>8. CASE Crash
  BY <1>8 DEF Crash
<1> QED
  BY <1>1, <1>2, <1>3, <1>4, <1>5, <1>6, <1>7, <1>8 DEF Next, Serve

(* Only CheckReplayAttack refuses a request as a replay. *)
LEMMA ReplayIsNew ==
  ASSUME TypeOK, Shape, [Next]_vars, NEW r \in Requests, outcome'[r] = "replay", outcome[r] # "replay"
  PROVE  CheckReplayAttack(r) /\ Key(r) \in replayCache
<1> USE DEF TypeOK, Conclude, Goto
<1>1. ASSUME NEW q \in Requests, CheckReplayAttack(q) PROVE q = r /\ Key(q) \in replayCache
  BY <1>1 DEF CheckReplayAttack
<1>2. ASSUME NEW q \in Requests, PortFails(q) PROVE FALSE
  BY <1>2, GatewayAssumption DEF PortFails, GatewayAssumption
<1>3. ASSUME NEW q \in Requests, RejectBody(q) \/ ConversionFails(q) \/ ValidatePlausibility(q)
                                 \/ Aggregate(q) \/ SubmitStore(q)
      PROVE  FALSE
  BY <1>3 DEF RejectBody, ConversionFails, ValidatePlausibility, Aggregate, SubmitStore
<1> QED
  BY <1>1, <1>2, <1>3
  DEF Next, Serve, Receive, Convert, InsertKey, SubmitLoad, TallyVerdict, TallyStatus, Tick, Crash, Quiescent,
      vars, reqVars

(* A refused request is left alone but for its count. *)
LEMMA RefusedStays ==
  ASSUME TypeOK, Shape, [Next]_vars, NEW r \in Requests, outcome[r] = "replay"
  PROVE  life'[r] = life[r] /\ message'[r] = message[r]
<1> USE DEF TypeOK, Shape, Conclude, Goto
<1>1. ASSUME NEW q \in Requests, \/ RejectBody(q) \/ Convert(q)
                                 \/ \E route \in Routes, d \in Dtos : Receive(q, route, d)
      PROVE  life'[r] = life[r] /\ message'[r] = message[r]
  BY <1>1 DEF RejectBody, Convert, Receive
<1> QED
  BY <1>1 DEF Next, Serve, ConversionFails, CheckReplayAttack, InsertKey,
     ValidatePlausibility, Aggregate, SubmitLoad, SubmitStore, PortFails, TallyVerdict, TallyStatus, Tick, Crash, Quiescent, vars, reqVars

(* Every key of the cache was inserted by a request of this lifetime. *)
LEMMA CacheCauseStep == TypeOK /\ Shape /\ CacheHasCause /\ [Next]_vars => CacheHasCause'
<1> SUFFICES ASSUME TypeOK, Shape, CacheHasCause, [Next]_vars, NEW k \in replayCache'
             PROVE  \E q \in Requests : life'[q] = boot' /\ Passed(q)' /\ Key(q)' = k
  BY DEF CacheHasCause
<1>1. CASE Crash
  BY <1>1 DEF Crash
<1>2. ASSUME k \in replayCache, boot' = boot, ~Crash
      PROVE  \E q \in Requests : life'[q] = boot' /\ Passed(q)' /\ Key(q)' = k
  <2>1. PICK q \in Requests : life[q] = boot /\ Passed(q) /\ Key(q) = k
    BY <1>2 DEF CacheHasCause
  <2>2. life'[q] = life[q] /\ message'[q] = message[q] /\ Passed(q)'
    BY <1>2, <2>1, PassedStays
  <2> QED
    BY <1>2, <2>1, <2>2 DEF Key
<1>3. ASSUME NEW r \in Requests, InsertKey(r), k \notin replayCache
      PROVE  \E q \in Requests : life'[q] = boot' /\ Passed(q)' /\ Key(q)' = k
  <2>1. k = Key(r) /\ Passed(r)'
    BY <1>3, InsertEffect
  <2>2. boot' = boot /\ life' = life /\ message' = message /\ life[r] = boot
    BY <1>3, InsertEffect
  <2> QED
    BY <2>1, <2>2 DEF Key
<1>4. \/ Crash
      \/ boot' = boot /\ replayCache' = replayCache
      \/ \E r \in Requests : InsertKey(r) /\ boot' = boot
  BY OthersKeepPassed, InsertEffect DEF KeepsPassed
<1> QED
  BY <1>1, <1>2, <1>3, <1>4

(* A refusal as a replay has a cause, and keeps it. *)
LEMMA RefusalStep ==
  ASSUME TypeOK, Shape, CacheHasCause, RefusalHasCause, [Next]_vars
  PROVE  RefusalHasCause'
<1> SUFFICES ASSUME NEW r \in Requests, outcome'[r] = "replay"
             PROVE  \E q \in Requests \ {r} : /\ life'[q] = life'[r]
                                               /\ (Passed(q)' \/ pc'[q] = "lost")
                                               /\ message'[q] # NoMessage
                                               /\ Key(q)' = Key(r)'
  BY DEF RefusalHasCause
<1>1. CASE outcome[r] = "replay"
  <2>1. PICK q \in Requests \ {r} : /\ life[q] = life[r]
                                     /\ (Passed(q) \/ pc[q] = "lost")
                                     /\ message[q] # NoMessage
                                     /\ Key(q) = Key(r)
    BY <1>1 DEF RefusalHasCause
  <2>2. life'[q] = life[q] /\ message'[q] = message[q] /\ (Passed(q)' \/ pc'[q] = "lost")
    BY <2>1, PassedStays
  <2>3. life'[r] = life[r] /\ message'[r] = message[r]
    BY <1>1, RefusedStays
  <2> QED
    BY <2>1, <2>2, <2>3 DEF Key
<1>2. CASE outcome[r] # "replay"
  <2>1. CheckReplayAttack(r) /\ Key(r) \in replayCache
    BY <1>2, ReplayIsNew
  <2>2. PICK q \in Requests : life[q] = boot /\ Passed(q) /\ Key(q) = Key(r)
    BY <2>1 DEF CacheHasCause
  <2>3. q # r /\ life[r] = boot /\ life' = life /\ message' = message
    BY <2>1, <2>2 DEF CheckReplayAttack, Shape, Passed, Success, InFlight
  <2>4. message[q] # NoMessage
    BY <2>2, GatewayAssumption DEF Shape, GatewayAssumption
  <2>5. Passed(q)' \/ pc'[q] = "lost"
    BY <2>2, PassedStays
  <2> QED
    BY <2>2, <2>3, <2>4, <2>5 DEF Key
<1> QED
  BY <1>1, <1>2

(* Whoever is told that its message is a replay is told so because another *)
(* request of the same lifetime brought the same id and timestamp before.  *)
THEOREM RefusalsHaveCause == Spec => []RefusalHasCause
<1>1. Init => CacheHasCause /\ RefusalHasCause
  BY DEF Init, CacheHasCause, RefusalHasCause
<1>2. GatewayInv /\ CacheHasCause /\ RefusalHasCause /\ [Next]_vars
        => CacheHasCause' /\ RefusalHasCause'
  BY CacheCauseStep, RefusalStep DEF GatewayInv
<1> QED
  BY <1>1, <1>2, GatewayInvariant, PTL DEF Spec

-----------------------------------------------------------------------------
(* The pending transactions. *)

(* A transaction that is rightly there stays so until the process ends. *)
LEMMA RightfulStays ==
  ASSUME TypeOK, Shape, [Next]_vars, ~Crash, NEW q \in Requests, Rightful(q)
  PROVE  Rightful(q)'
<1>1. Passed(q) /\ outcome[q] = "submitted" /\ pc[q] # "idle"
  BY DEF Rightful, Passed, Success, Shape
<1>2. life'[q] = life[q] /\ message'[q] = message[q]
  BY <1>1, PassedStays
<1>3. boot' = boot /\ replayCache \subseteq replayCache'
  BY OthersKeepPassed, InsertEffect DEF KeepsPassed
<1>4. outcome'[q] = "submitted"
  <2> USE DEF TypeOK, Shape, Conclude, Goto
  <2>1. ASSUME NEW r \in Requests, RejectBody(r) PROVE outcome'[q] = outcome[q]
    BY <1>1, <2>1 DEF RejectBody
  <2>2. ASSUME NEW r \in Requests, ConversionFails(r) \/ CheckReplayAttack(r) \/ ValidatePlausibility(r)
        PROVE  outcome'[q] = outcome[q]
    BY <1>1, <2>2 DEF ConversionFails, CheckReplayAttack, ValidatePlausibility
  <2>3. ASSUME NEW r \in Requests, Aggregate(r) \/ PortFails(r) PROVE outcome'[q] = outcome[q]
    BY <1>1, <2>3 DEF Aggregate, PortFails
  <2>4. ASSUME NEW r \in Requests, SubmitStore(r) PROVE outcome'[q] = "submitted"
    BY <1>1, <2>4 DEF SubmitStore
  <2> QED
    BY <1>1, <2>1, <2>2, <2>3, <2>4
    DEF Next, Serve, Receive, Convert, InsertKey, SubmitLoad, TallyVerdict, TallyStatus, Tick, Quiescent, vars, reqVars
<1> QED
  BY <1>1, <1>2, <1>3, <1>4 DEF Rightful, Key

(* Every slice holds requests. *)
LEMMA SliceType == TypeOK => Slices \subseteq Seq(Requests)
BY DEF TypeOK, Slices

(* A sound slice stays sound until the process ends. *)
LEMMA SoundStays ==
  ASSUME TypeOK, Shape, [Next]_vars, ~Crash, NEW s \in Seq(Requests), Sound(s)
  PROVE  Sound(s)'
<1>1. \A i \in DOMAIN s : s[i] \in Requests /\ Rightful(s[i])
  BY ElementOfSeq DEF Sound
<1>2. \A q \in Requests : Rightful(q) => Rightful(q)'
  BY RightfulStays
<1>3. \A i \in DOMAIN s : Rightful(s[i])'
  BY <1>1, <1>2
<1> QED
  BY <1>3 DEF Sound

(* The slice a racing append stores is sound, and aligned with the others. *)
LEMMA StoreSound ==
  ASSUME TypeOK, Shape, CacheKeeps, SlicesSound, NEW r \in Requests, SubmitStore(r)
  PROVE  /\ \A s : s = pendingTxs' => Sound(s)'
         /\ \A t \in Slices \union {pendingTxs'} :
              Aligned(pendingTxs', t) /\ Aligned(t, pendingTxs')
         /\ Slices' \subseteq Slices \union {pendingTxs', <<>>}
<1> DEFINE old == loaded[r]
           new == pendingTxs'
           n == Len(old) + 1
<1>1. /\ pc[r] = "append" /\ outcome[r] = "none" /\ life[r] = boot
      /\ old \in Seq(Requests) /\ pendingTxs \in Seq(Requests)
      /\ message[r].priority = 0
      /\ Key(r) \in replayCache
      /\ old \in Slices /\ pendingTxs \in Slices
  BY DEF SubmitStore, Shape, InFlight, TypeOK, SlicesSound, CacheKeeps, Passed, Slices
<1>2. /\ DOMAIN Append(old, r) = 1..n /\ DOMAIN old = 1..(n - 1) /\ n \in Nat \ {0}
      /\ Append(old, r)[n] = r /\ \A i \in 1..(n - 1) : Append(old, r)[i] = old[i]
  BY <1>1
<1>3. /\ DOMAIN new = 1..n
      /\ \A i \in 1..n : \/ new[i] = Append(old, r)[i]
                         \/ i \in DOMAIN pendingTxs /\ new[i] = pendingTxs[i]
  BY <1>2 DEF SubmitStore
<1>4. \A i \in 1..n : \/ i = n /\ new[i] = r
                      \/ i \in DOMAIN old /\ new[i] = old[i]
                      \/ i \in DOMAIN pendingTxs /\ new[i] = pendingTxs[i]
  <2>1. \A i \in 1..n : i = n \/ i \in 1..(n - 1)
    BY <1>2
  <2> QED
    BY <1>2, <1>3, <2>1
<1>5. \A t \in Slices : \A i \in DOMAIN t : t[i] # r /\ t[i] \in Requests /\ Rightful(t[i])
  <2>1. \A t \in Slices : \A i \in DOMAIN t : Rightful(t[i])
    BY DEF SlicesSound, Sound
  <2>2. ~Rightful(r)
    BY <1>1 DEF Rightful
  <2>3. \A t \in Slices : \A i \in DOMAIN t : t[i] \in Requests
    BY SliceType, ElementOfSeq
  <2> QED
    BY <2>1, <2>2, <2>3
<1>6. \A t \in Slices : Aligned(new, t) /\ Aligned(t, new)
  BY <1>1, <1>3, <1>4, <1>5 DEF SlicesSound, Aligned
<1>7. Aligned(new, new)
  BY <1>1, <1>3, <1>4, <1>5 DEF SlicesSound, Aligned
<1>8. \A q \in Requests : q = r \/ Rightful(q) => Rightful(q)'
  BY <1>1 DEF SubmitStore, Conclude, Rightful, Key, TypeOK
<1>9. ASSUME NEW s, s = pendingTxs' PROVE Sound(s)'
  <2>1. \A i \in DOMAIN s : s[i] \in Requests /\ (s[i] = r \/ Rightful(s[i]))
    BY <1>1, <1>3, <1>4, <1>5, <1>9
  <2>2. \A i \in DOMAIN s : Rightful(s[i])'
    BY <1>8, <2>1
  <2> QED
    BY <2>2 DEF Sound
<1>10. Slices' \subseteq Slices \union {new, <<>>}
  BY DEF SubmitStore, Slices, TypeOK
<1> QED
  BY <1>6, <1>7, <1>9, <1>10

(* Every slice is sound, and aligned with the others, after every step. *)
LEMMA SlicesStep == TypeOK /\ Shape /\ CacheKeeps /\ SlicesSound /\ [Next]_vars => SlicesSound'
<1> SUFFICES ASSUME TypeOK, Shape, CacheKeeps, SlicesSound, [Next]_vars PROVE SlicesSound'
  OBVIOUS
<1>1. CASE Crash
  <2>1. Slices' \subseteq {<<>>} /\ DOMAIN <<>> = {}
    BY <1>1 DEF Crash, Slices
  <2>2. \A r \in Requests : pc'[r] # "append"
    BY <1>1 DEF Crash, InFlight, TypeOK
  <2> QED
    BY <2>1, <2>2 DEF SlicesSound, Sound, Aligned
<1>2. CASE ~Crash
  <2>1. \A s \in Slices : Sound(s)'
    BY <1>2, SoundStays, SliceType DEF SlicesSound
  <2>2. \A q \in Requests : pc[q] = "append" => message'[q].priority = 0
    <3>1. \A q \in Requests : pc[q] = "append" => message'[q] = message[q]
      BY PassedStays DEF Passed
    <3> QED
      BY <3>1 DEF SlicesSound
  <2>3. ASSUME Slices' \subseteq Slices,
               \A q \in Requests : pc'[q] = "append" => pc[q] = "append" \/ message'[q].priority = 0
        PROVE  SlicesSound'
    BY <2>1, <2>2, <2>3 DEF SlicesSound, Aligned
  <2>4. ASSUME UNCHANGED <<pendingTxs, loaded>>,
               \A q \in Requests : pc'[q] = "append" => pc[q] = "append"
        PROVE  SlicesSound'
    BY <2>3, <2>4 DEF Slices
  <2>5. ASSUME NEW r \in Requests, SubmitStore(r) PROVE SlicesSound'
    <3>1. \A q \in Requests : pc'[q] = "append" => pc[q] = "append"
      BY <2>5 DEF SubmitStore, Conclude, Goto, TypeOK
    <3>2. \A s \in Slices' : s \in Slices \/ s = pendingTxs' \/ s = <<>>
      BY <2>5, StoreSound
    <3>3. \A s \in Slices' : Sound(s)'
      <4>1. \A s : s = pendingTxs' => Sound(s)'
        BY <2>5, StoreSound
      <4>2. Sound(<<>>)'
        BY DEF Sound
      <4> QED
        BY <2>1, <3>2, <4>1, <4>2
    <3>4. \A s, t \in Slices' : Aligned(s, t)
      <4>1. \A t \in Slices \union {pendingTxs'} : Aligned(pendingTxs', t) /\ Aligned(t, pendingTxs')
        BY <2>5, StoreSound
      <4>2. \A s : Aligned(s, <<>>) /\ Aligned(<<>>, s)
        BY DEF Aligned
      <4> QED
        BY <3>2, <4>1, <4>2 DEF SlicesSound
    <3> QED
      BY <2>2, <3>1, <3>3, <3>4 DEF SlicesSound, Aligned
  <2>6. ASSUME NEW r \in Requests, SubmitLoad(r) PROVE SlicesSound'
    <3>1. Slices' \subseteq Slices
      BY <2>6 DEF SubmitLoad, Slices, TypeOK
    <3>2. \A q \in Requests : pc'[q] = "append" => pc[q] = "append" \/ message'[q].priority = 0
      BY <2>6 DEF SubmitLoad, Goto, IsCritical, TypeOK
    <3> QED
      BY <2>3, <3>1, <3>2
  <2> USE DEF TypeOK, Conclude, Goto
  <2>7. ASSUME NEW r \in Requests,
               \/ RejectBody(r) \/ Convert(r) \/ ConversionFails(r)
               \/ \E route \in Routes, d \in Dtos : Receive(r, route, d)
        PROVE  SlicesSound'
    BY <2>4, <2>7 DEF RejectBody, Convert, ConversionFails, Receive
  <2>8. ASSUME NEW r \in Requests,
               \/ CheckReplayAttack(r) \/ InsertKey(r)
               \/ ValidatePlausibility(r) \/ Aggregate(r) \/ PortFails(r)
        PROVE  SlicesSound'
    BY <2>4, <2>8 DEF CheckReplayAttack, InsertKey, ValidatePlausibility, Aggregate, PortFails
  <2>9. ASSUME NEW r \in Requests, TallyVerdict(r) \/ TallyStatus(r) PROVE SlicesSound'
    BY <2>4, <2>9 DEF TallyVerdict, TallyStatus
  <2>10. CASE Tick \/ Quiescent \/ UNCHANGED vars
    BY <2>4, <2>10 DEF Tick, Quiescent, vars, reqVars
  <2> QED
    BY <1>2, <2>5, <2>6, <2>7, <2>8, <2>9, <2>10 DEF Next, Serve
<1> QED
  BY <1>1, <1>2

(* However the unsynchronised appends interleave, what the blockchain      *)
(* adapter holds are distinct transactions of critical messages of this    *)
(* lifetime, each with its key in the cache.                               *)
THEOREM PendingIsSound == Spec => []PendingSound
<1>1. Init => SlicesSound
  <2>1. Init => Slices \subseteq {<<>>}
    BY DEF Init, Slices
  <2> QED
    BY <2>1 DEF Init, SlicesSound, Sound, Aligned
<1>2. GatewayInv /\ SlicesSound /\ [Next]_vars => SlicesSound'
  BY SlicesStep DEF GatewayInv
<1>3. SlicesSound => PendingSound
  BY DEF SlicesSound, Slices, Sound, Aligned, Rightful, PendingSound, Pending
<1> QED
  BY <1>1, <1>2, <1>3, GatewayInvariant, PTL DEF Spec

=============================================================================
