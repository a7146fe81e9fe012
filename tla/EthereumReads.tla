--------------------------- MODULE EthereumReads ---------------------------
(***************************************************************************)
(* Proofs about what the Ethereum clients read and count, for any ids,     *)
(* accounts, clients and calls, any order of mining, and any number of     *)
(* initializations.                                                        *)
(***************************************************************************)
EXTENDS EthereumProofs

-----------------------------------------------------------------------------
(* Sequences and what is in them. *)

Rng(s) == {s[n] : n \in 1..Len(s)}

LEMMA RngAppend ==
  ASSUME NEW S, NEW s \in Seq(S), NEW i \in S
  PROVE  /\ Append(s, i) \in Seq(S)
         /\ Rng(Append(s, i)) = Rng(s) \union {i}
         /\ Len(s) \in Nat /\ Len(Append(s, i)) = Len(s) + 1
         /\ Append(s, i)[Len(s) + 1] = i
         /\ \A n \in 1..Len(s) : Append(s, i)[n] = s[n]
<1>1. /\ Append(s, i) \in Seq(S) /\ Len(s) \in Nat /\ Len(Append(s, i)) = Len(s) + 1
      /\ Append(s, i)[Len(s) + 1] = i
      /\ \A n \in 1..Len(s) : Append(s, i)[n] = s[n]
  BY AppendProperties, LenProperties
<1>2. 1..(Len(s) + 1) = (1..Len(s)) \union {Len(s) + 1}
  BY <1>1
<1> QED
  BY <1>1, <1>2 DEF Rng

LEMMA RngTail ==
  ASSUME NEW S, NEW s \in Seq(S), s # <<>>
  PROVE  /\ Head(s) \in S /\ Tail(s) \in Seq(S)
         /\ Rng(s) = {Head(s)} \union Rng(Tail(s))
         /\ Len(s) \in Nat \ {0} /\ Len(Tail(s)) = Len(s) - 1
         /\ s[1] = Head(s) /\ \A n \in 1..Len(Tail(s)) : Tail(s)[n] = s[n + 1]
<1>1. /\ Head(s) \in S /\ Tail(s) \in Seq(S)
      /\ Len(s) \in Nat \ {0} /\ Len(Tail(s)) = Len(s) - 1
      /\ s[1] = Head(s) /\ \A n \in 1..Len(Tail(s)) : Tail(s)[n] = s[n + 1]
  BY HeadTailProperties, EmptySeq, LenProperties
<1>2. \A n \in 2..Len(s) : n - 1 \in 1..Len(Tail(s)) /\ s[n] = Tail(s)[n - 1]
  BY <1>1
<1>3. \A n \in 1..Len(Tail(s)) : n + 1 \in 1..Len(s)
  BY <1>1
<1>4. Rng(s) \subseteq {Head(s)} \union Rng(Tail(s))
  BY <1>1, <1>2 DEF Rng
<1>5. {Head(s)} \union Rng(Tail(s)) \subseteq Rng(s)
  BY <1>1, <1>3 DEF Rng
<1> QED
  BY <1>1, <1>4, <1>5

LEMMA RngEmpty == Rng(<<>>) = {}
BY DEF Rng

-----------------------------------------------------------------------------
(* What is about what. *)

(* The ids a kind of write has stored, and what it finds. *)
Lists(w) == CASE w = "registerVehicle" -> vehicleIds
              [] w = "submitV2XMessage" -> messageIds
              [] w = "submitSecurityAlert" -> alertIds

FoundBy(w, i) == CASE w = "registerVehicle" -> IsVehicleRegistered(i)
                   [] w = "submitV2XMessage" -> MessageExists(i)
                   [] w = "submitSecurityAlert" -> AlertExists(i)

(* An id that may be stored again and again, as it is never found. *)
Repeated(w, i) == i = Empty /\ w # "registerVehicle"

LEMMA AboutKnown ==
  ASSUME NEW fn
  PROVE  About(fn) \in Writers /\ Stock(fn) = Lists(About(fn))
         /\ \A i : Found(fn, i) <=> FoundBy(About(fn), i)
<1>1. About(fn) \in Writers
  BY Zenon DEF About, Writers
<1>2. CASE About(fn) = "registerVehicle"
  BY <1>1, <1>2 DEF Stock, Found, Lists, FoundBy
<1>3. CASE About(fn) = "submitV2XMessage"
  BY <1>1, <1>3 DEF Stock, Found, Lists, FoundBy
<1>4. CASE About(fn) = "submitSecurityAlert"
  BY <1>1, <1>4 DEF Stock, Found, Lists, FoundBy
<1> QED
  BY <1>1, <1>2, <1>3, <1>4 DEF Writers

LEMMA AboutReads ==
  /\ About("getV2XMessage") = "submitV2XMessage"
  /\ About("getAllV2XMessages") = "submitV2XMessage"
  /\ About("getAllSecurityAlerts") = "submitSecurityAlert"
  /\ About("getAllVehicles") = "registerVehicle"
BY DEF About

-----------------------------------------------------------------------------
(* The steps. *)

Inits(k) == Initialize(k) \/ LoadContract(k) \/ LoadAccount(k)
Writes(c, k, o) == o.fn \in Writers /\ \E ok \in BOOLEAN : Send(c, k, o, ok)
Reads(c) == Get(c) \/ ListIds(c) \/ ReadNext(c)

LEMMA Actions ==
  ASSUME [Next]_vars
  PROVE  \/ \E k \in Clients : Inits(k)
         \/ \E k \in Clients, c \in Calls : \E o \in Ops[c] : Writes(c, k, o) \/ Ask(c, k, o)
         \/ \E c \in Calls : Mine(c) \/ Receive(c) \/ Fail(c) \/ Reads(c)
         \/ UNCHANGED vars
<1>1. ASSUME NEW k, NEW c, NEW o,
             \/ SendRegisterVehicle(c, k, o) \/ SendSubmitV2XMessage(c, k, o)
             \/ SendSubmitSecurityAlert(c, k, o)
      PROVE  Writes(c, k, o)
  <2>1. o.fn \in Writers /\ (Send(c, k, o, TRUE) \/ Send(c, k, o, Validate(o)))
    BY <1>1 DEF SendRegisterVehicle, SendSubmitV2XMessage, SendSubmitSecurityAlert, Writers
  <2>2. Validate(o) \in BOOLEAN
    BY DEF Validate
  <2> QED
    BY <2>1, <2>2 DEF Writes
<1> QED
  BY <1>1 DEF Next, Done, Inits, Reads

(* What a read keeps of what it has read. *)
ReadTypes == /\ todo \in [Calls -> Seq(Ids)] /\ seen \in [Calls -> Seq(Ids)]
             /\ before \in [Calls -> SUBSET Calls]

(* What the steps leave alone. *)
LEMMA InitsKeep ==
  ASSUME NEW k, Inits(k)
  PROVE  UNCHANGED <<contract, op, pc, from, tx, todo, seen, before, registrations>>
BY DEF Inits, Initialize, LoadContract, LoadAccount, call

(* A call is made: a write goes nowhere yet. *)
LEMMA WritesKeep ==
  ASSUME Contract, NEW c \in Calls, NEW k \in Clients, NEW o \in Ops[c], Writes(c, k, o)
  PROVE  /\ UNCHANGED <<contract, stage, inits, bound, account, instruments,
                        todo, seen, before, registrations>>
         /\ pc[c] = "idle" /\ tx[c] = "none" /\ op'[c] = o /\ o.fn \in Writers /\ o # None
         /\ \A d \in Calls \ {c} : UNCHANGED <<op[d], pc[d], from[d], tx[d]>>
         /\ pc'[c] \in {"sent", "replay", "reverted", "failed"}
         /\ tx'[c] \in {"none", "pending"}
         /\ pc'[c] = "sent" => ClientOf[c] \in bound
<1>1. PICK ok \in BOOLEAN : Send(c, k, o, ok)
  BY DEF Writes
<1>2. /\ UNCHANGED <<contract, stage, inits, bound, account, instruments,
                     todo, seen, before, registrations>>
      /\ pc[c] = "idle" /\ tx[c] = "none" /\ op'[c] = o /\ o.fn \in Writers /\ o # None
      /\ \A d \in Calls \ {c} : UNCHANGED <<op[d], pc[d], from[d], tx[d]>>
      /\ tx'[c] \in {"none", "pending"}
  BY <1>1, OpsKnown DEF Writes, Send, Begin, Goto, Contract, ClientTypes, Sent, client
<1>3. pc'[c] \in {"sent", "replay", "reverted", "failed"}
  BY <1>1 DEF Send, Begin, Goto, OnRevert, Contract, ClientTypes
<1>4. pc'[c] = "sent" => ClientOf[c] \in bound
  <2>1. CASE \E l \in Ended : Begin(c, o, l)
    BY <2>1 DEF Begin, Goto, Contract, ClientTypes, Ended
  <2>2. CASE k = ClientOf[c] /\ k \in bound
    BY <2>2
  <2> QED
    BY <1>1, <2>1, <2>2 DEF Send, Ended
<1> QED
  BY <1>2, <1>3, <1>4

LEMMA AskKeeps ==
  ASSUME Contract, ReadTypes, NEW c \in Calls, NEW k \in Clients, NEW o \in Ops[c], Ask(c, k, o)
  PROVE  /\ UNCHANGED <<contract, stage, inits, bound, account, instruments,
                        from, tx, todo, seen, registrations>>
         /\ pc[c] = "idle" /\ op'[c] = o /\ o.fn \in Functions \ Writers /\ o # None
         /\ \A d \in Calls \ {c} : UNCHANGED <<op[d], pc[d], before[d]>>
         /\ pc'[c] \in {"asked", "failed"}
BY OpsKnown DEF Ask, Begin, Goto, Contract, ClientTypes, ReadTypes, client

(* A transaction is mined. *)
LEMMA MineKeeps ==
  ASSUME Contract, NEW c \in Calls, Mine(c)
  PROVE  /\ UNCHANGED <<op, pc, from, todo, seen, before, registrations,
                        stage, inits, bound, account, instruments>>
         /\ tx[c] = "pending" /\ \A d \in Calls \ {c} : tx'[d] = tx[d]
         /\ op[c] # None /\ op[c].id \in Ids /\ from[c] \in Accounts
         /\ \/ Step(c) /\ tx'[c] = "mined"
            \/ UNCHANGED contract /\ tx'[c] \in Reasons
<1>1. /\ UNCHANGED <<op, pc, from, todo, seen, before, registrations,
                     stage, inits, bound, account, instruments>>
      /\ tx[c] = "pending" /\ \A d \in Calls \ {c} : tx'[d] = tx[d]
  BY DEF Mine, client, call, Contract, ClientTypes
<1>2. op[c] # None /\ op[c].fn \in Writers /\ op[c].id \in Ids /\ from[c] \in Accounts
  BY <1>1, OpKnown DEF Contract, Sent, Is
<1>3. CASE Apply(c) /\ tx' = [tx EXCEPT ![c] = "mined"]
  <2>1. Step(c)
    BY <1>3 DEF Apply, Is, Step
  <2> QED
    BY <1>1, <1>2, <1>3, <2>1 DEF Contract, ClientTypes
<1>4. CASE /\ Reverts(from[c], op[c]) # None /\ UNCHANGED contract
           /\ tx' = [tx EXCEPT ![c] = Reverts(from[c], op[c])]
  <2>1. Reverts(from[c], op[c]) \in Reasons
    BY <1>2, <1>4, RevertsKnown
  <2> QED
    BY <1>1, <1>2, <1>4, <2>1 DEF Contract, ClientTypes
<1> QED
  BY <1>3, <1>4 DEF Mine

(* A call is told of its transaction, or gives up. *)
LEMMA EndsKeep ==
  ASSUME Contract, NEW c \in Calls, Receive(c) \/ Fail(c)
  PROVE  /\ UNCHANGED <<contract, op, from, tx, todo, seen, before,
                        stage, inits, bound, account, instruments>>
         /\ pc[c] \in {"sent", "asked", "reading"} /\ \A d \in Calls \ {c} : pc'[d] = pc[d]
         /\ pc'[c] \in {"ok", "replay", "reverted", "failed"}
         /\ pc'[c] \in {"ok", "replay", "reverted"} => pc[c] = "sent"
         /\ pc'[c] = "ok" => tx[c] = "mined" /\ RecordVehicleRegistration(c)
         /\ pc'[c] # "ok" => UNCHANGED registrations
<1>1. CASE Fail(c)
  BY <1>1 DEF Fail, Goto, client, Contract, ClientTypes
<1>2. CASE Receive(c) /\ Confirmed(c) /\ Goto(c, "ok") /\ RecordVehicleRegistration(c)
  BY <1>2 DEF Receive, Confirmed, Goto, client, Contract, ClientTypes
<1>3. ASSUME NEW l \in Ended, OnRevert(op[c], tx[c], l), Goto(c, l),
             Receive(c), UNCHANGED registrations
      PROVE  /\ UNCHANGED <<contract, op, from, tx, todo, seen, before,
                            stage, inits, bound, account, instruments, registrations>>
             /\ pc[c] = "sent" /\ \A d \in Calls \ {c} : pc'[d] = pc[d]
             /\ pc'[c] \in {"replay", "reverted"}
  <2>1. l \in {"replay", "reverted"}
    BY <1>3 DEF OnRevert
  <2> QED
    BY <1>3, <2>1 DEF Receive, Goto, client, Contract, ClientTypes
<1> QED
  BY <1>1, <1>2, <1>3 DEF Receive

LEMMA ReadsKeep ==
  ASSUME Contract, Told, ReadTypes, NEW c \in Calls, Reads(c)
  PROVE  /\ UNCHANGED <<contract, op, from, tx, before, registrations,
                        stage, inits, bound, account, instruments>>
         /\ pc[c] \in {"asked", "reading"} /\ ~Is(c, Writers) /\ op[c] # None
         /\ \A d \in Calls \ {c} : UNCHANGED <<pc[d], todo[d], seen[d]>>
         /\ pc'[c] \in {"ok", "notFound", "reverted", "reading"}
<1>1. /\ UNCHANGED <<contract, op, from, tx, before, registrations,
                     stage, inits, bound, account, instruments>>
      /\ pc[c] \in {"asked", "reading"}
      /\ \A d \in Calls \ {c} : todo'[d] = todo[d] /\ seen'[d] = seen[d]
  <2>1. CASE Get(c)
    <3>1. UNCHANGED seen \/ \E ids : seen' = [seen EXCEPT ![c] = ids]
      BY <2>1 DEF Get, GetV2XMessage, GetRecord, Check, Count, Return
    <3> QED
      BY <2>1, <3>1 DEF Get, ReadTypes, client
  <2>2. CASE ListIds(c)
    BY <2>2 DEF ListIds, ReadTypes, client
  <2>3. CASE ReadNext(c)
    <3>1. UNCHANGED seen \/ \E ids : seen' = [seen EXCEPT ![c] = ids]
      BY <2>3 DEF ReadNext, Return
    <3>2. \E ids : todo' = [todo EXCEPT ![c] = ids]
      BY <2>3 DEF ReadNext
    <3> QED
      BY <2>3, <3>1, <3>2 DEF ReadNext, ReadTypes, client
  <2> QED
    BY <2>1, <2>2, <2>3 DEF Reads
<1>2. \E l \in {"ok", "notFound", "reverted", "reading"} : pc' = [pc EXCEPT ![c] = l]
  BY DEF Reads, Get, GetV2XMessage, GetRecord, Check, Count, ListIds, ReadNext, OnMissing, Goto
<1>3. ~Is(c, Writers) /\ op[c] # None
  BY <1>1 DEF Told, ToldOf, Contract, Sent
<1> QED
  BY <1>1, <1>2, <1>3 DEF Contract, ClientTypes

-----------------------------------------------------------------------------
(* The invariant. *)

(* Whatever was mined is listed. *)
Listed == \A d \in Calls, w \in Writers :
            tx[d] = "mined" /\ op[d].fn = w => op[d].id \in Rng(Lists(w))

Chain == Contract /\ Told /\ ListsMatchMappings /\ Listed

(* No id of s is there twice, unless it may be stored again and again. *)
Once(w, s) == \A m, n \in 1..Len(s) : s[m] = s[n] /\ ~Repeated(w, s[m]) => m = n

(* The writes a read has to show, and the ids they wrote. *)
Owing(c) == {d \in before[c] : /\ Is(d, {About(op[c].fn)})
                               /\ op[d].id \in Proper \/ Is(c, {"getAllSecurityAlerts"})}
Owed(c) == {op[d].id : d \in Owing(c)}

(* How far a listing is: what it was owed it has seen or has still to do. *)
ListingOf(c) ==
  /\ pc[c] = "reading" => todo[c] # <<>>
  /\ pc[c] = "ok" => todo[c] = <<>>
  /\ Rng(todo[c]) \subseteq Rng(Stock(op[c].fn)) /\ Once(About(op[c].fn), todo[c])
  /\ \A m, n \in 1..Len(seen[c]) : seen[c][m] = seen[c][n] => m = n
  /\ \A i \in Rng(seen[c]) : i \notin Rng(todo[c]) /\ ~Repeated(About(op[c].fn), i)
  /\ pc[c] \in {"reading", "ok"} => Owed(c) \subseteq Rng(todo[c]) \union Rng(seen[c])
  /\ pc[c] = "reverted" => Is(c, {"getAllSecurityAlerts"}) /\ Empty \in Rng(alertIds)

ReadOf(c) ==
  /\ pc[c] = "sent" => Is(c, Writers)
  /\ pc[c] = "reading" => Is(c, Listings)
  /\ pc[c] \in {"idle", "asked"} => todo[c] = <<>> /\ seen[c] = <<>>
  /\ before[c] \subseteq Succeeded
  /\ Is(c, Listings) => ListingOf(c)
  /\ Is(c, Counts) /\ pc[c] = "ok" => Owed(c) \subseteq Rng(seen[c])
  /\ Is(c, Getters \union Checks) /\ pc[c] = "ok" /\ op[c].id \in Owed(c) =>
       op[c].id \in Rng(seen[c])
  /\ pc[c] = "notFound" => op[c].id \notin Owed(c)

ReadsRight == \A c \in Calls : ReadOf(c)

(* A client that was initialized once has its instruments if it is bound. *)
Setup == /\ \A k \in Clients : inits[k] = 0 => stage[k] = "new" /\ k \notin bound
         /\ \A k \in Clients : inits[k] = 1 /\ k \in bound =>
              k \in instruments /\ stage[k] # "telemetry"
         /\ \A c \in Calls : pc[c] = "sent" => ClientOf[c] \in bound

(* The registrations on the chain. *)
MinedRegs == {c \in Calls : tx[c] = "mined" /\ Is(c, {"registerVehicle"})}

Counted == /\ IsFiniteSet(MinedRegs) /\ Cardinality(MinedRegs) = Len(vehicleIds)
           /\ registrations \in Nat /\ registrations <= Cardinality(Registered)
           /\ (\A k \in Clients : inits[k] <= 1) => registrations = Cardinality(Registered)

-----------------------------------------------------------------------------
(* The lists. *)

LEMMA ListsTyped ==
  ASSUME Contract, NEW w \in Writers
  PROVE  Lists(w) \in Seq(Ids)
<1>1. CASE w = "registerVehicle"
  BY <1>1 DEF Lists, Contract, ContractTypes
<1>2. CASE w = "submitV2XMessage"
  BY <1>2 DEF Lists, Contract, ContractTypes
<1>3. CASE w = "submitSecurityAlert"
  BY <1>3 DEF Lists, Contract, ContractTypes
<1> QED
  BY <1>1, <1>2, <1>3 DEF Writers

(* A transaction that takes effect appends its id to its list. *)
LEMMA StepLists ==
  ASSUME Contract, NEW c \in Calls, Step(c), from[c] \in Accounts, op[c].id \in Ids
  PROVE  /\ op[c].fn \in Writers
         /\ \A w \in Writers :
              Lists(w)' = IF w = op[c].fn THEN Append(Lists(w), op[c].id) ELSE Lists(w)
<1>1. CASE op[c].fn = "registerVehicle" /\ RegisterVehicle(from[c], op[c].id)
  BY <1>1 DEF RegisterVehicle, Lists, Writers
<1>2. CASE /\ op[c].fn = "submitV2XMessage"
           /\ SubmitV2XMessage(from[c], op[c].id, c, op[c].priority)
  BY <1>2 DEF SubmitV2XMessage, Lists, Writers
<1>3. CASE op[c].fn = "submitSecurityAlert" /\ SubmitSecurityAlert(from[c], op[c].id, c)
  BY <1>3 DEF SubmitSecurityAlert, Lists, Writers
<1> QED
  BY <1>1, <1>2, <1>3 DEF Step

(* No list loses an id. *)
LEMMA ListsGrow ==
  ASSUME Contract, [Next]_vars, NEW w \in Writers
  PROVE  Rng(Lists(w)) \subseteq Rng(Lists(w)')
<1>1. CASE UNCHANGED contract
  BY <1>1 DEF Lists, contract
<1>2. ASSUME NEW c \in Calls, Mine(c), Step(c), from[c] \in Accounts, op[c].id \in Ids
      PROVE  Rng(Lists(w)) \subseteq Rng(Lists(w)')
  <2>1. Lists(w)' = Append(Lists(w), op[c].id) \/ Lists(w)' = Lists(w)
    BY <1>2, StepLists
  <2>2. Rng(Append(Lists(w), op[c].id)) = Rng(Lists(w)) \union {op[c].id}
    BY <1>2, ListsTyped, RngAppend
  <2> QED
    BY <2>1, <2>2
<1> QED
  BY <1>1, <1>2, ContractSteps DEF Contract

(* Whatever was mined is listed, for good. *)
LEMMA ListedStep == Contract /\ Told /\ ReadTypes /\ Listed /\ [Next]_vars => Listed'
<1> SUFFICES ASSUME Contract, Told, ReadTypes, Listed, [Next]_vars,
                    NEW d \in Calls, NEW w \in Writers, tx'[d] = "mined", op'[d].fn = w
             PROVE  op'[d].id \in Rng(Lists(w)')
  BY DEF Listed
<1>1. ASSUME tx[d] = "mined", op'[d] = op[d]
      PROVE  op'[d].id \in Rng(Lists(w)')
  BY <1>1, ListsGrow DEF Listed
<1>2. ASSUME NEW k \in Clients, Inits(k)
      PROVE  op'[d].id \in Rng(Lists(w)')
  BY <1>1, <1>2, InitsKeep
<1>3. ASSUME NEW k \in Clients, NEW c \in Calls, NEW o \in Ops[c], Writes(c, k, o) \/ Ask(c, k, o)
      PROVE  op'[d].id \in Rng(Lists(w)')
  <2>1. d # c /\ tx[d] = "mined" /\ op'[d] = op[d]
    BY <1>3, WritesKeep, AskKeeps DEF Contract, Sent
  <2> QED
    BY <1>1, <2>1
<1>4. ASSUME NEW c \in Calls, Mine(c)
      PROVE  op'[d].id \in Rng(Lists(w)')
  <2>1. CASE tx[d] = "mined"
    BY <1>1, <1>4, <2>1, MineKeeps
  <2>2. CASE tx[d] # "mined"
    <3>1. d = c /\ UNCHANGED op /\ Step(c) /\ from[c] \in Accounts /\ op[c].id \in Ids
      BY <1>4, <2>2, MineKeeps DEF Reasons
    <3>2. w = op[c].fn /\ Lists(w)' = Append(Lists(w), op[c].id)
      BY <3>1, StepLists
    <3>3. op[c].id \in Rng(Append(Lists(w), op[c].id))
      BY <3>1, ListsTyped, RngAppend
    <3> QED
      BY <3>1, <3>2, <3>3
  <2> QED
    BY <2>1, <2>2
<1>5. ASSUME NEW c \in Calls, Receive(c) \/ Fail(c) \/ Reads(c)
      PROVE  op'[d].id \in Rng(Lists(w)')
  BY <1>1, <1>5, EndsKeep, ReadsKeep
<1>6. CASE UNCHANGED vars
  BY <1>1, <1>6 DEF vars, call
<1> QED
  BY <1>2, <1>3, <1>4, <1>5, <1>6, Actions

LEMMA NumberOf ==
  ASSUME NEW s \in Seq(Ids), NEW i
  PROVE  /\ Number(s, i) = 0 <=> i \notin Rng(s)
         /\ Number(s, i) = 1 => \A m, n \in 1..Len(s) : s[m] = i /\ s[n] = i => m = n
<1>1. IsFiniteSet(Indices(s, i))
  <2>1. IsFiniteSet(1..Len(s))
    BY LenProperties, FS_Interval
  <2>2. Indices(s, i) \subseteq 1..Len(s)
    BY DEF Indices
  <2> QED
    BY <2>1, <2>2, FS_Subset
<1>2. Number(s, i) = 0 <=> Indices(s, i) = {}
  BY <1>1, FS_EmptySet DEF Number
<1>3. Number(s, i) = 1 => \E x : Indices(s, i) = {x}
  BY <1>1, FS_Singleton DEF Number
<1>4. \A m, n \in 1..Len(s) : s[m] = i /\ s[n] = i => m \in Indices(s, i) /\ n \in Indices(s, i)
  BY DEF Indices
<1> QED
  BY <1>2, <1>3, <1>4 DEF Indices, Rng

(* How often an id is listed. *)
LEMMA HowOften ==
  ASSUME Contract, ListsMatchMappings, NEW w \in Writers, NEW i \in Ids
  PROVE  /\ ~Repeated(w, i) => Number(Lists(w), i) = IF FoundBy(w, i) THEN 1 ELSE 0
         /\ Repeated(w, i) => ~FoundBy(w, i)
<1> USE DEF Repeated, Lists, FoundBy, ListsMatchMappings, Number, Proper
<1>1. CASE w = "registerVehicle"
  BY <1>1
<1>2. CASE w = "submitV2XMessage"
  BY <1>2 DEF Contract, ContractTypes, MessageExists
<1>3. CASE w = "submitSecurityAlert"
  BY <1>3 DEF Contract, ContractTypes, AlertExists
<1> QED
  BY <1>1, <1>2, <1>3 DEF Writers

(* What is found is what is listed and not repeated, and that is listed once. *)
LEMMA FoundIsListed ==
  ASSUME Contract, ListsMatchMappings, NEW w \in Writers
  PROVE  /\ \A i \in Ids : FoundBy(w, i) <=> i \in Rng(Lists(w)) /\ ~Repeated(w, i)
         /\ Once(w, Lists(w))
<1>1. Lists(w) \in Seq(Ids)
  BY ListsTyped
<1>2. ASSUME NEW i \in Ids
      PROVE  FoundBy(w, i) <=> i \in Rng(Lists(w)) /\ ~Repeated(w, i)
  <2>1. Number(Lists(w), i) = 0 <=> i \notin Rng(Lists(w))
    BY <1>1, NumberOf
  <2> QED
    BY <2>1, HowOften
<1>3. ASSUME NEW m \in 1..Len(Lists(w)), NEW n \in 1..Len(Lists(w)),
             Lists(w)[m] = Lists(w)[n], ~Repeated(w, Lists(w)[m])
      PROVE  m = n
  <2> DEFINE i == Lists(w)[m]
  <2>1. i \in Ids /\ i \in Rng(Lists(w))
    BY <1>1, ElementOfSeq DEF Rng
  <2>2. Number(Lists(w), i) = 1
    BY <1>1, <1>3, <2>1, NumberOf, HowOften
  <2> QED
    BY <1>1, <1>3, <2>2, NumberOf
<1> QED
  BY <1>2, <1>3 DEF Once

(* What a read has to show is listed. *)
LEMMA OwedIsListed ==
  ASSUME Chain, NEW c \in Calls, before[c] \subseteq Succeeded
  PROVE  /\ Owed(c) \subseteq Rng(Stock(op[c].fn)) \intersect Ids
         /\ \A i \in Owed(c) : i \in Proper \/ Is(c, {"getAllSecurityAlerts"})
<1> DEFINE w == About(op[c].fn)
<1>1. w \in Writers /\ Stock(op[c].fn) = Lists(w)
  BY AboutKnown
<1>2. ASSUME NEW d \in Owing(c)
      PROVE  op[d].id \in Rng(Lists(w)) /\ op[d].id \in Ids
  <2>1. d \in Calls /\ tx[d] = "mined" /\ op[d].fn = w /\ op[d] # None
    BY <1>2 DEF Owing, Succeeded, Is, Chain, Told, ToldOf
  <2> QED
    BY <1>1, <2>1, OpKnown DEF Chain, Listed, Contract
<1> QED
  BY <1>1, <1>2 DEF Owed, Owing

(* Success is for good. *)
LEMMA SucceededGrows ==
  ASSUME Contract, Told, ReadTypes, [Next]_vars, NEW d \in Succeeded
  PROVE  d \in Succeeded' /\ op'[d] = op[d] /\ pc'[d] = "ok"
<1>0. d \in Calls /\ pc[d] = "ok"
  BY DEF Succeeded
<1>1. ASSUME op'[d] = op[d], pc'[d] = pc[d] PROVE d \in Succeeded'
  BY <1>0, <1>1 DEF Succeeded, Is
<1>2. op'[d] = op[d] /\ pc'[d] = pc[d]
  <2>1. ASSUME NEW k \in Clients, Inits(k) PROVE op'[d] = op[d] /\ pc'[d] = pc[d]
    BY <2>1, InitsKeep
  <2>2. ASSUME NEW k \in Clients, NEW c \in Calls, NEW o \in Ops[c],
               Writes(c, k, o) \/ Ask(c, k, o)
        PROVE  op'[d] = op[d] /\ pc'[d] = pc[d]
    BY <1>0, <2>2, WritesKeep, AskKeeps
  <2>3. ASSUME NEW c \in Calls, Mine(c) \/ Receive(c) \/ Fail(c) \/ Reads(c)
        PROVE  op'[d] = op[d] /\ pc'[d] = pc[d]
    BY <1>0, <2>3, MineKeeps, EndsKeep, ReadsKeep
  <2>4. CASE UNCHANGED vars
    BY <2>4 DEF vars, call
  <2> QED
    BY <2>1, <2>2, <2>3, <2>4, Actions
<1> QED
  BY <1>0, <1>1, <1>2

-----------------------------------------------------------------------------
(* The reads. *)

LEMMA FunctionsApart ==
  /\ Writers \intersect (Getters \union Checks \union Counts \union Listings) = {}
  /\ (Getters \union Checks) \intersect (Counts \union Listings) = {}
  /\ Counts \intersect Listings = {}
BY DEF Writers, Getters, Checks, Counts, Listings

(* What a read has to show is settled when it is made. *)
LEMMA OwedStays ==
  ASSUME Contract, Told, ReadTypes, [Next]_vars,
         NEW c \in Calls, before[c] \subseteq Succeeded, UNCHANGED <<op[c], before[c]>>
  PROVE  Owed(c)' = Owed(c) /\ before'[c] \subseteq Succeeded'
<1>1. \A d \in before[c] : op'[d] = op[d] /\ d \in Succeeded'
  BY SucceededGrows
<1>2. Owing(c)' = Owing(c)
  BY <1>1 DEF Owing, Is
<1> QED
  BY <1>1, <1>2 DEF Owed, Owing

LEMMA StockGrows ==
  ASSUME Contract, [Next]_vars, NEW fn
  PROVE  /\ Rng(Stock(fn)) \subseteq Rng(Stock(fn)')
         /\ Rng(alertIds) \subseteq Rng(alertIds')
<1>1. /\ About(fn) \in Writers /\ Stock(fn) = Lists(About(fn))
      /\ Stock(fn)' = Lists(About(fn))'
  <2>1. About(fn) \in Writers
    BY AboutKnown
  <2>2. CASE About(fn) = "registerVehicle"
    BY <2>1, <2>2 DEF Stock, Lists
  <2>3. CASE About(fn) = "submitV2XMessage"
    BY <2>1, <2>3 DEF Stock, Lists
  <2>4. CASE About(fn) = "submitSecurityAlert"
    BY <2>1, <2>4 DEF Stock, Lists
  <2> QED
    BY <2>1, <2>2, <2>3, <2>4 DEF Writers
<1>2. "submitSecurityAlert" \in Writers
  BY DEF Writers
<1> QED
  BY <1>1, <1>2, ListsGrow DEF Lists

(* A read is as right as it was while it does not move, or fails. *)
LEMMA ReadStays ==
  ASSUME Chain, ReadTypes, [Next]_vars, NEW c \in Calls, ReadOf(c),
         UNCHANGED <<op[c], todo[c], seen[c], before[c]>>, pc'[c] \in {pc[c], "failed"}
  PROVE  ReadOf(c)'
<1> DEFINE fn == op[c].fn
<1>1. Owed(c)' = Owed(c) /\ before'[c] \subseteq Succeeded'
  BY OwedStays DEF Chain, ReadOf
<1>2. Rng(Stock(fn)) \subseteq Rng(Stock(fn)') /\ Rng(alertIds) \subseteq Rng(alertIds')
  BY StockGrows DEF Chain
<1>3. ASSUME ListingOf(c) PROVE ListingOf(c)'
  BY <1>1, <1>2, <1>3 DEF ListingOf, Is
<1> QED
  BY <1>1, <1>3 DEF ReadOf, Is

(* A write reads nothing. *)
LEMMA WriteReads ==
  ASSUME NEW c \in Calls, Is(c, Writers)', before'[c] \subseteq Succeeded',
         pc'[c] \notin {"idle", "asked", "reading", "notFound"}
  PROVE  ReadOf(c)'
BY FunctionsApart DEF ReadOf, Is

(* A read begins with nothing read, and with what has succeeded by then to show. *)
LEMMA AskReads ==
  ASSUME Chain, ReadTypes, [Next]_vars, NEW c \in Calls, ReadOf(c),
         NEW k \in Clients, NEW o \in Ops[c], Ask(c, k, o)
  PROVE  ReadOf(c)'
<1>1. todo'[c] = <<>> /\ seen'[c] = <<>> /\ pc'[c] \in {"asked", "failed"}
  BY AskKeeps DEF Chain, ReadOf
<1>2. before'[c] \subseteq Succeeded'
  BY SucceededGrows DEF Chain, Ask, ReadTypes
<1>3. Len(todo'[c]) = 0 /\ Len(seen'[c]) = 0 /\ Rng(todo'[c]) = {} /\ Rng(seen'[c]) = {}
  BY <1>1, RngEmpty, EmptySeq
<1>4. ListingOf(c)'
  BY <1>1, <1>3 DEF ListingOf, Once
<1> QED
  BY <1>1, <1>2, <1>4 DEF ReadOf

(* What a read that moves keeps. *)
LEMMA ReadMoves ==
  ASSUME Chain, ReadTypes, [Next]_vars, NEW c \in Calls, ReadOf(c), Reads(c)
  PROVE  /\ UNCHANGED <<contract, op, before>> /\ ~Is(c, Writers) /\ op[c] # None
         /\ Owed(c)' = Owed(c) /\ before'[c] \subseteq Succeeded'
         /\ \A i \in Owed(c) : Is(c, {"getAllSecurityAlerts"}) \/ Found(op[c].fn, i)
         /\ Stock(op[c].fn) = Lists(About(op[c].fn)) /\ About(op[c].fn) \in Writers
         /\ Owed(c) \subseteq Rng(Stock(op[c].fn)) \intersect Ids
<1>1. UNCHANGED <<contract, op, before>> /\ ~Is(c, Writers) /\ op[c] # None
  BY ReadsKeep DEF Chain
<1>2. Owed(c)' = Owed(c) /\ before'[c] \subseteq Succeeded'
  BY <1>1, OwedStays DEF Chain, ReadOf
<1>3. Owed(c) \subseteq Rng(Stock(op[c].fn)) \intersect Ids
  BY OwedIsListed DEF ReadOf
<1>4. Stock(op[c].fn) = Lists(About(op[c].fn)) /\ About(op[c].fn) \in Writers
  BY AboutKnown
<1>5. ASSUME NEW i \in Owed(c), ~Is(c, {"getAllSecurityAlerts"}) PROVE Found(op[c].fn, i)
  <2>1. i \in Proper
    BY <1>5, OwedIsListed DEF ReadOf
  <2>2. i \in Ids /\ i \in Rng(Lists(About(op[c].fn))) /\ ~Repeated(About(op[c].fn), i)
    BY <1>3, <1>4, <2>1 DEF Repeated, Proper
  <2>3. FoundBy(About(op[c].fn), i)
    BY <1>4, <2>2, FoundIsListed DEF Chain
  <2> QED
    BY <2>3, AboutKnown
<1> QED
  BY <1>1, <1>2, <1>3, <1>4, <1>5

LEMMA GetReads ==
  ASSUME Chain, ReadTypes, [Next]_vars, NEW c \in Calls, ReadOf(c), Get(c)
  PROVE  ReadOf(c)'
<1>1. /\ UNCHANGED <<contract, op, before>> /\ ~Is(c, Writers) /\ op[c] # None
      /\ Owed(c)' = Owed(c) /\ before'[c] \subseteq Succeeded'
      /\ \A i \in Owed(c) : Is(c, {"getAllSecurityAlerts"}) \/ Found(op[c].fn, i)
      /\ Owed(c) \subseteq Rng(Stock(op[c].fn))
  BY ReadMoves DEF Reads
<1>2. /\ DOMAIN pc = Calls /\ DOMAIN seen = Calls
      /\ pc'[c] \notin {"sent", "idle", "asked", "reading"}
  BY DEF Chain, Contract, ClientTypes, ReadTypes, Get, GetV2XMessage, GetRecord, Check, Count, Goto
<1>3. \A i : Rng(<<i>>) = {i}
  BY DEF Rng
<1>4. CASE Count(c)
  <2>1. Is(c, Counts) /\ seen'[c] = Stock(op[c].fn) /\ pc'[c] = "ok"
    BY <1>2, <1>4 DEF Count, Return, Goto
  <2> QED
    BY <1>1, <1>2, <2>1, FunctionsApart DEF ReadOf, Is
<1>5. ASSUME Is(c, Getters \union Checks),
             pc'[c] = "ok" /\ op[c].id \in Owed(c) => op[c].id \in Rng(seen'[c]),
             pc'[c] = "notFound" => op[c].id \notin Owed(c)
      PROVE  ReadOf(c)'
  BY <1>1, <1>2, <1>5, FunctionsApart DEF ReadOf, Is
<1>6. ASSUME Is(c, Getters \union Checks), op[c].id \in Owed(c) PROVE Found(op[c].fn, op[c].id)
  <2>1. ~Is(c, {"getAllSecurityAlerts"})
    BY <1>6, FunctionsApart DEF Is, Listings
  <2> QED
    BY <1>1, <1>6, <2>1
<1>7. CASE GetV2XMessage(c)
  <2>1. Is(c, Getters \union Checks)
    BY <1>7 DEF GetV2XMessage, Is, Getters
  <2>2. Found(op[c].fn, op[c].id) <=> MessageExists(op[c].id)
    BY <1>7, AboutReads DEF GetV2XMessage, Is, Found
  <2>3. \/ pc'[c] = "ok" /\ seen'[c] = <<op[c].id>>
        \/ pc'[c] = "notFound" /\ ~MessageExists(op[c].id)
    BY <1>2, <1>7 DEF GetV2XMessage, Goto, Return
  <2> QED
    BY <1>3, <1>5, <1>6, <2>1, <2>2, <2>3
<1>8. CASE GetRecord(c)
  <2>1. Is(c, Getters \union Checks)
    BY <1>8 DEF GetRecord, Is, Getters
  <2>2. \/ pc'[c] = "ok" /\ seen'[c] = <<op[c].id>>
        \/ pc'[c] = "reverted"
    BY <1>2, <1>8 DEF GetRecord, Goto, Return
  <2> QED
    BY <1>3, <1>5, <2>1, <2>2
<1>9. CASE Check(c)
  <2>1. Is(c, Getters \union Checks)
    BY <1>9 DEF Check, Is
  <2>2. /\ pc'[c] = "ok"
        /\ seen'[c] = IF Found(op[c].fn, op[c].id) THEN <<op[c].id>> ELSE <<>>
    BY <1>2, <1>9 DEF Check, Goto, Return
  <2> QED
    BY <1>3, <1>5, <1>6, <2>1, <2>2
<1> QED
  BY <1>4, <1>7, <1>8, <1>9 DEF Get

LEMMA ListReads ==
  ASSUME Chain, ReadTypes, [Next]_vars, NEW c \in Calls, ReadOf(c), ListIds(c)
  PROVE  ReadOf(c)'
<1> DEFINE fn == op[c].fn
<1>1. /\ UNCHANGED <<contract, op, before>> /\ ~Is(c, Writers) /\ op[c] # None
      /\ Owed(c)' = Owed(c) /\ before'[c] \subseteq Succeeded'
      /\ Owed(c) \subseteq Rng(Stock(fn))
      /\ Stock(fn) = Lists(About(fn)) /\ About(fn) \in Writers
  BY ReadMoves DEF Reads
<1>2. /\ todo'[c] = Stock(fn) /\ seen'[c] = <<>> /\ Is(c, Listings)
      /\ pc'[c] = IF todo'[c] = <<>> THEN "ok" ELSE "reading"
  BY DEF Chain, Contract, ClientTypes, ReadTypes, ListIds, Goto, ReadOf
<1>3. Once(About(fn), Stock(fn))
  BY <1>1, FoundIsListed DEF Chain
<1>4. Len(seen'[c]) = 0 /\ Rng(seen'[c]) = {}
  BY <1>2, RngEmpty, EmptySeq
<1>5. Stock(fn)' = Stock(fn)
  BY <1>1 DEF contract, Stock
<1>6. ListingOf(c)'
  BY <1>1, <1>2, <1>3, <1>4, <1>5 DEF ListingOf, Once
<1> QED
  BY <1>1, <1>2, <1>6, FunctionsApart DEF ReadOf, Is

(* What is left of a listing names no id twice, nor the one it begins with. *)
LEMMA OnceTail ==
  ASSUME NEW w, NEW s \in Seq(Ids), s # <<>>, Once(w, s)
  PROVE  Once(w, Tail(s)) /\ (~Repeated(w, Head(s)) => Head(s) \notin Rng(Tail(s)))
<1>1. /\ Len(s) \in Nat \ {0} /\ Len(Tail(s)) = Len(s) - 1
      /\ s[1] = Head(s) /\ \A n \in 1..Len(Tail(s)) : Tail(s)[n] = s[n + 1]
  BY RngTail
<1>2. \A n \in 1..Len(Tail(s)) : n + 1 \in 1..Len(s) /\ n + 1 # 1 /\ 1 \in 1..Len(s)
  BY <1>1
<1>3. ASSUME NEW m \in 1..Len(Tail(s)), NEW n \in 1..Len(Tail(s)),
             Tail(s)[m] = Tail(s)[n], ~Repeated(w, Tail(s)[m])
      PROVE  m = n
  <2>1. m + 1 = n + 1
    BY <1>1, <1>2, <1>3 DEF Once
  <2> QED
    BY <1>1, <2>1
<1>4. ASSUME ~Repeated(w, Head(s)), NEW n \in 1..Len(Tail(s)), Tail(s)[n] = Head(s)
      PROVE  FALSE
  BY <1>1, <1>2, <1>4 DEF Once
<1> QED
  BY <1>3, <1>4 DEF Once, Rng

(* An id a listing has not seen yet. *)
LEMMA AppendOnce ==
  ASSUME NEW s \in Seq(Ids), NEW i \in Ids, i \notin Rng(s),
         \A m, n \in 1..Len(s) : s[m] = s[n] => m = n
  PROVE  \A m, n \in 1..Len(Append(s, i)) : Append(s, i)[m] = Append(s, i)[n] => m = n
<1>1. /\ Len(s) \in Nat /\ Len(Append(s, i)) = Len(s) + 1 /\ Append(s, i)[Len(s) + 1] = i
      /\ \A n \in 1..Len(s) : Append(s, i)[n] = s[n]
  BY RngAppend
<1>2. \A n \in 1..(Len(s) + 1) : n \in 1..Len(s) \/ n = Len(s) + 1
  BY <1>1
<1>3. \A n \in 1..Len(s) : s[n] # i
  BY DEF Rng
<1> QED
  BY <1>1, <1>2, <1>3

LEMMA NextReads ==
  ASSUME Chain, ReadTypes, [Next]_vars, NEW c \in Calls, ReadOf(c), ReadNext(c)
  PROVE  ReadOf(c)'
<1> DEFINE fn == op[c].fn
           w == About(fn)
           i == Head(todo[c])
           rest == Tail(todo[c])
<1>1. /\ UNCHANGED <<contract, op, before>> /\ ~Is(c, Writers) /\ op[c] # None
      /\ Owed(c)' = Owed(c) /\ before'[c] \subseteq Succeeded'
      /\ Stock(fn) = Lists(w) /\ w \in Writers
  BY ReadMoves DEF Reads
<1>2. /\ Is(c, Listings) /\ ListingOf(c) /\ pc[c] = "reading"
      /\ todo[c] \in Seq(Ids) /\ seen[c] \in Seq(Ids)
  BY DEF ReadOf, ReadNext, ReadTypes
<1>3. /\ todo[c] # <<>> /\ i \in Ids /\ rest \in Seq(Ids)
      /\ Rng(todo[c]) = {i} \union Rng(rest)
  BY <1>2, RngTail DEF ListingOf
<1>4. Once(w, rest) /\ (~Repeated(w, i) => i \notin Rng(rest))
  BY <1>2, <1>3, OnceTail DEF ListingOf
<1>5. /\ todo'[c] = rest
      /\ \/ /\ Found(fn, i) /\ seen'[c] = Append(seen[c], i)
            /\ pc'[c] = IF rest = <<>> THEN "ok" ELSE "reading"
         \/ /\ ~Found(fn, i) /\ seen'[c] = seen[c]
            /\ pc'[c] = OnMissing(c, rest)
  BY DEF ReadNext, Return, Goto, ReadTypes, Chain, Contract, ClientTypes
<1>6. Found(fn, i) <=> ~Repeated(w, i)
  <2>1. Found(fn, i) <=> FoundBy(w, i)
    BY AboutKnown
  <2>2. i \in Rng(Lists(w))
    BY <1>1, <1>2, <1>3 DEF ListingOf
  <2> QED
    BY <1>1, <1>3, <2>1, <2>2, FoundIsListed DEF Chain
<1>7. Stock(fn)' = Stock(fn) /\ Rng(rest) \subseteq Rng(Stock(fn))
  BY <1>1, <1>2, <1>3 DEF contract, Stock, ListingOf
<1>8. Owed(c) \subseteq {i} \union Rng(rest) \union Rng(seen[c])
  BY <1>2, <1>3 DEF ListingOf
<1>9. CASE Found(fn, i)
  <2>1. seen'[c] = Append(seen[c], i) /\ pc'[c] = IF rest = <<>> THEN "ok" ELSE "reading"
    BY <1>5, <1>9
  <2>2. Rng(seen'[c]) = Rng(seen[c]) \union {i}
    BY <1>2, <1>3, <2>1, RngAppend
  <2>3. \A m, n \in 1..Len(seen'[c]) : seen'[c][m] = seen'[c][n] => m = n
    <3>1. i \notin Rng(seen[c])
      BY <1>2, <1>3 DEF ListingOf
    <3> QED
      BY <1>2, <1>3, <2>1, <3>1, AppendOnce DEF ListingOf
  <2>4. \A j \in Rng(seen'[c]) : j \notin Rng(rest) /\ ~Repeated(w, j)
    BY <1>2, <1>3, <1>4, <1>6, <1>9, <2>2 DEF ListingOf
  <2>5. ListingOf(c)'
    BY <1>1, <1>4, <1>5, <1>7, <1>8, <2>1, <2>2, <2>3, <2>4 DEF ListingOf
  <2> QED
    BY <1>1, <1>2, <2>1, <2>5, FunctionsApart DEF ReadOf, Is
<1>10. CASE ~Found(fn, i)
  <2>1. seen'[c] = seen[c] /\ pc'[c] = OnMissing(c, rest)
    BY <1>5, <1>10
  <2>2. i = Empty /\ w # "registerVehicle" /\ Empty \in Rng(Stock(fn))
    BY <1>2, <1>3, <1>6, <1>10 DEF Repeated, ListingOf
  <2>3. \A j \in Rng(seen'[c]) : j \notin Rng(rest) /\ ~Repeated(w, j)
    BY <1>2, <1>3, <2>1 DEF ListingOf
  <2>4. CASE Is(c, {"getAllV2XMessages"})
    <3>1. pc'[c] = IF rest = <<>> THEN "ok" ELSE "reading"
      BY <2>1, <2>4 DEF OnMissing
    <3>2. i \notin Owed(c)
      <4>1. i \notin Proper /\ ~Is(c, {"getAllSecurityAlerts"})
        BY <2>2, <2>4 DEF Proper, Is
      <4> QED
        BY <4>1, OwedIsListed DEF ReadOf
    <3>3. ListingOf(c)'
      BY <1>1, <1>2, <1>4, <1>5, <1>7, <1>8, <2>1, <2>3, <3>1, <3>2 DEF ListingOf
    <3> QED
      BY <1>1, <1>2, <3>1, <3>3, FunctionsApart DEF ReadOf, Is
  <2>5. CASE ~Is(c, {"getAllV2XMessages"})
    <3>1. pc'[c] = "reverted"
      BY <2>1, <2>5 DEF OnMissing
    <3>2. Is(c, {"getAllSecurityAlerts"}) /\ Stock(fn) = alertIds
      <4>1. fn # "getAllVehicles"
        BY <2>2, AboutReads
      <4>2. fn = "getAllSecurityAlerts"
        BY <1>2, <2>5, <4>1 DEF Is, Listings
      <4> QED
        BY <1>1, <4>2, AboutReads DEF Is, Lists
    <3>3. alertIds' = alertIds
      BY <1>1 DEF contract
    <3>4. ListingOf(c)'
      BY <1>1, <1>2, <1>4, <1>5, <1>7, <2>1, <2>2, <2>3, <3>1, <3>2, <3>3 DEF ListingOf, Is
    <3> QED
      BY <1>1, <1>2, <3>1, <3>4, FunctionsApart DEF ReadOf, Is
  <2> QED
    BY <2>4, <2>5
<1> QED
  BY <1>9, <1>10

LEMMA ReadsRightStep == Chain /\ ReadTypes /\ ReadsRight /\ [Next]_vars => ReadsRight'
<1> SUFFICES ASSUME Chain, ReadTypes, ReadsRight, [Next]_vars PROVE ReadsRight'
  OBVIOUS
<1>0. Contract /\ Told /\ \A c \in Calls : ReadOf(c)
  BY DEF Chain, ReadsRight
<1>1. ASSUME NEW c \in Calls, UNCHANGED <<op[c], pc[c], todo[c], seen[c], before[c]>>
      PROVE  ReadOf(c)'
  BY <1>0, <1>1, ReadStays
<1>2. ASSUME NEW k \in Clients, Inits(k) PROVE ReadsRight'
  BY <1>1, <1>2, InitsKeep DEF ReadsRight
<1>3. ASSUME NEW k \in Clients, NEW c \in Calls, NEW o \in Ops[c], Writes(c, k, o)
      PROVE  ReadsRight'
  <2>1. /\ UNCHANGED <<todo, seen, before>> /\ Is(c, Writers)'
        /\ pc'[c] \in {"sent", "replay", "reverted", "failed"}
        /\ \A d \in Calls \ {c} : UNCHANGED <<op[d], pc[d]>>
    BY <1>0, <1>3, WritesKeep DEF Is
  <2>2. before'[c] \subseteq Succeeded'
    BY <1>0, <2>1, SucceededGrows DEF ReadOf
  <2> QED
    BY <1>1, <2>1, <2>2, WriteReads DEF ReadsRight
<1>4. ASSUME NEW k \in Clients, NEW c \in Calls, NEW o \in Ops[c], Ask(c, k, o)
      PROVE  ReadsRight'
  BY <1>0, <1>1, <1>4, AskReads, AskKeeps DEF ReadsRight
<1>5. ASSUME NEW c \in Calls, Mine(c) PROVE ReadsRight'
  BY <1>0, <1>1, <1>5, MineKeeps DEF ReadsRight
<1>6. ASSUME NEW c \in Calls, Receive(c) \/ Fail(c) PROVE ReadsRight'
  <2>1. /\ UNCHANGED <<op, todo, seen, before>>
        /\ pc'[c] \in {"ok", "replay", "reverted", "failed"}
        /\ pc'[c] # "failed" => pc[c] = "sent"
        /\ \A d \in Calls \ {c} : pc'[d] = pc[d]
    BY <1>0, <1>6, EndsKeep
  <2>2. CASE pc'[c] = "failed"
    BY <1>0, <1>1, <2>1, <2>2, ReadStays DEF ReadsRight
  <2>3. CASE pc[c] = "sent"
    <3>1. Is(c, Writers)' /\ before'[c] \subseteq Succeeded'
      BY <1>0, <2>1, <2>3, SucceededGrows DEF ReadOf, Is
    <3> QED
      BY <1>1, <2>1, <3>1, WriteReads DEF ReadsRight
  <2> QED
    BY <2>1, <2>2, <2>3
<1>7. ASSUME NEW c \in Calls, Reads(c) PROVE ReadsRight'
  BY <1>0, <1>1, <1>7, ReadsKeep, GetReads, ListReads, NextReads DEF Reads, ReadsRight
<1>8. CASE UNCHANGED vars
  BY <1>1, <1>8 DEF vars, call, ReadsRight
<1> QED
  BY <1>2, <1>3, <1>4, <1>5, <1>6, <1>7, <1>8, Actions

-----------------------------------------------------------------------------
(* What the variables hold. *)

(* The clients, and the calls. *)
ClientSide ==
  /\ stage \in [Clients -> {"new", "telemetry", "accounts", "ready", "failed"}]
  /\ inits \in [Clients -> 0..MaxInits]
  /\ \A k \in Clients : stage[k] \in {"accounts", "ready"} => k \in bound
  /\ bound \union instruments \subseteq Clients

CallSide ==
  /\ pc \in [Calls -> {"idle", "sent", "asked", "reading"} \union Ended]
  /\ \A c \in Calls : op[c] \in Ops[c] \union {None}
  /\ \A c \in Calls : tx[c] = "none" => from[c] = None

LEMMA ReadTypesStep == Contract /\ ReadTypes /\ ReadsRight /\ [Next]_vars => ReadTypes'
<1> SUFFICES ASSUME Contract, ReadTypes, ReadsRight, [Next]_vars PROVE ReadTypes'
  OBVIOUS
<1>1. ASSUME NEW k \in Clients, Inits(k) PROVE ReadTypes'
  BY <1>1, InitsKeep DEF ReadTypes
<1>2. ASSUME NEW k \in Clients, NEW c \in Calls, NEW o \in Ops[c], Writes(c, k, o) \/ Ask(c, k, o)
      PROVE  ReadTypes'
  <2>1. CASE Writes(c, k, o)
    BY <2>1, WritesKeep, <1>2 DEF ReadTypes
  <2>2. CASE Ask(c, k, o)
    <3>1. Succeeded \subseteq Calls
      BY DEF Succeeded
    <3> QED
      BY <2>2, <3>1 DEF Ask, ReadTypes
  <2> QED
    BY <1>2, <2>1, <2>2
<1>3. ASSUME NEW c \in Calls, Mine(c) \/ Receive(c) \/ Fail(c) PROVE ReadTypes'
  BY <1>3, MineKeeps, EndsKeep DEF ReadTypes
<1>4. ASSUME NEW c \in Calls, Reads(c) PROVE ReadTypes'
  <2>1. op[c] # None /\ op[c].id \in Ids /\ Stock(op[c].fn) \in Seq(Ids)
    <3>1. op[c] # None
      BY <1>4 DEF Reads, Get, GetV2XMessage, GetRecord, Check, Count, ListIds, ReadNext,
         Contract, Sent
    <3>2. About(op[c].fn) \in Writers /\ Stock(op[c].fn) = Lists(About(op[c].fn))
      BY AboutKnown
    <3> QED
      BY <3>1, <3>2, OpKnown, ListsTyped DEF Contract
  <2>2. CASE Get(c)
    <3>1. UNCHANGED <<todo, before>>
      BY <2>2 DEF Get
    <3>2. UNCHANGED seen \/ \E ids \in Seq(Ids) : seen' = [seen EXCEPT ![c] = ids]
      <4>1. <<op[c].id>> \in Seq(Ids) /\ <<>> \in Seq(Ids)
        BY <2>1
      <4> QED
        BY <2>1, <2>2, <4>1 DEF Get, GetV2XMessage, GetRecord, Check, Count, Return
    <3> QED
      BY <3>1, <3>2 DEF ReadTypes
  <2>3. CASE ListIds(c)
    BY <2>1, <2>3 DEF ListIds, ReadTypes
  <2>4. CASE ReadNext(c)
    <3>1. todo[c] \in Seq(Ids) /\ seen[c] \in Seq(Ids) /\ todo[c] # <<>>
      BY <2>4 DEF ReadTypes, ReadsRight, ReadOf, ListingOf, ReadNext
    <3>2. /\ Tail(todo[c]) \in Seq(Ids) /\ Head(todo[c]) \in Ids
          /\ Append(seen[c], Head(todo[c])) \in Seq(Ids)
      BY <3>1, RngTail, RngAppend
    <3>3. todo' = [todo EXCEPT ![c] = Tail(todo[c])] /\ UNCHANGED before
      BY <2>4 DEF ReadNext
    <3>4. UNCHANGED seen \/ seen' = [seen EXCEPT ![c] = Append(seen[c], Head(todo[c]))]
      BY <2>4 DEF ReadNext, Return
    <3> QED
      BY <3>2, <3>3, <3>4 DEF ReadTypes
  <2> QED
    BY <1>4, <2>2, <2>3, <2>4 DEF Reads
<1>5. CASE UNCHANGED vars
  BY <1>5 DEF vars, call, ReadTypes
<1> QED
  BY <1>1, <1>2, <1>3, <1>4, <1>5, Actions

LEMMA ClientSideStep == Chain /\ ReadTypes /\ ClientSide /\ [Next]_vars => ClientSide'
<1> SUFFICES ASSUME Contract, Told, ReadTypes, ClientSide, [Next]_vars PROVE ClientSide'
  BY DEF Chain
<1>1. ASSUME NEW k \in Clients, Inits(k) PROVE ClientSide'
  <2>1. CASE Initialize(k)
    BY <2>1, ClientAssumption DEF Initialize, ClientSide, ClientAssumption
  <2>2. CASE LoadContract(k)
    BY <2>2 DEF LoadContract, InitializeTelemetry, Bind, ClientSide
  <2>3. CASE LoadAccount(k)
    BY <2>3 DEF LoadAccount, ClientSide
  <2> QED
    BY <1>1, <2>1, <2>2, <2>3 DEF Inits
<1>2. ASSUME NEW k \in Clients, NEW c \in Calls, NEW o \in Ops[c], Writes(c, k, o) \/ Ask(c, k, o)
      PROVE  ClientSide'
  BY <1>2, WritesKeep, AskKeeps DEF ClientSide
<1>3. ASSUME NEW c \in Calls, Mine(c) \/ Receive(c) \/ Fail(c) \/ Reads(c) PROVE ClientSide'
  BY <1>3, MineKeeps, EndsKeep, ReadsKeep DEF ClientSide
<1>4. CASE UNCHANGED vars
  BY <1>4 DEF vars, client, ClientSide
<1> QED
  BY <1>1, <1>2, <1>3, <1>4, Actions

LEMMA CallSideStep == Chain /\ ReadTypes /\ CallSide /\ [Next]_vars => CallSide'
<1> SUFFICES ASSUME Contract, Told, ReadTypes, CallSide, [Next]_vars PROVE CallSide'
  BY DEF Chain
<1> DEFINE Steps == {"idle", "sent", "asked", "reading"} \union Ended
<1>0. DOMAIN pc' = Calls /\ DOMAIN pc = Calls
  BY ClientTypesStep DEF Contract, ClientTypes
<1>1. ASSUME NEW k \in Clients, Inits(k) PROVE CallSide'
  BY <1>1, InitsKeep DEF CallSide
<1>2. ASSUME NEW k \in Clients, NEW c \in Calls, NEW o \in Ops[c], Writes(c, k, o)
      PROVE  CallSide'
  <2>1. /\ op'[c] = o /\ pc'[c] \in Steps
        /\ \A d \in Calls \ {c} : UNCHANGED <<op[d], pc[d], from[d], tx[d]>>
    BY <1>2, WritesKeep DEF Ended
  <2>0. PICK ok \in BOOLEAN : Send(c, k, o, ok)
    BY <1>2 DEF Writes
  <2>2. tx'[c] = "none" => from'[c] = None
    <3>1. UNCHANGED <<from, tx>> \/ tx' = [tx EXCEPT ![c] = "pending"]
      BY <2>0 DEF Send
    <3> QED
      BY <3>1 DEF CallSide, Contract, ClientTypes
  <2>3. \E l \in Steps : pc' = [pc EXCEPT ![c] = l]
    <3>1. \E l \in Ended \union {"sent"} : Begin(c, o, l)
      BY <2>0 DEF Send, Ended
    <3> QED
      BY <3>1 DEF Begin, Goto
  <2> QED
    BY <2>1, <2>2, <2>3 DEF CallSide
<1>3. ASSUME NEW k \in Clients, NEW c \in Calls, NEW o \in Ops[c], Ask(c, k, o)
      PROVE  CallSide'
  <2>1. \E l \in Steps : pc' = [pc EXCEPT ![c] = l]
    BY <1>3 DEF Ask, Begin, Goto, Ended
  <2> QED
    BY <1>3, <2>1, AskKeeps DEF CallSide
<1>4. ASSUME NEW c \in Calls, Mine(c) PROVE CallSide'
  BY <1>4, MineKeeps DEF CallSide, Reasons
<1>5. ASSUME NEW c \in Calls, Receive(c) \/ Fail(c) PROVE CallSide'
  <2>1. \E l \in Steps : pc' = [pc EXCEPT ![c] = l]
    BY <1>5 DEF Receive, Fail, Goto, Ended
  <2> QED
    BY <1>5, <2>1, EndsKeep DEF CallSide
<1>6. ASSUME NEW c \in Calls, Reads(c) PROVE CallSide'
  <2>1. \E l \in Steps : pc' = [pc EXCEPT ![c] = l]
    BY <1>6 DEF Reads, Get, GetV2XMessage, GetRecord, Check, Count, ListIds, ReadNext, OnMissing,
       Goto, Ended
  <2> QED
    BY <1>6, <2>1, ReadsKeep DEF CallSide
<1>7. CASE UNCHANGED vars
  BY <1>7 DEF vars, call, CallSide
<1> QED
  BY <1>1, <1>2, <1>3, <1>4, <1>5, <1>6, <1>7, Actions

-----------------------------------------------------------------------------
(* What is counted. *)

(* The instruments of a client that is bound after one initialization stay. *)
LEMMA SetupStep ==
  Chain /\ ReadTypes /\ ClientSide /\ Setup /\ [Next]_vars => Setup'
<1> SUFFICES ASSUME Contract, Told, ReadTypes, ClientSide, Setup, [Next]_vars PROVE Setup'
  BY DEF Chain
<1>0. ClientOf \in [Calls -> Clients] /\ MaxInits \in Nat
  BY ClientAssumption DEF ClientAssumption
<1>1. ASSUME NEW k \in Clients, Inits(k) PROVE Setup'
  <2>1. CASE Initialize(k)
    BY <1>0, <2>1 DEF Initialize, call, Setup, ClientSide
  <2>2. CASE LoadContract(k)
    <3>1. bound \subseteq bound'
      BY <2>2 DEF LoadContract, Bind
    <3>2. k \in bound' => k \in instruments' \/ k \in bound
      BY <2>2 DEF LoadContract, Bind, InitializeTelemetry
    <3>3. /\ inits' = inits /\ inits[k] \in Nat /\ inits[k] # 0 /\ UNCHANGED pc
          /\ stage[k] = "telemetry" /\ stage'[k] # "telemetry"
          /\ \A j \in Clients \ {k} : /\ stage'[j] = stage[j]
                                      /\ j \in bound' <=> j \in bound
                                      /\ j \in instruments' <=> j \in instruments
      BY <1>0, <2>2 DEF LoadContract, Bind, InitializeTelemetry, call, Setup, ClientSide
    <3> QED
      BY <3>1, <3>2, <3>3, <1>0 DEF Setup
  <2>3. CASE LoadAccount(k)
    BY <1>0, <2>3 DEF LoadAccount, call, Setup, ClientSide
  <2> QED
    BY <1>1, <2>1, <2>2, <2>3 DEF Inits
<1>2. ASSUME NEW k \in Clients, NEW c \in Calls, NEW o \in Ops[c], Writes(c, k, o) \/ Ask(c, k, o)
      PROVE  Setup'
  BY <1>2, WritesKeep, AskKeeps DEF Setup
<1>3. ASSUME NEW c \in Calls, Mine(c) PROVE Setup'
  BY <1>3, MineKeeps DEF Setup
<1>4. ASSUME NEW c \in Calls, Receive(c) \/ Fail(c) \/ Reads(c) PROVE Setup'
  BY <1>4, EndsKeep, ReadsKeep DEF Setup
<1>5. CASE UNCHANGED vars
  BY <1>5 DEF vars, client, call, Setup
<1> QED
  BY <1>1, <1>2, <1>3, <1>4, <1>5, Actions

LEMMA RegisteredAreMined ==
  ASSUME Told
  PROVE  Registered \subseteq MinedRegs
BY DEF Told, ToldOf, Registered, Succeeded, MinedRegs, Writers, Is

(* What is counted stays while no registration is mined or answered. *)
LEMMA CountedStays ==
  ASSUME Counted, Registered' = Registered, MinedRegs' = MinedRegs,
         UNCHANGED <<vehicleIds, registrations>>,
         (\A k \in Clients : inits'[k] <= 1) => \A k \in Clients : inits[k] <= 1
  PROVE  Counted'
BY DEF Counted

(* A registration is mined. *)
LEMMA MineCounts ==
  ASSUME Contract, Told, Counted, NEW c \in Calls, Mine(c)
  PROVE  Counted'
<1>1. /\ UNCHANGED <<op, pc, registrations, inits>> /\ tx[c] = "pending"
      /\ \A d \in Calls \ {c} : tx'[d] = tx[d]
      /\ op[c] # None /\ op[c].id \in Ids /\ from[c] \in Accounts
      /\ \/ Step(c) /\ tx'[c] = "mined"
         \/ UNCHANGED contract /\ tx'[c] \in Reasons
  BY MineKeeps
<1>2. Registered' = Registered
  BY <1>1 DEF Registered, Succeeded, Is
<1>3. CASE ~(Step(c) /\ tx'[c] = "mined")
  <2>1. MinedRegs' = MinedRegs /\ vehicleIds' = vehicleIds
    BY <1>1, <1>3 DEF MinedRegs, Is, Reasons, contract
  <2> QED
    BY <1>1, <1>2, <2>1, CountedStays
<1>4. CASE Step(c) /\ tx'[c] = "mined" /\ op[c].fn # "registerVehicle"
  <2>1. MinedRegs' = MinedRegs
    BY <1>1, <1>4 DEF MinedRegs, Is
  <2>2. vehicleIds' = vehicleIds
    BY <1>4 DEF Step, SubmitV2XMessage, SubmitSecurityAlert
  <2> QED
    BY <1>1, <1>2, <2>1, <2>2, CountedStays
<1>5. CASE Step(c) /\ tx'[c] = "mined" /\ op[c].fn = "registerVehicle"
  <2>1. MinedRegs' = MinedRegs \union {c} /\ c \notin MinedRegs
    BY <1>1, <1>5 DEF MinedRegs, Is
  <2>2. vehicleIds' = Append(vehicleIds, op[c].id)
    BY <1>5 DEF Step, RegisterVehicle
  <2>3. Len(vehicleIds') = Len(vehicleIds) + 1
    BY <1>1, <2>2, RngAppend DEF Contract, ContractTypes
  <2>4. IsFiniteSet(MinedRegs') /\ Cardinality(MinedRegs') = Len(vehicleIds')
    <3>1. IsFiniteSet(MinedRegs) /\ Cardinality(MinedRegs) = Len(vehicleIds)
      BY DEF Counted
    <3>2. /\ IsFiniteSet(MinedRegs \union {c})
          /\ Cardinality(MinedRegs \union {c}) = Cardinality(MinedRegs) + 1
      BY <2>1, <3>1, FS_AddElement
    <3> QED
      BY <2>1, <2>3, <3>1, <3>2
  <2> QED
    BY <1>1, <1>2, <2>4 DEF Counted
<1> QED
  BY <1>3, <1>4, <1>5

(* A registration is answered. *)
LEMMA EndCounts ==
  ASSUME Contract, Told, ClientSide, Setup, Counted, NEW c \in Calls, Receive(c) \/ Fail(c)
  PROVE  Counted'
<1>1. /\ UNCHANGED <<contract, op, tx, inits, instruments>>
      /\ pc[c] \in {"sent", "asked", "reading"} /\ \A d \in Calls \ {c} : pc'[d] = pc[d]
      /\ pc'[c] = "ok" => pc[c] = "sent" /\ RecordVehicleRegistration(c)
      /\ pc'[c] # "ok" => UNCHANGED registrations
  BY EndsKeep
<1>2. MinedRegs' = MinedRegs /\ vehicleIds' = vehicleIds
  BY <1>1 DEF MinedRegs, Is, contract
<1>3. CASE ~(pc'[c] = "ok" /\ Is(c, {"registerVehicle"}))
  <2>1. Registered' = Registered
    BY <1>1, <1>3 DEF Registered, Succeeded, Is, Writers
  <2>2. UNCHANGED registrations
    BY <1>1, <1>3 DEF RecordVehicleRegistration
  <2> QED
    BY <1>1, <1>2, <2>1, <2>2, CountedStays
<1>4. CASE pc'[c] = "ok" /\ Is(c, {"registerVehicle"})
  <2>1. Registered' = Registered \union {c} /\ c \notin Registered
    BY <1>1, <1>4 DEF Registered, Succeeded, Is, Writers
  <2>2. IsFiniteSet(Registered)
    BY RegisteredAreMined, FS_Subset DEF Counted
  <2>3. Cardinality(Registered') = Cardinality(Registered) + 1 /\ Cardinality(Registered) \in Nat
    BY <2>1, <2>2, FS_AddElement, FS_CardinalityType
  <2>4. registrations' = IF ClientOf[c] \in instruments THEN registrations + 1 ELSE registrations
    BY <1>1, <1>4 DEF RecordVehicleRegistration
  <2>5. (\A k \in Clients : inits[k] <= 1) => ClientOf[c] \in instruments
    <3>1. ClientOf[c] \in Clients /\ ClientOf[c] \in bound /\ inits[ClientOf[c]] \in Nat
      BY <1>1, <1>4, ClientAssumption DEF ClientAssumption, Setup, ClientSide
    <3>2. inits[ClientOf[c]] # 0
      BY <3>1 DEF Setup
    <3> QED
      BY <3>1, <3>2 DEF Setup
  <2> QED
    BY <1>1, <1>2, <2>3, <2>4, <2>5 DEF Counted
<1> QED
  BY <1>3, <1>4

LEMMA CountedStep ==
  Chain /\ ReadTypes /\ ClientSide /\ Setup /\ Counted /\ [Next]_vars => Counted'
<1> SUFFICES ASSUME Contract, Told, ReadTypes, ClientSide, Setup, Counted, [Next]_vars
             PROVE  Counted'
  BY DEF Chain
<1>1. ASSUME NEW k \in Clients, Inits(k) PROVE Counted'
  <2>1. \A j \in Clients : inits[j] \in Nat /\ (inits'[j] = inits[j] \/ inits'[j] = inits[j] + 1)
    BY <1>1, ClientAssumption
    DEF Inits, Initialize, LoadContract, LoadAccount, ClientSide, ClientAssumption
  <2>2. UNCHANGED <<op, pc, tx, vehicleIds, registrations>>
    BY <1>1, InitsKeep DEF contract
  <2>3. Registered' = Registered /\ MinedRegs' = MinedRegs
    BY <2>2 DEF Registered, Succeeded, MinedRegs, Is
  <2> QED
    BY <2>1, <2>2, <2>3, CountedStays
<1>2. ASSUME NEW k \in Clients, NEW c \in Calls, NEW o \in Ops[c], Writes(c, k, o) \/ Ask(c, k, o)
      PROVE  Counted'
  <2>1. /\ UNCHANGED <<contract, inits, registrations>>
        /\ pc[c] = "idle" /\ pc'[c] # "ok" /\ tx[c] = "none" /\ tx'[c] # "mined"
        /\ \A d \in Calls \ {c} : UNCHANGED <<op[d], pc[d], tx[d]>>
    BY <1>2, WritesKeep, AskKeeps DEF Contract, Sent
  <2>2. Registered' = Registered
    BY <2>1 DEF Registered, Succeeded, Is
  <2>3. MinedRegs' = MinedRegs
    BY <2>1 DEF MinedRegs, Is
  <2> QED
    BY <2>1, <2>2, <2>3, CountedStays DEF contract
<1>3. ASSUME NEW c \in Calls, Mine(c) \/ Receive(c) \/ Fail(c) PROVE Counted'
  BY <1>3, MineCounts, EndCounts
<1>4. ASSUME NEW c \in Calls, Reads(c) PROVE Counted'
  <2>1. /\ UNCHANGED <<contract, op, tx, inits, registrations>> /\ ~Is(c, Writers)
        /\ \A d \in Calls \ {c} : pc'[d] = pc[d]
    BY <1>4, ReadsKeep
  <2>2. Registered' = Registered /\ MinedRegs' = MinedRegs
    BY <2>1 DEF Registered, Succeeded, MinedRegs, Is, Writers
  <2> QED
    BY <2>1, <2>2, CountedStays DEF contract
<1>5. CASE UNCHANGED vars
  <2>1. Registered' = Registered /\ MinedRegs' = MinedRegs
    BY <1>5 DEF vars, call, Registered, Succeeded, MinedRegs, Is
  <2> QED
    BY <1>5, <2>1, CountedStays DEF vars, contract, client
<1> QED
  BY <1>1, <1>2, <1>3, <1>4, <1>5, Actions

-----------------------------------------------------------------------------
(* The theorems. *)

Inv == Listed /\ ReadTypes /\ ReadsRight /\ ClientSide /\ CallSide /\ Setup /\ Counted

LEMMA InvInit == Init => Inv
<1> SUFFICES ASSUME Init PROVE Inv
  OBVIOUS
<1> USE DEF Init
<1>1. Listed /\ ReadTypes /\ CallSide
  BY DEF Listed, ReadTypes, CallSide
<1>2. ASSUME NEW c \in Calls PROVE ReadOf(c)
  BY <1>2 DEF ReadOf, Is
<1>3. ClientSide /\ Setup
  BY ClientAssumption DEF ClientSide, Setup, ClientAssumption
<1>4. MinedRegs = {} /\ Registered = {} /\ vehicleIds = <<>> /\ registrations = 0
  BY DEF MinedRegs, Registered, Succeeded, RegistryInit
<1>5. Counted
  BY <1>4, FS_EmptySet, EmptySeq DEF Counted
<1> QED
  BY <1>1, <1>2, <1>3, <1>5 DEF Inv, ReadsRight

LEMMA InvStep == Contract /\ Told /\ ListsMatchMappings /\ Inv /\ [Next]_vars => Inv'
<1> SUFFICES ASSUME Contract, Told, ListsMatchMappings, Inv, [Next]_vars PROVE Inv'
  OBVIOUS
<1>1. /\ Chain /\ Listed /\ ReadTypes /\ ReadsRight /\ ClientSide /\ CallSide
      /\ Setup /\ Counted
  BY DEF Inv, Chain
<1> QED
  BY <1>1, ListedStep, ReadTypesStep, ReadsRightStep, ClientSideStep, CallSideStep, SetupStep,
     CountedStep DEF Inv

LEMMA InvInvariant == Spec => [](Contract /\ Told /\ ListsMatchMappings /\ Inv)
BY InvInit, InvStep, ContractInvariant, ToldInvariant, ListsAlwaysMatch, PTL DEF Spec

(* Every variable holds what it is meant to: no transaction is sent        *)
(* without an account, and a client that has come to its account has a     *)
(* contract object.                                                        *)
THEOREM TypeCorrect == Spec => []TypeOK
<1>1. Contract /\ Inv => TypeOK
  <2> SUFFICES ASSUME Contract, Inv PROVE TypeOK
    OBVIOUS
  <2>1. \A c \in Calls : tx[c] # "none" <=> from[c] \in Accounts
    BY RegistryAssumption DEF RegistryAssumption, Contract, Sent, Inv, CallSide
  <2>2. account \in [Clients -> Accounts \union {None}]
    BY DEF Contract, ClientTypes
  <2>3. ReadTypes /\ ClientSide /\ CallSide /\ registrations \in Nat
    BY DEF Inv, Counted
  <2> QED
    BY <2>1, <2>2, <2>3 DEF TypeOK, ReadTypes, ClientSide, CallSide
<1> QED
  BY <1>1, InvInvariant, PTL

(* What a client reads of the contract has in it every write that had      *)
(* succeeded when it asked, whichever transactions are mined and whichever *)
(* calls end while a listing reads its ids one by one; and a listing names *)
(* no id twice.                                                            *)
THEOREM ReadsAlwaysSeeWrites == Spec => []ReadsSeeWrites
<1>1. Inv => ReadsSeeWrites
  <2> SUFFICES ASSUME Inv, NEW c \in Calls, Is(c, Functions \ Writers)
               PROVE  /\ \A d \in before[c] :
                           Is(d, {About(op[c].fn)}) /\ op[d].id \in Proper =>
                             /\ /\ pc[c] = "ok"
                                /\ Is(c, Listings \union Counts) \/ op[c].id = op[d].id
                                => op[d].id \in Rng(seen[c])
                             /\ op[c].id = op[d].id => pc[c] # "notFound"
                      /\ Is(c, Listings) =>
                           \A m, n \in 1..Len(seen[c]) : seen[c][m] = seen[c][n] => m = n
    BY DEF ReadsSeeWrites, Rng
  <2>1. ReadOf(c) /\ (Is(c, Listings) => ListingOf(c))
    BY DEF Inv, ReadsRight, ReadOf
  <2>2. ASSUME NEW d \in before[c], Is(d, {About(op[c].fn)}), op[d].id \in Proper
        PROVE  op[d].id \in Owed(c)
    BY <2>2 DEF Owed, Owing
  <2>3. Is(c, Listings) /\ pc[c] = "ok" => Owed(c) \subseteq Rng(seen[c])
    BY <2>1, RngEmpty DEF ListingOf
  <2>4. Is(c, Counts) /\ pc[c] = "ok" => Owed(c) \subseteq Rng(seen[c])
    BY <2>1 DEF ReadOf
  <2>5. Is(c, Getters \union Checks) \/ Is(c, Counts) \/ Is(c, Listings)
    BY DEF Is, Functions
  <2>6. /\ Is(c, Getters \union Checks) /\ pc[c] = "ok" /\ op[c].id \in Owed(c) =>
             op[c].id \in Rng(seen[c])
        /\ pc[c] = "notFound" => op[c].id \notin Owed(c)
    BY <2>1 DEF ReadOf
  <2>7. Is(c, Listings \union Counts) => Is(c, Counts) \/ Is(c, Listings)
    BY DEF Is
  <2>8. Is(c, Listings) => \A m, n \in 1..Len(seen[c]) : seen[c][m] = seen[c][n] => m = n
    BY <2>1 DEF ListingOf
  <2> QED
    BY <2>2, <2>3, <2>4, <2>5, <2>6, <2>7, <2>8
<1> QED
  BY <1>1, InvInvariant, PTL

(* Nothing that is stored makes a listing fail but an alert under the      *)
(* empty id, and that a listing of alerts; none of those ends well that is *)
(* asked for after the alert was answered with success.                    *)
THEOREM EmptyAlertAlwaysPoisons == Spec => []EmptyAlertPoisons
<1>1. Inv => EmptyAlertPoisons
  <2> SUFFICES ASSUME Inv, NEW c \in Calls, Is(c, Listings)
               PROVE  /\ pc[c] = "reverted" =>
                           Is(c, {"getAllSecurityAlerts"}) /\ Indices(alertIds, Empty) # {}
                      /\ Is(c, {"getAllSecurityAlerts"}) /\ pc[c] = "ok" =>
                           \A d \in before[c] :
                             ~(Is(d, {"submitSecurityAlert"}) /\ op[d].id = Empty)
    BY DEF EmptyAlertPoisons
  <2>1. ListingOf(c)
    BY DEF Inv, ReadsRight, ReadOf
  <2>2. Empty \in Rng(alertIds) => Indices(alertIds, Empty) # {}
    BY DEF Rng, Indices
  <2>3. ASSUME Is(c, {"getAllSecurityAlerts"}), pc[c] = "ok", NEW d \in before[c],
               Is(d, {"submitSecurityAlert"}), op[d].id = Empty
        PROVE  FALSE
    <3>1. About(op[c].fn) = "submitSecurityAlert"
      BY <2>3, AboutReads DEF Is
    <3>2. Empty \in Owed(c)
      BY <2>3, <3>1 DEF Owed, Owing
    <3>3. Empty \in Rng(seen[c])
      BY <2>1, <2>3, <3>2, RngEmpty DEF ListingOf
    <3> QED
      BY <2>1, <3>1, <3>3 DEF ListingOf, Repeated
  <2> QED
    BY <2>1, <2>2, <2>3 DEF ListingOf
<1> QED
  BY <1>1, InvInvariant, PTL

(* The number of registrations the telemetry exports is never above the    *)
(* number of vehicles on the chain, and it is the number of calls answered *)
(* with success as long as no client was initialized twice.                *)
THEOREM RegistrationsAlwaysCounted == Spec => []RegistrationsCounted
<1>1. Contract /\ Told /\ Inv => RegistrationsCounted
  <2> SUFFICES ASSUME Contract, Told, Inv PROVE RegistrationsCounted
    OBVIOUS
  <2>1. Counted
    BY DEF Inv
  <2>2. IsFiniteSet(MinedRegs) /\ Cardinality(MinedRegs) = Len(vehicleIds)
    BY <2>1 DEF Counted
  <2>3. /\ IsFiniteSet(Registered) /\ Cardinality(Registered) \in Nat
        /\ Cardinality(Registered) <= Cardinality(MinedRegs) /\ Cardinality(MinedRegs) \in Nat
    BY <2>2, RegisteredAreMined, FS_Subset, FS_CardinalityType
  <2> QED
    BY <2>1, <2>2, <2>3 DEF Counted, RegistrationsCounted
<1> QED
  BY <1>1, InvInvariant, PTL

=============================================================================
