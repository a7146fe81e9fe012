--------------------------- MODULE EthereumProofs ---------------------------
(***************************************************************************)
(* Proofs about the ITS contract under its clients, for any ids, accounts, *)
(* clients and calls, any order of mining, and any number of               *)
(* initializations.                                                        *)
(***************************************************************************)
EXTENDS EthereumClient, FiniteSetTheorems, SequenceTheorems, TLAPS

-----------------------------------------------------------------------------
(* The invariant. *)

AllOps == UNION {Ops[c] : c \in Calls}

(* What the variables that decide about transactions hold. *)
ClientTypes == /\ account \in [Clients -> Accounts \union {None}]
               /\ op \in [Calls -> AllOps \union {None}]
               /\ DOMAIN pc = Calls
               /\ from \in [Calls -> Accounts \union {None}]
               /\ DOMAIN tx = Calls

(* A transaction has a sender and is that of a write. *)
Sent == \A c \in Calls :
          /\ pc[c] = "idle" => tx[c] = "none"
          /\ pc[c] # "idle" => op[c] # None
          /\ tx[c] # "none" => from[c] \in Accounts /\ Is(c, Writers)

Posts == [id : Ids, vehicle : Ids, content : Contents \union {None}]

(* What the contract stores, and that a post is filed under its id. *)
ContractTypes == /\ vehicles \in [Ids -> Accounts \union {None}]
                 /\ addressToVehicleId \in [Accounts -> Ids]
                 /\ v2xMessages \in [Ids -> Posts] /\ securityAlerts \in [Ids -> Posts]
                 /\ \A i \in Ids : v2xMessages[i].id \in {i, Empty}
                 /\ \A i \in Ids : securityAlerts[i].id \in {i, Empty}
                 /\ vehicleIds \in Seq(Ids) /\ messageIds \in Seq(Ids) /\ alertIds \in Seq(Ids)

-----------------------------------------------------------------------------
(* The clients' side. *)

LEMMA OpsKnown ==
  ASSUME NEW c \in Calls, NEW o \in Ops[c]
  PROVE  o \in AllOps /\ o # None /\ o.id \in Ids /\ o.fn \in Functions
<1>1. o \in AllOps /\ Ops[c] \subseteq Op(Functions)
  BY ClientAssumption DEF ClientAssumption, AllOps
<1> QED
  BY <1>1, ClientAssumption DEF ClientAssumption, AllOps, Op

LEMMA OpKnown ==
  ASSUME ClientTypes, NEW c \in Calls, op[c] # None
  PROVE  op[c].id \in Ids /\ op[c].fn \in Functions
<1>1. op[c] \in AllOps
  BY DEF ClientTypes
<1>2. PICK d \in Calls : op[c] \in Ops[d]
  BY <1>1 DEF AllOps
<1> QED
  BY <1>2, OpsKnown

LEMMA ClientTypesStep == ClientTypes /\ Sent /\ [Next]_vars => ClientTypes'
<1> SUFFICES ASSUME ClientTypes, Sent, [Next]_vars PROVE ClientTypes'
  OBVIOUS
<1> USE DEF ClientTypes, Goto, call, client
<1>1. ASSUME NEW k \in Clients, Initialize(k) \/ LoadContract(k) \/ LoadAccount(k)
      PROVE  ClientTypes'
  <2>1. account' \in [Clients -> Accounts \union {None}]
    BY <1>1, ClientAssumption DEF Initialize, LoadContract, LoadAccount, ClientAssumption
  <2> QED
    BY <1>1, <2>1 DEF Initialize, LoadContract, LoadAccount
<1>2. ASSUME NEW k \in Clients, NEW c \in Calls, NEW o \in Ops[c],
             Send(c, k, o, TRUE) \/ Send(c, k, o, Validate(o)) \/ Ask(c, k, o)
      PROVE  ClientTypes'
  <2>1. o \in AllOps
    BY OpsKnown
  <2>2. account' = account /\ DOMAIN tx' = Calls /\ DOMAIN pc' = Calls
        /\ op' = [op EXCEPT ![c] = o]
    BY <1>2 DEF Send, Ask, Begin
  <2>3. from' \in [Calls -> Accounts \union {None}]
    BY <1>2 DEF Send, Ask
  <2> QED
    BY <2>1, <2>2, <2>3
<1>3. ASSUME NEW c \in Calls, Mine(c) PROVE ClientTypes'
  BY <1>3 DEF Mine
<1>4. ASSUME NEW c \in Calls, Receive(c) \/ Fail(c) PROVE ClientTypes'
  BY <1>4 DEF Receive, Fail
<1>5. ASSUME NEW c \in Calls, Get(c) PROVE ClientTypes'
  BY <1>5 DEF Get, GetV2XMessage, GetRecord, Check, Count
<1>6. ASSUME NEW c \in Calls, ListIds(c) \/ ReadNext(c) PROVE ClientTypes'
  BY <1>6 DEF ListIds, ReadNext
<1>7. CASE Done \/ UNCHANGED vars
  BY <1>7 DEF Done, vars
<1> QED
  BY <1>1, <1>2, <1>3, <1>4, <1>5, <1>6, <1>7
  DEF Next, SendRegisterVehicle, SendSubmitV2XMessage, SendSubmitSecurityAlert

LEMMA SentStep == ClientTypes /\ Sent /\ [Next]_vars => Sent'
<1> SUFFICES ASSUME ClientTypes, Sent, [Next]_vars PROVE Sent'
  OBVIOUS
<1> USE DEF ClientTypes, Sent, Goto, Is, call, client
<1>1. ASSUME NEW k \in Clients, Initialize(k) \/ LoadContract(k) \/ LoadAccount(k)
      PROVE  Sent'
  BY <1>1 DEF Initialize, LoadContract, LoadAccount
<1>2. ASSUME NEW k \in Clients, NEW c \in Calls, NEW o \in Ops[c], NEW ok,
             o.fn \in Writers, Send(c, k, o, ok)
      PROVE  Sent'
  <2>1. o # None
    BY OpsKnown
  <2>2. /\ pc[c] = "idle" /\ tx[c] = "none"
        /\ pc' = [pc EXCEPT ![c] = pc'[c]] /\ pc'[c] # "idle"
        /\ op' = [op EXCEPT ![c] = o]
    BY <1>2 DEF Send, Begin, Ended
  <2>3. \A d \in Calls \ {c} : from'[d] = from[d] /\ tx'[d] = tx[d]
    BY <1>2 DEF Send
  <2>4. tx'[c] # "none" => from'[c] \in Accounts
    BY <1>2, <2>2 DEF Send
  <2> QED
    BY <1>2, <2>1, <2>2, <2>3, <2>4
<1>3. ASSUME NEW k \in Clients, NEW c \in Calls, NEW o \in Ops[c], Ask(c, k, o)
      PROVE  Sent'
  <2>1. o # None
    BY OpsKnown
  <2> QED
    BY <1>3, <2>1 DEF Ask, Begin
<1>4. ASSUME NEW c \in Calls, Mine(c) PROVE Sent'
  BY <1>4 DEF Mine
<1>5. ASSUME NEW c \in Calls, Receive(c) \/ Fail(c) PROVE Sent'
  BY <1>5 DEF Receive, Fail, Ended
<1>6. ASSUME NEW c \in Calls, Get(c) PROVE Sent'
  BY <1>6 DEF Get, GetV2XMessage, GetRecord, Check, Count
<1>7. ASSUME NEW c \in Calls, ListIds(c) \/ ReadNext(c) PROVE Sent'
  <2>1. pc[c] # "idle" /\ pc'[c] # "idle"
    BY <1>7 DEF ListIds, ReadNext, OnMissing
  <2> QED
    BY <1>7, <2>1 DEF ListIds, ReadNext
<1>8. CASE Done \/ UNCHANGED vars
  BY <1>8 DEF Done, vars
<1>9. ASSUME NEW k \in Clients, NEW c \in Calls, NEW o \in Ops[c],
             \/ SendRegisterVehicle(c, k, o) \/ SendSubmitV2XMessage(c, k, o)
             \/ SendSubmitSecurityAlert(c, k, o)
      PROVE  Sent'
  <2>1. o.fn \in Writers /\ (Send(c, k, o, TRUE) \/ Send(c, k, o, Validate(o)))
    BY <1>9 DEF SendRegisterVehicle, SendSubmitV2XMessage, SendSubmitSecurityAlert, Writers
  <2> QED
    BY <1>2, <2>1
<1> QED
  BY <1>1, <1>3, <1>4, <1>5, <1>6, <1>7, <1>8, <1>9 DEF Next

(* A transaction of call c takes effect on the contract. *)
Step(c) == \/ /\ op[c].fn = "registerVehicle"
              /\ RegisterVehicle(from[c], op[c].id)
           \/ /\ op[c].fn = "submitV2XMessage"
              /\ SubmitV2XMessage(from[c], op[c].id, c, op[c].priority)
           \/ /\ op[c].fn = "submitSecurityAlert"
              /\ SubmitSecurityAlert(from[c], op[c].id, c)

(* Nothing but a pending transaction that is mined changes the contract.   *)
LEMMA ContractSteps ==
  ASSUME ClientTypes, Sent, [Next]_vars
  PROVE  \/ UNCHANGED contract
         \/ \E c \in Calls : /\ Mine(c) /\ Step(c)
                             /\ from[c] \in Accounts /\ op[c].id \in Ids
<1>1. ASSUME NEW k \in Clients, Initialize(k) \/ LoadContract(k) \/ LoadAccount(k)
      PROVE  UNCHANGED contract
  BY <1>1 DEF Initialize, LoadContract, LoadAccount
<1>2. ASSUME NEW k \in Clients, NEW c \in Calls, NEW o \in Ops[c], NEW ok,
             Send(c, k, o, ok) \/ Ask(c, k, o)
      PROVE  UNCHANGED contract
  BY <1>2 DEF Send, Ask
<1>3. ASSUME NEW c \in Calls, Mine(c), ~UNCHANGED contract
      PROVE  Step(c) /\ from[c] \in Accounts /\ op[c].id \in Ids
  <2>1. Apply(c) /\ tx[c] # "none"
    BY <1>3 DEF Mine
  <2>2. from[c] \in Accounts /\ op[c] # None
    BY <2>1 DEF Sent, Is
  <2> QED
    BY <2>1, <2>2, OpKnown DEF Step, Apply, Is
<1>4. ASSUME NEW c \in Calls, Receive(c) \/ Fail(c) \/ Get(c) \/ ListIds(c) \/ ReadNext(c)
      PROVE  UNCHANGED contract
  BY <1>4 DEF Receive, Fail, Get, ListIds, ReadNext
<1>5. CASE Done \/ UNCHANGED vars
  BY <1>5 DEF Done, vars
<1> QED
  BY <1>1, <1>2, <1>3, <1>4, <1>5
  DEF Next, SendRegisterVehicle, SendSubmitV2XMessage, SendSubmitSecurityAlert

-----------------------------------------------------------------------------
(* The contract's side. *)

Contract == ClientTypes /\ Sent /\ ContractTypes /\ AddressesMatchVehicles

LEMMA CallsAreContents == \A c \in Calls : c \in Contents
BY ClientAssumption DEF ClientAssumption

(* A registration, for good and the only one of its address. *)
LEMMA RegisterStep ==
  ASSUME ContractTypes, AddressesMatchVehicles,
         NEW a \in Accounts, NEW i \in Ids, RegisterVehicle(a, i)
  PROVE  ContractTypes' /\ AddressesMatchVehicles'
<1>1. /\ vehicles[i] = None /\ addressToVehicleId[a] = Empty /\ a # None
      /\ vehicles' = [vehicles EXCEPT ![i] = a]
      /\ addressToVehicleId' = [addressToVehicleId EXCEPT ![a] = i]
      /\ vehicleIds' = Append(vehicleIds, i)
  BY RegistryAssumption DEF RegistryAssumption, Reasons, RegisterVehicle, RegisterReverts,
     IsVehicleRegistered, RegisteredVehicle
<1>2. ContractTypes'
  BY <1>1, AppendProperties DEF ContractTypes, RegisterVehicle
<1>3. AddressesMatchVehicles'
  <2>1. ASSUME NEW j \in Proper, vehicles'[j] # None
        PROVE  addressToVehicleId'[vehicles'[j]] = j
    <3>1. CASE j = i
      BY <1>1, <3>1 DEF ContractTypes, Proper
    <3>2. CASE j # i
      BY <1>1, <2>1, <3>2 DEF ContractTypes, AddressesMatchVehicles, Proper, IsVehicleRegistered
    <3> QED
      BY <3>1, <3>2
  <2>2. ASSUME NEW b \in Accounts, addressToVehicleId'[b] # Empty
        PROVE  vehicles'[addressToVehicleId'[b]] = b
    <3>1. CASE b = a
      BY <1>1, <3>1 DEF ContractTypes
    <3>2. CASE b # a
      BY <1>1, <2>2, <3>2, RegistryAssumption
      DEF ContractTypes, AddressesMatchVehicles, RegisteredVehicle, RegistryAssumption
    <3> QED
      BY <3>1, <3>2
  <2> QED
    BY <2>1, <2>2 DEF AddressesMatchVehicles, IsVehicleRegistered, RegisteredVehicle
<1> QED
  BY <1>2, <1>3

(* A post is filed under its id. *)
LEMMA PostStep ==
  ASSUME ContractTypes, AddressesMatchVehicles,
         NEW a \in Accounts, NEW i \in Ids, NEW c \in Calls, NEW n,
         SubmitV2XMessage(a, i, c, n) \/ SubmitSecurityAlert(a, i, c)
  PROVE  ContractTypes' /\ AddressesMatchVehicles'
<1>1. Stored(i, addressToVehicleId[a], c) \in Posts /\ Stored(i, addressToVehicleId[a], c).id = i
  BY CallsAreContents DEF ContractTypes, Posts, Stored
<1>2. ContractTypes'
  <2>1. CASE SubmitV2XMessage(a, i, c, n)
    <3>1. v2xMessages' \in [Ids -> Posts] /\ \A j \in Ids : v2xMessages'[j].id \in {j, Empty}
      BY <1>1, <2>1 DEF ContractTypes, SubmitV2XMessage
    <3>2. messageIds' \in Seq(Ids)
      BY <2>1, AppendProperties DEF ContractTypes, SubmitV2XMessage
    <3> QED
      BY <2>1, <3>1, <3>2 DEF ContractTypes, SubmitV2XMessage
  <2>2. CASE SubmitSecurityAlert(a, i, c)
    <3>1. /\ securityAlerts' \in [Ids -> Posts]
          /\ \A j \in Ids : securityAlerts'[j].id \in {j, Empty}
      BY <1>1, <2>2 DEF ContractTypes, SubmitSecurityAlert
    <3>2. alertIds' \in Seq(Ids)
      BY <2>2, AppendProperties DEF ContractTypes, SubmitSecurityAlert
    <3> QED
      BY <2>2, <3>1, <3>2 DEF ContractTypes, SubmitSecurityAlert
  <2> QED
    BY <2>1, <2>2
<1>3. UNCHANGED <<vehicles, addressToVehicleId>>
  BY DEF SubmitV2XMessage, SubmitSecurityAlert
<1> QED
  BY <1>2, <1>3 DEF AddressesMatchVehicles, IsVehicleRegistered, RegisteredVehicle

LEMMA ContractStep == Contract /\ [Next]_vars => Contract'
<1> SUFFICES ASSUME Contract, [Next]_vars PROVE Contract'
  OBVIOUS
<1>1. ClientTypes' /\ Sent'
  BY ClientTypesStep, SentStep DEF Contract
<1>2. CASE UNCHANGED contract
  <2>1. ContractTypes' /\ AddressesMatchVehicles'
    BY <1>2 DEF contract, Contract, ContractTypes, AddressesMatchVehicles,
       IsVehicleRegistered, RegisteredVehicle
  <2> QED
    BY <1>1, <2>1 DEF Contract
<1>3. ASSUME NEW c \in Calls, Step(c), from[c] \in Accounts, op[c].id \in Ids
      PROVE  Contract'
  <2>1. ContractTypes' /\ AddressesMatchVehicles'
    BY <1>3, RegisterStep, PostStep DEF Contract, Step
  <2> QED
    BY <1>1, <2>1 DEF Contract
<1> QED
  BY <1>2, <1>3, ContractSteps DEF Contract

LEMMA ContractInit == Init => Contract
<1> SUFFICES ASSUME Init PROVE Contract
  OBVIOUS
<1>1. ClientTypes /\ Sent
  BY ClientAssumption DEF Init, ClientTypes, Sent
<1>2. Blank \in Posts /\ Blank.id = Empty /\ <<>> \in Seq(Ids)
  BY RegistryAssumption DEF Blank, Stored, Posts, RegistryAssumption
<1>3. ContractTypes
  BY <1>2, RegistryAssumption DEF Init, RegistryInit, ContractTypes, RegistryAssumption
<1>4. AddressesMatchVehicles
  BY DEF Init, RegistryInit, AddressesMatchVehicles, IsVehicleRegistered, RegisteredVehicle, Proper
<1> QED
  BY <1>1, <1>3, <1>4 DEF Contract

LEMMA ContractInvariant == Spec => []Contract
BY ContractInit, ContractStep, PTL DEF Spec

(* An address and its vehicle name each other, in the code's two mappings, *)
(* whatever transactions are mined in whatever order.                      *)
THEOREM AddressesAlwaysMatch == Spec => []AddressesMatchVehicles
<1>1. Contract => AddressesMatchVehicles
  BY DEF Contract
<1> QED
  BY <1>1, ContractInvariant, PTL

-----------------------------------------------------------------------------
(* The contract is a vehicle registry. *)

(* A registration enrolls an owner, unless it is of the empty id. *)
LEMMA RegisterEnrolls ==
  ASSUME Contract, NEW a \in Accounts, NEW i \in Ids, RegisterVehicle(a, i)
  PROVE  [Registry!RegistryNext]_(Registry!rvars)
<1>1. /\ vehicles[i] = None /\ addressToVehicleId[a] = Empty
      /\ vehicles' = [vehicles EXCEPT ![i] = a]
      /\ UNCHANGED <<v2xMessages, securityAlerts>>
  BY RegistryAssumption DEF RegistryAssumption, Reasons, RegisterVehicle, RegisterReverts,
     IsVehicleRegistered, RegisteredVehicle
<1>2. PostsOf(v2xMessages)' = PostsOf(v2xMessages) /\ PostsOf(securityAlerts)' = PostsOf(securityAlerts)
  BY <1>1 DEF PostsOf
<1>3. CASE i = Empty
  <2>1. [j \in Proper |-> vehicles[j]]' = [j \in Proper |-> vehicles[j]]
    BY <1>1, <1>3 DEF Proper, Contract, ContractTypes
  <2> QED
    BY <1>2, <2>1 DEF Registry!rvars
<1>4. CASE i # Empty
  <2>1. i \in Proper
    BY <1>4 DEF Proper
  <2>2. [j \in Proper |-> vehicles[j]]' = [[j \in Proper |-> vehicles[j]] EXCEPT ![i] = a]
    BY <1>1 DEF Proper, Contract, ContractTypes
  <2>3. \A j \in Proper : vehicles[j] # a
    <3> SUFFICES ASSUME NEW j \in Proper, vehicles[j] = a PROVE FALSE
      OBVIOUS
    <3>1. a # None /\ j # Empty
      BY RegistryAssumption DEF RegistryAssumption, Proper
    <3> QED
      BY <1>1, <3>1 DEF Contract, AddressesMatchVehicles, IsVehicleRegistered
  <2>4. Registry!Enroll(a, i)
    BY <1>1, <1>2, <2>1, <2>2, <2>3 DEF Registry!Enroll
  <2> QED
    BY <2>1, <2>4 DEF Registry!RegistryNext
<1> QED
  BY <1>3, <1>4

StoredAt(m, i, v, x) == [m EXCEPT ![i] = Stored(i, v, x)]

(* i's post is made in p; a post under the empty id is no post. *)
Made(p, q, i, v, x) ==
  /\ i = Empty => q = p
  /\ i # Empty => p[i] = None /\ q = [p EXCEPT ![i] = Registry!Post(v, x)]

(* What storing a post does to the posts under proper ids. *)
LEMMA PostsUpdated ==
  ASSUME NEW m \in [Ids -> Posts], NEW i \in Ids, NEW v, NEW x, m[i].id = Empty
  PROVE  Made(PostsOf(m), PostsOf(StoredAt(m, i, v, x)), i, v, x)
<1> DEFINE n == StoredAt(m, i, v, x)
<1>1. n[i] = Stored(i, v, x) /\ \A j \in Proper \ {i} : n[j] = m[j]
  BY DEF Proper, StoredAt
<1>2. CASE i = Empty
  BY <1>1, <1>2 DEF PostsOf, Proper, Made
<1>3. CASE i # Empty
  <2>1. PostsOf(m)[i] = None
    BY <1>3 DEF PostsOf, Proper
  <2>2. PostsOf(n) = [PostsOf(m) EXCEPT ![i] = Registry!Post(v, x)]
    <3>1. PostsOf(n)[i] = Registry!Post(v, x)
      BY <1>1, <1>3 DEF PostsOf, Proper, Stored, Registry!Post
    <3>2. \A j \in Proper \ {i} : PostsOf(n)[j] = PostsOf(m)[j]
      BY <1>1 DEF PostsOf
    <3>3. /\ PostsOf(n) = [j \in Proper |-> PostsOf(n)[j]]
          /\ PostsOf(m) = [j \in Proper |-> PostsOf(m)[j]]
      BY DEF PostsOf
    <3> QED
      BY <3>1, <3>2, <3>3
  <2> QED
    BY <1>3, <2>1, <2>2 DEF Made
<1> QED
  BY <1>2, <1>3

LEMMA PostPosts ==
  ASSUME Contract, NEW a \in Accounts, NEW i \in Ids, NEW c \in Calls, NEW n,
         SubmitV2XMessage(a, i, c, n) \/ SubmitSecurityAlert(a, i, c)
  PROVE  [Registry!RegistryNext]_(Registry!rvars)
<1> DEFINE v == addressToVehicleId[a]
<1>1. v \in Proper /\ vehicles[v] # None
  <2>1. v # Empty /\ v \in Ids /\ a # None
    BY RegistryAssumption DEF RegistryAssumption, Reasons, SubmitV2XMessage, SubmitSecurityAlert,
       MessageReverts, AlertReverts, RegisteredVehicle, Contract, ContractTypes
  <2> QED
    BY <2>1 DEF Proper, Contract, AddressesMatchVehicles, RegisteredVehicle
<1>2. [j \in Proper |-> vehicles[j]]' = [j \in Proper |-> vehicles[j]]
  BY DEF SubmitV2XMessage, SubmitSecurityAlert
<1>3. CASE SubmitV2XMessage(a, i, c, n)
  <2>1. /\ v2xMessages[i].id = Empty
        /\ v2xMessages' = [v2xMessages EXCEPT ![i] = Stored(i, v, c)]
        /\ PostsOf(securityAlerts)' = PostsOf(securityAlerts)
    BY <1>3, RegistryAssumption DEF RegistryAssumption, Reasons, SubmitV2XMessage, MessageReverts,
       MessageExists, RegisteredVehicle, PostsOf
  <2>2. Made(PostsOf(v2xMessages), PostsOf(v2xMessages'), i, v, c)
    <3>1. v2xMessages \in [Ids -> Posts]
      BY DEF Contract, ContractTypes
    <3>2. v2xMessages' = StoredAt(v2xMessages, i, v, c)
      BY <2>1 DEF StoredAt
    <3> QED
      BY <2>1, <3>1, <3>2, PostsUpdated
  <2>3. CASE i = Empty
    BY <1>2, <2>1, <2>2, <2>3 DEF Made, Registry!rvars
  <2>4. CASE i # Empty
    <3>1. Registry!PostMessage(v, i, c) /\ i \in Proper
      BY <1>1, <1>2, <2>1, <2>2, <2>4 DEF Made, Registry!PostMessage, Proper
    <3> QED
      BY <1>1, <3>1, CallsAreContents DEF Registry!RegistryNext
  <2> QED
    BY <2>3, <2>4
<1>4. CASE SubmitSecurityAlert(a, i, c)
  <2>1. /\ securityAlerts[i].id = Empty
        /\ securityAlerts' = [securityAlerts EXCEPT ![i] = Stored(i, v, c)]
        /\ PostsOf(v2xMessages)' = PostsOf(v2xMessages)
    BY <1>4, RegistryAssumption DEF RegistryAssumption, Reasons, SubmitSecurityAlert, AlertReverts,
       AlertExists, RegisteredVehicle, PostsOf
  <2>2. Made(PostsOf(securityAlerts), PostsOf(securityAlerts'), i, v, c)
    <3>1. securityAlerts \in [Ids -> Posts]
      BY DEF Contract, ContractTypes
    <3>2. securityAlerts' = StoredAt(securityAlerts, i, v, c)
      BY <2>1 DEF StoredAt
    <3> QED
      BY <2>1, <3>1, <3>2, PostsUpdated
  <2>3. CASE i = Empty
    BY <1>2, <2>1, <2>2, <2>3 DEF Made, Registry!rvars
  <2>4. CASE i # Empty
    <3>1. Registry!PostAlert(v, i, c) /\ i \in Proper
      BY <1>1, <1>2, <2>1, <2>2, <2>4 DEF Made, Registry!PostAlert, Proper
    <3> QED
      BY <1>1, <3>1, CallsAreContents DEF Registry!RegistryNext
  <2> QED
    BY <2>3, <2>4
<1> QED
  BY <1>3, <1>4

LEMMA RegistryStep == Contract /\ [Next]_vars => [Registry!RegistryNext]_(Registry!rvars)
<1> SUFFICES ASSUME Contract, [Next]_vars PROVE [Registry!RegistryNext]_(Registry!rvars)
  OBVIOUS
<1>1. CASE UNCHANGED contract
  BY <1>1 DEF contract, Registry!rvars, PostsOf
<1>2. ASSUME NEW c \in Calls, Step(c), from[c] \in Accounts, op[c].id \in Ids
      PROVE  [Registry!RegistryNext]_(Registry!rvars)
  BY <1>2, RegisterEnrolls, PostPosts DEF Step
<1> QED
  BY <1>1, <1>2, ContractSteps DEF Contract

(* The contract implements the registry: every transaction that is mined   *)
(* is one of its steps or, for the empty id, a stutter.                    *)
THEOREM ContractImplementsRegistry == Spec => ImplementsRegistry
<1>1. Init => Registry!RegistryInit
  BY DEF Init, RegistryInit, Registry!RegistryInit, PostsOf, Proper, Blank, Stored
<1> QED
  BY <1>1, RegistryStep, ContractInvariant, PTL DEF Spec, ImplementsRegistry, Registry!RegistrySpec

-----------------------------------------------------------------------------
(* What the callers are told. *)

(* c's post can no longer be stored over. *)
Lasting(c) == /\ OnChain(c)
              /\ op[c].fn = "submitV2XMessage" /\ op[c].id \in Proper => MessageExists(op[c].id)
              /\ op[c].fn = "submitSecurityAlert" /\ op[c].id \in Proper => AlertExists(op[c].id)

(* What a mined transaction, and then its caller, was told is so. *)
ToldOf(c) == /\ tx[c] = "mined" => Lasting(c)
             /\ pc[c] = "ok" /\ Is(c, Writers) => tx[c] = "mined"
             /\ pc[c] \in {"asked", "reading"} => ~Is(c, Writers)
             /\ tx[c] = "replay attack" \/ pc[c] = "replay" => MessageExists(op[c].id)

Told == \A c \in Calls : ToldOf(c)

LEMMA WritersCases ==
  ASSUME NEW o, o.fn \in Writers
  PROVE  o.fn = "registerVehicle" \/ o.fn = "submitV2XMessage" \/ o.fn = "submitSecurityAlert"
BY DEF Writers

(* A refusal has one of the contract's reasons, and a replay is stored. *)
LEMMA RevertsKnown ==
  ASSUME NEW a, NEW o, o.fn \in Writers, Reverts(a, o) # None
  PROVE  /\ Reverts(a, o) \in Reasons
         /\ Reverts(a, o) = "replay attack" => MessageExists(o.id)
<1>1. CASE o.fn = "registerVehicle"
  BY <1>1 DEF Reverts, RegisterReverts, Reasons
<1>2. CASE o.fn = "submitV2XMessage"
  BY <1>2 DEF Reverts, MessageReverts, Reasons
<1>3. CASE o.fn = "submitSecurityAlert"
  BY <1>3 DEF Reverts, AlertReverts, Reasons
<1> QED
  BY <1>1, <1>2, <1>3, WritersCases

(* What is stored under an id stays, unless the id is empty. *)
LEMMA StoredStays ==
  ASSUME Contract, NEW d \in Calls, Step(d), from[d] \in Accounts, op[d].id \in Ids
  PROVE  /\ \A i \in Ids : IsVehicleRegistered(i) => vehicles'[i] = vehicles[i]
         /\ \A i \in Ids : MessageExists(i) => v2xMessages'[i] = v2xMessages[i]
         /\ \A i \in Ids : AlertExists(i) => securityAlerts'[i] = securityAlerts[i]
<1> USE RegistryAssumption DEF RegistryAssumption, Reasons, Contract, ContractTypes
<1>1. CASE RegisterVehicle(from[d], op[d].id)
  BY <1>1 DEF RegisterVehicle, RegisterReverts, IsVehicleRegistered
<1>2. CASE SubmitV2XMessage(from[d], op[d].id, d, op[d].priority)
  BY <1>2 DEF SubmitV2XMessage, MessageReverts, MessageExists
<1>3. CASE SubmitSecurityAlert(from[d], op[d].id, d)
  BY <1>3 DEF SubmitSecurityAlert, AlertReverts, AlertExists
<1> QED
  BY <1>1, <1>2, <1>3 DEF Step

LEMMA LastingStays ==
  ASSUME Contract, NEW c \in Calls, Lasting(c), op[c].fn \in Writers, op[c].id \in Ids,
         from[c] \in Accounts, UNCHANGED <<op[c], from[c]>>,
         \/ UNCHANGED contract
         \/ \E d \in Calls : Step(d) /\ from[d] \in Accounts /\ op[d].id \in Ids
  PROVE  Lasting(c)'
<1>0. from[c] # None
  BY RegistryAssumption DEF RegistryAssumption
<1>1. /\ \A i \in Ids : IsVehicleRegistered(i) => vehicles'[i] = vehicles[i]
      /\ \A i \in Ids : MessageExists(i) => v2xMessages'[i] = v2xMessages[i]
      /\ \A i \in Ids : AlertExists(i) => securityAlerts'[i] = securityAlerts[i]
  BY StoredStays DEF contract
<1>2. CASE op[c].fn = "registerVehicle"
  BY <1>0, <1>1, <1>2 DEF Lasting, OnChain, IsVehicleRegistered
<1>3. CASE op[c].fn = "submitV2XMessage"
  BY <1>1, <1>3 DEF Lasting, OnChain, MessageExists, Proper
<1>4. CASE op[c].fn = "submitSecurityAlert"
  BY <1>1, <1>4 DEF Lasting, OnChain, AlertExists, Proper
<1> QED
  BY <1>2, <1>3, <1>4 DEF Writers

(* A transaction that takes effect leaves its write on the chain. *)
LEMMA StepLasts ==
  ASSUME Contract, NEW d \in Calls, Step(d), from[d] \in Accounts, op[d].id \in Ids,
         UNCHANGED <<op, from>>
  PROVE  Lasting(d)'
<1> USE DEF Contract, ContractTypes, Lasting, OnChain, Proper
<1>1. CASE op[d].fn = "registerVehicle"
  <2>1. RegisterVehicle(from[d], op[d].id)
    BY <1>1 DEF Step
  <2> QED
    BY <1>1, <2>1 DEF RegisterVehicle
<1>2. CASE op[d].fn = "submitV2XMessage"
  <2>1. SubmitV2XMessage(from[d], op[d].id, d, op[d].priority)
    BY <1>2 DEF Step
  <2> QED
    BY <1>2, <2>1 DEF SubmitV2XMessage, Stored, MessageExists
<1>3. CASE op[d].fn = "submitSecurityAlert"
  <2>1. SubmitSecurityAlert(from[d], op[d].id, d)
    BY <1>3 DEF Step
  <2> QED
    BY <1>3, <2>1 DEF SubmitSecurityAlert, Stored, AlertExists
<1> QED
  BY <1>1, <1>2, <1>3 DEF Step

(* What a call was told stays so while the call itself does not move. *)
LEMMA ToldStays ==
  ASSUME Contract, [Next]_vars, NEW c \in Calls, ToldOf(c),
         UNCHANGED <<op[c], pc[c], from[c], tx[c]>>
  PROVE  ToldOf(c)'
<1>1. \/ UNCHANGED contract
      \/ \E d \in Calls : Step(d) /\ from[d] \in Accounts /\ op[d].id \in Ids
  BY ContractSteps DEF Contract
<1>2. ASSUME tx[c] = "mined" PROVE Lasting(c)'
  <2>1. from[c] \in Accounts /\ Is(c, Writers)
    BY <1>2 DEF Contract, Sent
  <2>2. op[c].fn \in Writers /\ op[c].id \in Ids
    BY <2>1, OpKnown DEF Contract, Is
  <2> QED
    BY <1>1, <1>2, <2>1, <2>2, LastingStays DEF ToldOf
<1>3. ASSUME tx[c] = "replay attack" \/ pc[c] = "replay" PROVE MessageExists(op[c].id)'
  <2>1. op[c] # None
    BY <1>3 DEF Contract, Sent, Is
  <2>2. op[c].id \in Ids /\ MessageExists(op[c].id)
    BY <1>3, <2>1, OpKnown DEF Contract, ToldOf
  <2> QED
    BY <1>1, <2>2, StoredStays DEF contract, MessageExists
<1> QED
  BY <1>2, <1>3 DEF ToldOf, Is

LEMMA ToldStep == Contract /\ Told /\ [Next]_vars => Told'
<1> SUFFICES ASSUME Contract, Told, [Next]_vars PROVE Told'
  OBVIOUS
<1> USE DEF Goto, call, client
<1>0. ClientTypes /\ Sent
  BY DEF Contract
<1>1. ASSUME NEW c \in Calls, ToldOf(c)',
             \A d \in Calls \ {c} : UNCHANGED <<op[d], pc[d], from[d], tx[d]>>
      PROVE  Told'
  BY <1>1, ToldStays DEF Told
<1>2. ASSUME UNCHANGED <<op, pc, from, tx>> PROVE Told'
  BY <1>2, ToldStays DEF Told
<1>3. ASSUME NEW k \in Clients, Initialize(k) \/ LoadContract(k) \/ LoadAccount(k)
      PROVE  Told'
  BY <1>2, <1>3 DEF Initialize, LoadContract, LoadAccount
<1>4. ASSUME NEW k \in Clients, NEW c \in Calls, NEW o \in Ops[c], NEW ok,
             o.fn \in Writers, Send(c, k, o, ok)
      PROVE  Told'
  <2>1. /\ pc[c] = "idle" /\ tx[c] = "none" /\ op'[c] = o
        /\ tx'[c] \in {"none", "pending"} /\ UNCHANGED contract
    BY <1>0, <1>4 DEF ClientTypes, Sent, Send, Begin
  <2>2. /\ pc'[c] \in {"failed", "sent", "replay", "reverted"}
        /\ pc'[c] = "replay" => MessageExists(o.id)
    <3>1. CASE pc'[c] \in {"failed", "sent"}
      BY <3>1
    <3>2. CASE pc'[c] \notin {"failed", "sent"}
      <4>1. /\ Reverts(account[k], o) # None
            /\ OnRevert(o, Reverts(account[k], o), pc'[c])
        BY <1>0, <1>4, <3>2 DEF ClientTypes, Send, Begin
      <4> QED
        BY <1>4, <4>1, RevertsKnown DEF OnRevert
    <3> QED
      BY <3>1, <3>2
  <2>3. ToldOf(c)'
    BY <2>1, <2>2 DEF ToldOf, MessageExists, contract
  <2>4. \A d \in Calls \ {c} : UNCHANGED <<op[d], pc[d], from[d], tx[d]>>
    BY <1>0, <1>4 DEF ClientTypes, Send, Begin
  <2> QED
    BY <1>1, <2>3, <2>4
<1>5. ASSUME NEW k \in Clients, NEW c \in Calls, NEW o \in Ops[c], Ask(c, k, o)
      PROVE  Told'
  <2>1. /\ tx'[c] = "none" /\ pc'[c] \in {"asked", "failed"}
        /\ op'[c] = o /\ o.fn \notin Writers
    BY <1>0, <1>5 DEF ClientTypes, Sent, Ask, Begin
  <2>2. ToldOf(c)'
    BY <2>1 DEF ToldOf, Is
  <2>3. \A d \in Calls \ {c} : UNCHANGED <<op[d], pc[d], from[d], tx[d]>>
    BY <1>5 DEF Ask, Begin
  <2> QED
    BY <1>1, <2>2, <2>3
<1>6. ASSUME NEW c \in Calls, Mine(c) PROVE Told'
  <2>1. /\ UNCHANGED <<op, pc, from>> /\ tx[c] = "pending"
        /\ \A d \in Calls \ {c} : tx'[d] = tx[d]
    BY <1>0, <1>6 DEF ClientTypes, Mine
  <2>2. from[c] \in Accounts /\ op[c] # None /\ op[c].fn \in Writers /\ op[c].id \in Ids
    BY <1>0, <2>1, OpKnown DEF Sent, Is
  <2>3. ToldOf(c)
    BY DEF Told
  <2>4. ~(pc[c] = "ok" /\ Is(c, Writers))
    BY <2>1, <2>3 DEF ToldOf
  <2>5. CASE Apply(c) /\ tx' = [tx EXCEPT ![c] = "mined"]
    <3>1. Step(c)
      BY <2>5 DEF Apply, Is, Step
    <3>2. Lasting(c)'
      BY <2>1, <2>2, <3>1, StepLasts
    <3>3. pc[c] = "replay" => MessageExists(op[c].id)'
      BY <2>1, <2>2, <2>3, <3>1, StoredStays DEF ToldOf, MessageExists
    <3>4. tx'[c] = "mined"
      BY <1>0, <2>5 DEF ClientTypes
    <3> QED
      BY <1>1, <2>1, <2>3, <2>4, <3>2, <3>3, <3>4 DEF ToldOf, Is
  <2>6. CASE /\ Reverts(from[c], op[c]) # None /\ UNCHANGED contract
             /\ tx' = [tx EXCEPT ![c] = Reverts(from[c], op[c])]
    <3>1. /\ tx'[c] \in Reasons
          /\ tx'[c] = "replay attack" => MessageExists(op[c].id)
      BY <1>0, <2>2, <2>6, RevertsKnown DEF ClientTypes
    <3>2. tx'[c] # "mined"
      BY <3>1 DEF Reasons
    <3> QED
      BY <1>1, <2>1, <2>3, <2>4, <2>6, <3>1, <3>2 DEF ToldOf, Is, MessageExists, contract
  <2> QED
    BY <1>6, <2>5, <2>6 DEF Mine
<1>7. ASSUME NEW c \in Calls, Receive(c) \/ Fail(c) PROVE Told'
  <2>1. /\ UNCHANGED <<op, from, tx, contract>>
        /\ \A d \in Calls \ {c} : pc'[d] = pc[d]
    BY <1>0, <1>7 DEF ClientTypes, Receive, Fail
  <2>2. /\ pc'[c] = "ok" => tx[c] = "mined"
        /\ pc'[c] = "replay" => tx[c] = "replay attack"
        /\ pc'[c] \in Ended
    <3>1. CASE pc' = [pc EXCEPT ![c] = "failed"]
      BY <1>0, <3>1 DEF ClientTypes, Ended
    <3>2. CASE Confirmed(c) /\ pc' = [pc EXCEPT ![c] = "ok"]
      BY <1>0, <3>2 DEF ClientTypes, Confirmed, Ended
    <3>3. ASSUME NEW l \in Ended, OnRevert(op[c], tx[c], l), pc' = [pc EXCEPT ![c] = l]
          PROVE  /\ pc'[c] # "ok" /\ pc'[c] \in Ended
                 /\ pc'[c] = "replay" => tx[c] = "replay attack"
      <4>1. pc'[c] = l
        BY <1>0, <3>3 DEF ClientTypes
      <4>2. l # "ok" /\ (l = "replay" => tx[c] = "replay attack")
        BY <3>3 DEF OnRevert
      <4> QED
        BY <3>3, <4>1, <4>2
    <3> QED
      BY <1>7, <3>1, <3>2, <3>3 DEF Receive, Fail
  <2>3. ToldOf(c)'
    BY <2>1, <2>2 DEF Told, ToldOf, Lasting, OnChain, MessageExists, AlertExists, Is, contract,
       Ended
  <2> QED
    BY <1>1, <2>1, <2>3
<1>8. ASSUME NEW c \in Calls, Get(c) \/ ListIds(c) \/ ReadNext(c) PROVE Told'
  <2>1. /\ UNCHANGED <<op, from, tx, contract>>
        /\ \A d \in Calls \ {c} : pc'[d] = pc[d]
        /\ pc[c] \in {"asked", "reading"}
    BY <1>0, <1>8 DEF ClientTypes, Get, GetV2XMessage, GetRecord, Check, Count, ListIds, ReadNext
  <2>2. pc'[c] # "replay"
    <3>1. \E l \in {"ok", "notFound", "reverted", "reading"} : pc' = [pc EXCEPT ![c] = l]
      <4>1. CASE Get(c)
        BY <4>1 DEF Get, GetV2XMessage, GetRecord, Check, Count
      <4>2. CASE ListIds(c)
        BY <4>2 DEF ListIds
      <4>3. CASE ReadNext(c)
        BY <4>3 DEF ReadNext, OnMissing
      <4> QED
        BY <1>8, <4>1, <4>2, <4>3
    <3> QED
      BY <1>0, <3>1 DEF ClientTypes
  <2>3. ~Is(c, Writers) /\ ToldOf(c)
    BY <2>1 DEF Told, ToldOf
  <2>4. ToldOf(c)'
    BY <2>1, <2>2, <2>3 DEF ToldOf, Lasting, OnChain, MessageExists, AlertExists, Is, contract
  <2> QED
    BY <1>1, <2>1, <2>4
<1>9. ASSUME NEW k \in Clients, NEW c \in Calls, NEW o \in Ops[c],
             \/ SendRegisterVehicle(c, k, o) \/ SendSubmitV2XMessage(c, k, o)
             \/ SendSubmitSecurityAlert(c, k, o)
      PROVE  Told'
  <2>1. o.fn \in Writers /\ (Send(c, k, o, TRUE) \/ Send(c, k, o, Validate(o)))
    BY <1>9 DEF SendRegisterVehicle, SendSubmitV2XMessage, SendSubmitSecurityAlert, Writers
  <2> QED
    BY <1>4, <2>1
<1>10. CASE Done \/ UNCHANGED vars
  BY <1>2, <1>10 DEF Done, vars
<1> QED
  BY <1>3, <1>5, <1>6, <1>7, <1>8, <1>9, <1>10 DEF Next

LEMMA ToldInvariant == Spec => []Told
<1>1. Init => Told
  <2> SUFFICES ASSUME Init, NEW c \in Calls PROVE ToldOf(c)
    BY DEF Told
  <2> QED
    BY DEF Init, ToldOf
<1> QED
  BY <1>1, ToldStep, ContractInvariant, PTL DEF Spec

(* A write answered with success is on the chain as this caller's and      *)
(* stays there, whichever calls compete for its id.                        *)
THEOREM SuccessIsAlwaysMined == Spec => []SuccessIsMined
<1>1. Told => SuccessIsMined
  BY DEF Told, ToldOf, Lasting, SuccessIsMined, Succeeded
<1> QED
  BY <1>1, ToldInvariant, PTL

(* REPLAY_ATTACK_DETECTED is never told of a message that is not stored.   *)
THEOREM ReplaysAreStored == Spec => []ReplayIsStored
<1>1. Told => ReplayIsStored
  BY DEF Told, ToldOf, ReplayIsStored
<1> QED
  BY <1>1, ToldInvariant, PTL

-----------------------------------------------------------------------------
(* The contract's lists. *)

Number(s, i) == Cardinality(Indices(s, i))

LEMMA NumberAppended ==
  ASSUME NEW s \in Seq(Ids), NEW i \in Ids, NEW j \in Ids
  PROVE  /\ Number(s, j) \in Nat
         /\ Number(Append(s, i), j) = IF i = j THEN Number(s, j) + 1 ELSE Number(s, j)
<1> DEFINE n == Len(s) + 1
<1>1. /\ Len(s) \in Nat /\ Len(Append(s, i)) = n /\ Append(s, i)[n] = i
      /\ \A m \in 1..Len(s) : Append(s, i)[m] = s[m]
  BY AppendProperties, LenProperties
<1>2. IsFiniteSet(Indices(s, j)) /\ n \notin Indices(s, j)
  <2>1. IsFiniteSet(1..Len(s))
    BY <1>1, FS_Interval
  <2>2. Indices(s, j) \subseteq 1..Len(s) /\ n \notin 1..Len(s)
    BY <1>1 DEF Indices
  <2> QED
    BY <2>1, <2>2, FS_Subset
<1>3. Number(s, j) \in Nat
  BY <1>2, FS_CardinalityType DEF Number
<1>4. 1..n = 1..Len(s) \union {n}
  BY <1>1
<1>5. CASE i = j
  <2>1. Indices(Append(s, i), j) = Indices(s, j) \union {n}
    BY <1>1, <1>4, <1>5 DEF Indices
  <2> QED
    BY <1>2, <1>3, <1>5, <2>1, FS_AddElement DEF Number
<1>6. CASE i # j
  <2>1. Indices(Append(s, i), j) = Indices(s, j)
    BY <1>1, <1>4, <1>6 DEF Indices
  <2> QED
    BY <1>3, <1>6, <2>1 DEF Number
<1> QED
  BY <1>3, <1>5, <1>6

LEMMA ListsStep == Contract /\ ListsMatchMappings /\ [Next]_vars => ListsMatchMappings'
<1> SUFFICES ASSUME Contract, ListsMatchMappings, [Next]_vars PROVE ListsMatchMappings'
  OBVIOUS
<1>0. /\ \A i \in Ids : Number(vehicleIds, i) = IF vehicles[i] # None THEN 1 ELSE 0
      /\ \A i \in Proper : Number(messageIds, i) = IF v2xMessages[i].id # Empty THEN 1 ELSE 0
      /\ \A i \in Proper : Number(alertIds, i) = IF securityAlerts[i].id # Empty THEN 1 ELSE 0
  BY DEF Number, ListsMatchMappings, IsVehicleRegistered, MessageExists, AlertExists
<1>1. CASE UNCHANGED contract
  BY <1>1 DEF contract, Indices, ListsMatchMappings, IsVehicleRegistered, MessageExists, AlertExists
<1>2. ASSUME \A i \in Ids : Number(vehicleIds', i) = IF vehicles'[i] # None THEN 1 ELSE 0,
             \A i \in Proper : Number(messageIds', i) = IF v2xMessages'[i].id # Empty THEN 1 ELSE 0,
             \A i \in Proper : Number(alertIds', i) = IF securityAlerts'[i].id # Empty THEN 1 ELSE 0
      PROVE  ListsMatchMappings'
  BY <1>2 DEF Number, Indices, ListsMatchMappings, IsVehicleRegistered, MessageExists, AlertExists
<1>3. ASSUME NEW c \in Calls, Step(c), from[c] \in Accounts, op[c].id \in Ids
      PROVE  ListsMatchMappings'
  <2> DEFINE k == op[c].id
  <2>1. CASE RegisterVehicle(from[c], k)
    <3>1. /\ vehicles[k] = None
          /\ vehicles' = [vehicles EXCEPT ![k] = from[c]]
          /\ vehicleIds' = Append(vehicleIds, k)
          /\ UNCHANGED <<v2xMessages, securityAlerts, messageIds, alertIds>>
      BY <1>3, <2>1, RegistryAssumption DEF RegistryAssumption, Reasons, RegisterVehicle,
         RegisterReverts, IsVehicleRegistered
    <3>2. ASSUME NEW i \in Ids
          PROVE  Number(vehicleIds', i) = IF vehicles'[i] # None THEN 1 ELSE 0
      <4>1. i \in Ids /\ k \in Ids /\ vehicleIds \in Seq(Ids)
            /\ vehicles = [j \in Ids |-> vehicles[j]]
        BY <1>3 DEF Contract, ContractTypes, Proper
      <4>2. Number(vehicleIds', i) =
               IF k = i THEN Number(vehicleIds, i) + 1 ELSE Number(vehicleIds, i)
        BY <3>1, <4>1, NumberAppended
      <4>3. vehicles'[i] # None <=> k = i \/ vehicles[i] # None
        BY <3>1, <4>1, RegistryAssumption, <1>3 DEF RegistryAssumption, Stored, Proper
      <4> QED
        BY <1>0, <3>1, <4>2, <4>3
    <3> QED
      BY <1>0, <1>2, <3>1, <3>2
  <2>2. CASE SubmitV2XMessage(from[c], k, c, op[c].priority)
    <3>1. /\ v2xMessages[k].id = Empty
          /\ v2xMessages' = [v2xMessages EXCEPT ![k] = Stored(k, addressToVehicleId[from[c]], c)]
          /\ messageIds' = Append(messageIds, k)
          /\ UNCHANGED <<vehicles, securityAlerts, vehicleIds, alertIds>>
      BY <1>3, <2>2, RegistryAssumption DEF RegistryAssumption, Reasons, SubmitV2XMessage,
         MessageReverts, MessageExists
    <3>2. ASSUME NEW i \in Proper
          PROVE  Number(messageIds', i) = IF v2xMessages'[i].id # Empty THEN 1 ELSE 0
      <4>1. i \in Ids /\ k \in Ids /\ messageIds \in Seq(Ids)
            /\ v2xMessages = [j \in Ids |-> v2xMessages[j]]
        BY <1>3 DEF Contract, ContractTypes, Proper
      <4>2. Number(messageIds', i) =
               IF k = i THEN Number(messageIds, i) + 1 ELSE Number(messageIds, i)
        BY <3>1, <4>1, NumberAppended
      <4>3. v2xMessages'[i].id # Empty <=> k = i \/ v2xMessages[i].id # Empty
        BY <3>1, <4>1, RegistryAssumption, <1>3 DEF RegistryAssumption, Stored, Proper
      <4> QED
        BY <1>0, <3>1, <4>2, <4>3
    <3> QED
      BY <1>0, <1>2, <3>1, <3>2
  <2>3. CASE SubmitSecurityAlert(from[c], k, c)
    <3>1. /\ securityAlerts[k].id = Empty
          /\ securityAlerts' = [securityAlerts EXCEPT ![k] = Stored(k, addressToVehicleId[from[c]], c)]
          /\ alertIds' = Append(alertIds, k)
          /\ UNCHANGED <<vehicles, v2xMessages, vehicleIds, messageIds>>
      BY <1>3, <2>3, RegistryAssumption DEF RegistryAssumption, Reasons, SubmitSecurityAlert,
         AlertReverts, AlertExists
    <3>2. ASSUME NEW i \in Proper
          PROVE  Number(alertIds', i) = IF securityAlerts'[i].id # Empty THEN 1 ELSE 0
      <4>1. i \in Ids /\ k \in Ids /\ alertIds \in Seq(Ids)
            /\ securityAlerts = [j \in Ids |-> securityAlerts[j]]
        BY <1>3 DEF Contract, ContractTypes, Proper
      <4>2. Number(alertIds', i) = IF k = i THEN Number(alertIds, i) + 1 ELSE Number(alertIds, i)
        BY <3>1, <4>1, NumberAppended
      <4>3. securityAlerts'[i].id # Empty <=> k = i \/ securityAlerts[i].id # Empty
        BY <3>1, <4>1, RegistryAssumption, <1>3 DEF RegistryAssumption, Stored, Proper
      <4> QED
        BY <1>0, <3>1, <4>2, <4>3
    <3> QED
      BY <1>0, <1>2, <3>1, <3>2
  <2> QED
    BY <1>3, <2>1, <2>2, <2>3 DEF Step
<1> QED
  BY <1>1, <1>3, ContractSteps DEF Contract

(* The lists hold what the mappings hold, once each, whatever transactions *)
(* are mined in whatever order.                                            *)
THEOREM ListsAlwaysMatch == Spec => []ListsMatchMappings
<1>1. Init => ListsMatchMappings
  <2> SUFFICES ASSUME Init PROVE ListsMatchMappings
    OBVIOUS
  <2>1. \A i \in Ids : Indices(<<>>, i) = {}
    BY DEF Indices
  <2> QED
    BY <2>1, FS_EmptySet DEF Init, RegistryInit, ListsMatchMappings, IsVehicleRegistered,
       MessageExists, AlertExists, Blank, Stored, Proper
<1> QED
  BY <1>1, ListsStep, ContractInvariant, PTL DEF Spec

=============================================================================
