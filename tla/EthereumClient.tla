--------------------------- MODULE EthereumClient ---------------------------
(***************************************************************************)
(* Ethereum clients (ethereum-poa/client/index.js), each with an account,  *)
(* on one node of the chain that holds the ITS contract.  An action is     *)
(* what a call does between two awaits, or a step of the node: a           *)
(* transaction is mined, in any order and perhaps after the caller gave up *)
(* on it, or a read is answered from the contract as it is by then.        *)
(***************************************************************************)
EXTENDS ITSRegistry

CONSTANTS
  Calls,      \* the calls of the applications; what c posts has content c
  Ops,        \* what each call may be, besides initialize
  Clients,    \* the client objects
  ClientOf,   \* the client each call is made on
  KeyOf,      \* the account of each client's private key, None without one
  First,      \* the node's first own account, None if it has none
  MaxInits    \* the bound on the number of times a client is initialized

Writers == {"registerVehicle", "submitV2XMessage", "submitSecurityAlert"}
Getters == {"getV2XMessage", "getVehicle", "getSecurityAlert"}
Checks == {"messageExists", "isVehicleRegistered"}
Counts == {"getMessageCount", "getVehicleCount", "getAlertCount"}
Listings == {"getAllV2XMessages", "getAllVehicles", "getAllSecurityAlerts"}
Functions == Writers \union Getters \union Checks \union Counts \union Listings

Op(fns) == [fn : fns, id : Ids, priority : Int]

ASSUME ClientAssumption == /\ \A c \in Calls : Ops[c] \subseteq Op(Functions)
                           /\ ClientOf \in [Calls -> Clients]
                           /\ Calls \subseteq Contents
                           /\ KeyOf \in [Clients -> Accounts \union {None}]
                           /\ First \in Accounts \union {None}
                           /\ None \notin UNION {Ops[c] : c \in Calls}
                           /\ MaxInits \in Nat

VARIABLES
  stage,       \* how far the initialization of each client is
  inits,       \* how often each client was initialized
  bound,       \* the clients that have a contract object
  account,     \* the account each client sends from
  instruments, \* the clients whose current telemetry has its instruments
  registrations, \* eth.vehicles.registered, as exported
  op, pc,      \* what each call is, None before it is made; how far it is
  from, tx,    \* the account and the state of each call's transaction
  todo, seen,  \* the ids a listing has still to read; the ids a read returns
  before       \* the writes that had succeeded when each read was made

client == <<stage, inits, bound, account, instruments>>
call == <<op, pc, from, todo, seen, before>>
vars == <<contract, client, call, tx, registrations>>

Ended == {"ok", "replay", "notFound", "reverted", "failed"}

Init == /\ RegistryInit
        /\ stage = [k \in Clients |-> "new"]
        /\ inits = [k \in Clients |-> 0]
        /\ bound = {}
        /\ account = [k \in Clients |-> None]
        /\ instruments = {}
        /\ registrations = 0
        /\ op = [c \in Calls |-> None]
        /\ pc = [c \in Calls |-> "idle"]
        /\ from = [c \in Calls |-> None]
        /\ tx = [c \in Calls |-> "none"]
        /\ todo = [c \in Calls |-> <<>>]
        /\ seen = [c \in Calls |-> <<>>]
        /\ before = [c \in Calls |-> {}]

Goto(c, l) == pc' = [pc EXCEPT ![c] = l]
Is(c, fns) == op[c] # None /\ op[c].fn \in fns

-----------------------------------------------------------------------------
(* initialize.  The object stays usable meanwhile, with what it has.  An   *)
(* application waits for one initialize of a client to end before it asks  *)
(* for the next; the code does not insist on it.                           *)

(* A new telemetry, whose instruments are not there yet. *)
Initialize(k) ==
  /\ stage[k] \in {"new", "failed", "ready"}
  /\ inits[k] < MaxInits
  /\ stage' = [stage EXCEPT ![k] = "telemetry"]
  /\ inits' = [inits EXCEPT ![k] = @ + 1]
  /\ instruments' = instruments \ {k}
  /\ UNCHANGED <<contract, bound, account, call, tx, registrations>>

InitializeTelemetry(k, works) ==
  instruments' = IF works THEN instruments \union {k} ELSE instruments

(* A mutant of Bind: the contract object waits for the account. *)
BindIfKeyed(k, found) == bound' = IF found /\ KeyOf[k] # None THEN bound \union {k} ELSE bound

Bind(k, found) == bound' = IF found THEN bound \union {k} ELSE bound

(* The telemetry is up, or not; then the contract's ABI is there, or not;  *)
(* then the account is the private key's, or must be asked for.            *)
LoadContract(k) ==
  /\ stage[k] = "telemetry"
  /\ \E works, found \in BOOLEAN :
       /\ InitializeTelemetry(k, works)
       /\ Bind(k, works /\ found)
       /\ stage' = [stage EXCEPT ![k] = IF ~(works /\ found) THEN "failed"
                                        ELSE IF KeyOf[k] # None THEN "ready" ELSE "accounts"]
       /\ account' = IF works /\ found /\ KeyOf[k] # None
                     THEN [account EXCEPT ![k] = KeyOf[k]] ELSE account
  /\ UNCHANGED <<contract, inits, call, tx, registrations>>

LoadAccount(k) ==
  /\ stage[k] = "accounts"
  /\ \/ /\ stage' = [stage EXCEPT ![k] = "ready"]
        /\ account' = [account EXCEPT ![k] = First]
     \/ /\ stage' = [stage EXCEPT ![k] = "failed"]
        /\ UNCHANGED account
  /\ UNCHANGED <<contract, inits, bound, instruments, call, tx, registrations>>

-----------------------------------------------------------------------------
(* The writes. *)

Succeeded == {c \in Calls : Is(c, Writers) /\ pc[c] = "ok"}

Begin(c, o, l) == /\ pc[c] = "idle"
                  /\ op' = [op EXCEPT ![c] = o]
                  /\ Goto(c, l)

Validate(o) == o.priority \in 0..2

(* Why the contract would refuse what o asks for in the name of a. *)
Reverts(a, o) ==
  CASE o.fn = "registerVehicle" -> RegisterReverts(a, o.id)
    [] o.fn = "submitV2XMessage" -> MessageReverts(a, o.id, o.priority)
    [] o.fn = "submitSecurityAlert" -> AlertReverts(a, o.id)

(* A mutant of OnRevert: any refusal of a message is taken for a replay. *)
OnAnyRevert(o, reason, l) ==
  IF o.fn = "submitV2XMessage" THEN l \in {"replay", "reverted"} ELSE l = "reverted"

(* How a call ends when the contract refuses it; the error need not carry  *)
(* the contract's reason.                                                  *)
OnRevert(o, reason, l) ==
  IF o.fn = "submitV2XMessage" /\ reason = "replay attack"
  THEN l \in {"replay", "reverted"} ELSE l = "reverted"

(* A write is refused by the client, or by the node that tries it out on   *)
(* the contract as it is, or it is in the node's pool.                     *)
Send(c, k, o, valid) ==
  /\ k = ClientOf[c]
  /\ \/ /\ ~valid \/ k \notin bound \/ account[k] = None
        /\ Begin(c, o, "failed")
        /\ UNCHANGED <<from, tx>>
     \/ /\ valid /\ k \in bound /\ account[k] # None
        /\ Reverts(account[k], o) # None
        /\ \E l \in Ended : /\ OnRevert(o, Reverts(account[k], o), l)
                            /\ Begin(c, o, l)
        /\ UNCHANGED <<from, tx>>
     \/ /\ valid /\ k \in bound /\ account[k] # None
        /\ Begin(c, o, "sent")
        /\ from' = [from EXCEPT ![c] = account[k]]
        /\ tx' = [tx EXCEPT ![c] = "pending"]
  /\ UNCHANGED <<contract, client, todo, seen, before, registrations>>

SendRegisterVehicle(c, k, o) == o.fn = "registerVehicle" /\ Send(c, k, o, TRUE)

SendSubmitV2XMessage(c, k, o) == o.fn = "submitV2XMessage" /\ Send(c, k, o, Validate(o))

SendSubmitSecurityAlert(c, k, o) == o.fn = "submitSecurityAlert" /\ Send(c, k, o, TRUE)

Apply(c) ==
  \/ Is(c, {"registerVehicle"}) /\ RegisterVehicle(from[c], op[c].id)
  \/ Is(c, {"submitV2XMessage"}) /\ SubmitV2XMessage(from[c], op[c].id, c, op[c].priority)
  \/ Is(c, {"submitSecurityAlert"}) /\ SubmitSecurityAlert(from[c], op[c].id, c)

(* c's transaction is in a block.  Nonces are asked for when a transaction *)
(* is prepared, which calls of one account do concurrently: no order of    *)
(* theirs is assumed.                                                      *)
Mine(c) ==
  /\ tx[c] = "pending"
  /\ \/ /\ Apply(c)
        /\ tx' = [tx EXCEPT ![c] = "mined"]
     \/ /\ Reverts(from[c], op[c]) # None
        /\ tx' = [tx EXCEPT ![c] = Reverts(from[c], op[c])]
        /\ UNCHANGED contract
  /\ UNCHANGED <<client, call, registrations>>

(* A mutant of Confirmed: the transaction's hash is enough. *)
Hashed(c) == tx[c] \in {"pending", "mined"}

Confirmed(c) == tx[c] = "mined"

(* A mutant of RecordVehicleRegistration: every write is counted. *)
RecordWrite(c) ==
  registrations' = IF ClientOf[c] \in instruments THEN registrations + 1 ELSE registrations

(* A telemetry that is being set up has no counter to add to. *)
RecordVehicleRegistration(c) ==
  registrations' = IF Is(c, {"registerVehicle"}) /\ ClientOf[c] \in instruments
                   THEN registrations + 1 ELSE registrations

(* The receipt is there. *)
Receive(c) ==
  /\ pc[c] = "sent"
  /\ \/ /\ Confirmed(c)
        /\ Goto(c, "ok")
        /\ RecordVehicleRegistration(c)
     \/ /\ tx[c] \notin {"none", "pending", "mined"}
        /\ \E l \in Ended : OnRevert(op[c], tx[c], l) /\ Goto(c, l)
        /\ UNCHANGED registrations
  /\ UNCHANGED <<contract, client, op, from, tx, todo, seen, before>>

(* The node does not answer, or no receipt came in time; the transaction   *)
(* may still be mined.                                                     *)
Fail(c) ==
  /\ pc[c] \in {"sent", "asked", "reading"}
  /\ Goto(c, "failed")
  /\ UNCHANGED <<contract, client, op, from, tx, todo, seen, before, registrations>>

-----------------------------------------------------------------------------
(* The reads. *)

(* Which write a read is about. *)
About(fn) ==
  CASE fn \in {"getV2XMessage", "messageExists", "getAllV2XMessages", "getMessageCount"} ->
         "submitV2XMessage"
    [] fn \in {"getSecurityAlert", "getAllSecurityAlerts", "getAlertCount"} ->
         "submitSecurityAlert"
    [] OTHER -> "registerVehicle"

(* What such a write has stored: the ids, and whether one is found. *)
Stock(fn) == CASE About(fn) = "submitV2XMessage" -> messageIds
               [] About(fn) = "submitSecurityAlert" -> alertIds
               [] About(fn) = "registerVehicle" -> vehicleIds

Found(fn, i) == CASE About(fn) = "submitV2XMessage" -> MessageExists(i)
                  [] About(fn) = "submitSecurityAlert" -> AlertExists(i)
                  [] About(fn) = "registerVehicle" -> IsVehicleRegistered(i)

Ask(c, k, o) ==
  /\ k = ClientOf[c] /\ o.fn \notin Writers
  /\ Begin(c, o, IF k \in bound THEN "asked" ELSE "failed")
  /\ before' = [before EXCEPT ![c] = Succeeded]
  /\ UNCHANGED <<contract, client, tx, from, todo, seen, registrations>>

Return(c, ids) == seen' = [seen EXCEPT ![c] = ids]

(* One read of the contract answers.  That a message is not found is told  *)
(* from other errors, that a vehicle or an alert is not found is not.      *)
GetV2XMessage(c) ==
  /\ Is(c, {"getV2XMessage"})
  /\ \/ MessageExists(op[c].id) /\ Goto(c, "ok") /\ Return(c, <<op[c].id>>)
     \/ ~MessageExists(op[c].id) /\ Goto(c, "notFound") /\ UNCHANGED seen

GetRecord(c) ==
  /\ Is(c, {"getVehicle", "getSecurityAlert"})
  /\ \/ Found(op[c].fn, op[c].id) /\ Goto(c, "ok") /\ Return(c, <<op[c].id>>)
     \/ ~Found(op[c].fn, op[c].id) /\ Goto(c, "reverted") /\ UNCHANGED seen

Check(c) ==
  /\ Is(c, Checks)
  /\ Goto(c, "ok")
  /\ Return(c, IF Found(op[c].fn, op[c].id) THEN <<op[c].id>> ELSE <<>>)

(* The caller gets the length. *)
Count(c) == Is(c, Counts) /\ Goto(c, "ok") /\ Return(c, Stock(op[c].fn))

Get(c) ==
  /\ pc[c] = "asked"
  /\ GetV2XMessage(c) \/ GetRecord(c) \/ Check(c) \/ Count(c)
  /\ UNCHANGED <<contract, client, op, from, tx, todo, before, registrations>>

(* A listing has the ids, and reads them one by one from here on. *)
ListIds(c) ==
  /\ pc[c] = "asked" /\ Is(c, Listings)
  /\ todo' = [todo EXCEPT ![c] = Stock(op[c].fn)]
  /\ Goto(c, IF todo'[c] = <<>> THEN "ok" ELSE "reading")
  /\ UNCHANGED <<contract, client, op, from, tx, seen, before, registrations>>

(* A mutant of OnMissing: every listing fails. *)
FailAtMissing(c, rest) == "reverted"

(* A mutant of OnMissing: the listing of messages stops there. *)
StopAtMissing(c, rest) == IF Is(c, {"getAllV2XMessages"}) THEN "ok" ELSE "reverted"

(* What becomes of a listing when an id is not found: only the one of      *)
(* messages goes on to the rest.                                           *)
OnMissing(c, rest) == IF ~Is(c, {"getAllV2XMessages"}) THEN "reverted"
                      ELSE IF rest = <<>> THEN "ok" ELSE "reading"

ReadNext(c) ==
  /\ pc[c] = "reading"
  /\ LET i == Head(todo[c])
         rest == Tail(todo[c])
     IN /\ todo' = [todo EXCEPT ![c] = rest]
        /\ \/ /\ Found(op[c].fn, i)
              /\ Return(c, Append(seen[c], i))
              /\ Goto(c, IF rest = <<>> THEN "ok" ELSE "reading")
           \/ /\ ~Found(op[c].fn, i)
              /\ UNCHANGED seen
              /\ Goto(c, OnMissing(c, rest))
  /\ UNCHANGED <<contract, client, op, from, tx, before, registrations>>

(* Every call was made and has ended, and every transaction was mined. *)
Done == /\ \A c \in Calls : pc[c] \in Ended /\ tx[c] # "pending"
        /\ UNCHANGED vars

Next == \/ \E k \in Clients :
             \/ Initialize(k) \/ LoadContract(k) \/ LoadAccount(k)
             \/ \E c \in Calls : \E o \in Ops[c] :
                  \/ SendRegisterVehicle(c, k, o) \/ SendSubmitV2XMessage(c, k, o)
                  \/ SendSubmitSecurityAlert(c, k, o) \/ Ask(c, k, o)
        \/ \E c \in Calls : \/ Mine(c) \/ Receive(c) \/ Fail(c)
                            \/ Get(c) \/ ListIds(c) \/ ReadNext(c)
        \/ Done

Spec == Init /\ [][Next]_vars

-----------------------------------------------------------------------------
(* The properties of the component. *)

(* What each variable holds.  No transaction is sent without an account,   *)
(* and a client that has come to its account has a contract object.        *)
TypeOK ==
  /\ stage \in [Clients -> {"new", "telemetry", "accounts", "ready", "failed"}]
  /\ inits \in [Clients -> 0..MaxInits]
  /\ \A k \in Clients : stage[k] \in {"accounts", "ready"} => k \in bound
  /\ bound \union instruments \subseteq Clients
  /\ account \in [Clients -> Accounts \union {None}]
  /\ registrations \in Nat
  /\ \A c \in Calls : op[c] \in Ops[c] \union {None}
  /\ pc \in [Calls -> {"idle", "sent", "asked", "reading"} \union Ended]
  /\ \A c \in Calls : tx[c] # "none" <=> from[c] \in Accounts
  /\ \A c \in Calls : todo[c] \in Seq(Ids) /\ seen[c] \in Seq(Ids)
  /\ before \in [Calls -> SUBSET Calls]

(* c's write is on the chain: its account has the vehicle, its content is  *)
(* under the id.  (What has the empty id may be stored over.)              *)
OnChain(c) ==
  CASE op[c].fn = "registerVehicle" -> vehicles[op[c].id] = from[c]
    [] op[c].fn = "submitV2XMessage" -> op[c].id \in Proper => v2xMessages[op[c].id].content = c
    [] op[c].fn = "submitSecurityAlert" ->
         op[c].id \in Proper => securityAlerts[op[c].id].content = c

(* A write answered with success is on the chain as this call's, for good. *)
(* So of several clients that submit one id one succeeds, whatever the     *)
(* order of mining and whoever gave up meanwhile.                          *)
SuccessIsMined == \A c \in Succeeded : OnChain(c)

(* REPLAY_ATTACK_DETECTED is only answered for a message that is stored,   *)
(* and never for a message of the empty id.                                *)
ReplayIsStored == \A c \in Calls : pc[c] = "replay" => MessageExists(op[c].id)

(* What a client reads of the contract has in it every write, its own or   *)
(* another client's, that had succeeded when the read was made: a listing  *)
(* is complete although other transactions are mined while it reads, and   *)
(* names no id twice.  A write of the empty id is counted only.            *)
ReadsSeeWrites ==
  \A c \in {r \in Calls : Is(r, Functions \ Writers)} :
    /\ \A d \in before[c] :
         Is(d, {About(op[c].fn)}) /\ op[d].id \in Proper =>
           /\ pc[c] = "ok" /\ (Is(c, Listings \union Counts) \/ op[c].id = op[d].id) =>
                op[d].id \in {seen[c][n] : n \in 1..Len(seen[c])}
           /\ op[c].id = op[d].id => pc[c] # "notFound"
    /\ Is(c, Listings) => \A m, n \in 1..Len(seen[c]) : seen[c][m] = seen[c][n] => m = n

(* One alert stored under the empty id makes every later listing of alerts *)
(* fail for good; nothing else does, and no listing of vehicles or of      *)
(* messages ever fails of what is stored.                                  *)
EmptyAlertPoisons ==
  \A c \in Calls : Is(c, Listings) =>
    /\ pc[c] = "reverted" =>
         Is(c, {"getAllSecurityAlerts"}) /\ Indices(alertIds, Empty) # {}
    /\ Is(c, {"getAllSecurityAlerts"}) /\ pc[c] = "ok" =>
         \A d \in before[c] : ~(Is(d, {"submitSecurityAlert"}) /\ op[d].id = Empty)

Registered == {c \in Succeeded : Is(c, {"registerVehicle"})}

(* The exported number of vehicles registered is never above the number    *)
(* of vehicles on the chain.  It misses the ones whose call timed out and  *)
(* the ones answered while the client was being initialized again, and no  *)
(* others.                                                                 *)
RegistrationsCounted ==
  /\ registrations <= Len(vehicleIds)
  /\ (\A k \in Clients : inits[k] <= 1) => registrations = Cardinality(Registered)

=============================================================================
