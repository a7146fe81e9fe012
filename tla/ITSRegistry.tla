----------------------------- MODULE ITSRegistry -----------------------------
(***************************************************************************)
(* The ITS contract (ethereum-poa/contracts/ITSRegistry.sol).  Each of its *)
(* functions is one atomic step of the chain, or reverts.  Ids are strings *)
(* and the contract tells what is taken by the length of the id stored     *)
(* there, so the empty id is among them.  What a message or an alert says  *)
(* is its content; its time and block are left out.                        *)
(***************************************************************************)
EXTENDS Integers, Sequences, FiniteSets

CONSTANTS
  Accounts,   \* the addresses that send transactions
  Ids,        \* the strings used as ids, of vehicles, messages and alerts
  Empty,      \* the empty string, one of them
  Contents,   \* what messages and alerts may say
  None        \* no account, no content, no revert reason

(* Why a function of the contract may revert. *)
Reasons == {"Vehicle already registered", "Address already registered",
            "Vehicle not registered", "replay attack", "Invalid priority level",
            "Alert ID already exists"}

ASSUME RegistryAssumption == /\ Empty \in Ids
                             /\ None \notin Reasons
                             /\ None \notin Accounts \union Contents
                             /\ None \notin [vehicle : Ids, content : Contents]

VARIABLES
  vehicles,             \* the address each vehicle id is registered to
  addressToVehicleId,   \* the vehicle id of each address
  v2xMessages,          \* the message stored under each id
  securityAlerts,       \* the alert stored under each id
  vehicleIds, messageIds, alertIds   \* the ids in the order they were stored

contract == <<vehicles, addressToVehicleId, v2xMessages, securityAlerts,
              vehicleIds, messageIds, alertIds>>

(* A stored message or alert: its own id, its vehicle, and what it says.   *)
(* What was never stored reads as empty strings.                           *)
Stored(i, v, x) == [id |-> i, vehicle |-> v, content |-> x]
Blank == Stored(Empty, Empty, None)

RegistryInit ==
  /\ vehicles = [i \in Ids |-> None]
  /\ addressToVehicleId = [a \in Accounts |-> Empty]
  /\ v2xMessages = [i \in Ids |-> Blank]
  /\ securityAlerts = [i \in Ids |-> Blank]
  /\ vehicleIds = <<>> /\ messageIds = <<>> /\ alertIds = <<>>

IsVehicleRegistered(i) == vehicles[i] # None
RegisteredVehicle(a) == addressToVehicleId[a] # Empty
MessageExists(i) == v2xMessages[i].id # Empty
AlertExists(i) == securityAlerts[i].id # Empty

(* A mutant of RegisterReverts: an address has one vehicle, a vehicle many. *)
RegisterRevertsByAddress(a, i) ==
  IF RegisteredVehicle(a) THEN "Address already registered" ELSE None

(* Why a call would revert, None if it would not. *)
RegisterReverts(a, i) ==
  IF IsVehicleRegistered(i) THEN "Vehicle already registered"
  ELSE IF RegisteredVehicle(a) THEN "Address already registered" ELSE None

(* A mutant of MessageReverts: onlyRegisteredVehicle is forgotten. *)
MessageRevertsOfAnyone(a, i, priority) ==
  IF MessageExists(i) THEN "replay attack"
  ELSE IF priority > 2 THEN "Invalid priority level" ELSE None

MessageReverts(a, i, priority) ==
  IF ~RegisteredVehicle(a) THEN "Vehicle not registered"
  ELSE IF MessageExists(i) THEN "replay attack"
  ELSE IF priority > 2 THEN "Invalid priority level" ELSE None

(* A mutant of AlertReverts: the id is looked for among the messages. *)
AlertRevertsByMessage(a, i) ==
  IF ~RegisteredVehicle(a) THEN "Vehicle not registered"
  ELSE IF MessageExists(i) THEN "Alert ID already exists" ELSE None

AlertReverts(a, i) ==
  IF ~RegisteredVehicle(a) THEN "Vehicle not registered"
  ELSE IF AlertExists(i) THEN "Alert ID already exists" ELSE None

RegisterVehicle(a, i) ==
  /\ RegisterReverts(a, i) = None
  /\ vehicles' = [vehicles EXCEPT ![i] = a]
  /\ addressToVehicleId' = [addressToVehicleId EXCEPT ![a] = i]
  /\ vehicleIds' = Append(vehicleIds, i)
  /\ UNCHANGED <<v2xMessages, securityAlerts, messageIds, alertIds>>

SubmitV2XMessage(a, i, x, priority) ==
  /\ MessageReverts(a, i, priority) = None
  /\ v2xMessages' = [v2xMessages EXCEPT ![i] = Stored(i, addressToVehicleId[a], x)]
  /\ messageIds' = Append(messageIds, i)
  /\ UNCHANGED <<vehicles, addressToVehicleId, securityAlerts, vehicleIds, alertIds>>

SubmitSecurityAlert(a, i, x) ==
  /\ AlertReverts(a, i) = None
  /\ securityAlerts' = [securityAlerts EXCEPT ![i] = Stored(i, addressToVehicleId[a], x)]
  /\ alertIds' = Append(alertIds, i)
  /\ UNCHANGED <<vehicles, addressToVehicleId, v2xMessages, vehicleIds, messageIds>>

-----------------------------------------------------------------------------
(* The properties of the contract. *)

Proper == Ids \ {Empty}

Indices(s, i) == {n \in 1..Len(s) : s[n] = i}

(* The lists an application pages through agree with the mappings they     *)
(* index: whatever has a proper id is listed exactly once, and nothing     *)
(* else is; only the empty id can be listed again and again, as a message  *)
(* or an alert (it is stored over each time, and never found).             *)
ListsMatchMappings ==
  /\ \A i \in Ids : Cardinality(Indices(vehicleIds, i)) = IF IsVehicleRegistered(i) THEN 1 ELSE 0
  /\ \A i \in Proper :
       /\ Cardinality(Indices(messageIds, i)) = IF MessageExists(i) THEN 1 ELSE 0
       /\ Cardinality(Indices(alertIds, i)) = IF AlertExists(i) THEN 1 ELSE 0

(* A vehicle with a proper id and its address name each other, so an       *)
(* address speaks for one such vehicle, even when it registered the empty  *)
(* id before (which leaves the address as if it had registered nothing).   *)
AddressesMatchVehicles ==
  /\ \A i \in Proper : IsVehicleRegistered(i) => addressToVehicleId[vehicles[i]] = i
  /\ \A a \in Accounts : RegisteredVehicle(a) => vehicles[addressToVehicleId[a]] = a

(* The contract as a VehicleRegistry, the empty id left out. *)
PostsOf(m) == [i \in Proper |-> IF m[i].id = Empty THEN None
                                ELSE [vehicle |-> m[i].vehicle, content |-> m[i].content]]

Registry == INSTANCE VehicleRegistry WITH
              Owners <- Accounts, Names <- Proper, Nothing <- None,
              owner <- [i \in Proper |-> vehicles[i]],
              messages <- PostsOf(v2xMessages), alerts <- PostsOf(securityAlerts)

(* Every transaction, in whatever order they are mined, is a step of a     *)
(* registry in which a vehicle has one owner for good, an owner one        *)
(* vehicle, and posts are made once and for vehicles that have an owner.   *)
ImplementsRegistry == Registry!RegistrySpec

=============================================================================
