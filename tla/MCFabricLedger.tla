--------------------------- MODULE MCFabricLedger ---------------------------
(* Small instances of FabricLedger. *)
EXTENDS FabricLedger, TLC

CONSTANTS v, m   \* the id of a vehicle, the id of a message

Register(k) == [fn |-> "RegisterVehicle", key |-> k, vehicle |-> k, decodes |-> TRUE]
Message(k, s, d) == [fn |-> "SubmitV2XMessage", key |-> k, vehicle |-> s, decodes |-> d]
Alert(k, s) == [fn |-> "SubmitSecurityAlert", key |-> k, vehicle |-> s, decodes |-> TRUE]

(* A vehicle, its message, a message that claims the vehicle's id, one     *)
(* that does not decode, and an alert about the vehicle.                   *)
MCOps == {Register(v), Message(m, v, TRUE), Message(v, m, TRUE), Message(m, v, FALSE), Alert(m, v)}

Interchangeable == Permutations(Txs) \union Permutations(Peers)

=============================================================================
