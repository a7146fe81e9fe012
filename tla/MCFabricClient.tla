--------------------------- MODULE MCFabricClient ---------------------------
(* Small instances of FabricClient. *)
EXTENDS FabricClient, TLC

CONSTANTS v, m   \* the id of a vehicle, the id of a message

Message(ok) == [fn |-> "submitV2XMessage", key |-> m, needs |-> {v}, valid |-> ok]

(* A vehicle, its message, an alert that takes the message's id, a message *)
(* the client refuses, and each kind of read.                              *)
Plainly(f, k) == [fn |-> f, key |-> k, needs |-> {}, valid |-> TRUE]

MCOps == {Message(TRUE), Message(FALSE),
          Plainly("registerVehicle", v), Plainly("submitSecurityAlert", m),
          Plainly("getV2XMessage", m), Plainly("getVehicle", v),
          Plainly("queryMessages", m), Plainly("getAll", v), Plainly("collectMetrics", m)}

Interchangeable == Permutations(Calls) \union Permutations(Peers)

=============================================================================
