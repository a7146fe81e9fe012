-------------------------- MODULE MCEthereumClient --------------------------
(* Small instances of EthereumClient. *)
EXTENDS EthereumClient, TLC

CONSTANTS x, a1, a2, k1, k2, r

O(f, i, p) == [fn |-> f, id |-> i, priority |-> p]

WriteOps == {O(f, i, 0) : f \in {"submitV2XMessage", "submitSecurityAlert"}, i \in Ids}
            \union {O("registerVehicle", x, 0)}
OtherOps == {O(f, x, 0) : f \in {"getV2XMessage", "getVehicle", "messageExists", "getMessageCount"}
                                  \union Listings}
            \union {O("registerVehicle", i, 0) : i \in Ids}
            \union {O("submitV2XMessage", x, 3)}

(* Three writes on one client; on another a read, or a write that competes *)
(* or is invalid.                                                          *)
MCOps == [c \in Calls |-> IF c = r THEN OtherOps ELSE WriteOps]
MCClientOf == [c \in Calls |-> IF c = r THEN k2 ELSE k1]

(* The first client has a private key, the second uses the node's account. *)
MCKeyOf == (k1 :> a1) @@ (k2 :> None)

Interchangeable == Permutations(Calls \ {r})

=============================================================================
