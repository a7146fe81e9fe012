---------------------------- MODULE MCIotaClient ----------------------------
(* Small instances of IotaClient. *)
EXTENDS IotaClient, TLC

CONSTANTS start, w, q,           \* the calls
          b1, b2, b3,            \* the blocks of others
          i, j, brake, car, bus  \* ids, a type of message, and senders

O(f, a) == [fn |-> f, arg |-> a, valid |-> TRUE]

Data(n) == [id |-> n, kind |-> brake, sender |-> car]

(* One call goes first; one writes; one reads, or is refused. *)
WriteOps == {O("submitV2XMessage", Data(i)), O("registerVehicle", Data(car)),
             O("submitSecurityAlert", Data(i))}
OtherOps == {O("getV2XMessage", i), O("getVehicle", car), O("getSecurityAlert", i),
             O("getAllV2XMessages", None), O("getAllVehicles", None),
             O("getAllSecurityAlerts", None),
             O("queryV2XMessagesByType", brake), O("queryV2XMessagesBySender", bus),
             O("queryMessagesByTag", "ITS_V2X"), O("queryBlock", b1), O("queryBlock", w),
             O("getNodeInfo", None), O("getNetworkHealth", None),
             [fn |-> "submitV2XMessage", arg |-> Data(j), valid |-> FALSE]}

MCOps == (start :> {O("initialize", None)}) @@ (w :> WriteOps) @@ (q :> OtherOps)

(* Others post something that is not JSON, an alert under the tag of the   *)
(* messages, and a second message of the same id.                          *)
MCBlockOf == (b1 :> [tag |-> "ITS_V2X", type |-> "garbage", data |-> None])
          @@ (b2 :> [tag |-> "ITS_V2X", type |-> "SECURITY_ALERT", data |-> Data(i)])
          @@ (b3 :> [tag |-> "ITS_V2X", type |-> "V2X_MESSAGE", data |-> Data(i)])

=============================================================================
