---------------------------- MODULE FabricClient ----------------------------
(***************************************************************************)
(* One FabricClient object (hyperledger-fabric/client/nodejs/index.js) and *)
(* the calls an application makes on it.  JavaScript runs one call at a    *)
(* time, up to its next await; at an await any other call may go on.  So   *)
(* an action here is what a call does between two awaits, and the fields   *)
(* of the object are shared by all of them.                                *)
(*                                                                         *)
(* The channel the calls reach is a WriteOnceLedger, which is what the     *)
(* endorsements, blocks and validation of FabricLedger come to.  The       *)
(* gateways, and when the SDK answers, are fabric-network's, modelled from *)
(* how the client uses them.                                               *)
(***************************************************************************)
EXTENDS Integers, FiniteSets

CONSTANTS
  Calls,   \* the calls of the application; a connect names its gateway too
  Keys,    \* the keys of the ledger
  Peers,   \* the peers of the organisation
  Ops,     \* what may be called besides connect and disconnect
  None     \* null

Writers == {"registerVehicle", "submitV2XMessage", "submitSecurityAlert"}
Getters == {"getV2XMessage", "getVehicle"}
Queries == {"queryMessages", "getAll", "collectMetrics"}

(* A call names the key it writes or reads, the keys that must be there    *)
(* for it, and whether its message passes the client's validation.         *)
Op(fns) == [fn : fns, key : Keys, needs : SUBSET Keys, valid : BOOLEAN]

Plain(f) == [fn |-> f, key |-> None, needs |-> {}, valid |-> TRUE]

ASSUME ClientAssumption ==
  /\ Ops \subseteq Op(Writers \union Getters \union Queries)
  /\ None \notin Calls \union Keys \union Ops \union {Plain("connect"), Plain("disconnect")}
  /\ None \notin [key : Keys, needs : SUBSET Keys]
  /\ IsFiniteSet(Calls)

VARIABLES
  op,          \* what each call is, None before it is made
  pc,          \* the await each call is at, or how it ended
  using,       \* the gateway a call took from the object before its await
  gateway, network, contract, telemetry,   \* the fields of the object
  conn,        \* the state of the gateway each connect creates
  instruments, \* the telemetry objects whose instruments exist
  gauge,       \* fabric.gateway.connections, as exported
  habit,       \* how the application connects: see Tidy
  request, record, copies   \* the ledger

client == <<gateway, network, contract, telemetry, instruments, gauge, habit, conn>>
ledger == <<request, record, copies>>
vars == <<op, pc, using, client, ledger>>

Ledger == INSTANCE WriteOnceLedger WITH
            Writes <- Calls, Replicas <- Peers, Nothing <- None

Connecting == {"initialize", "wallet", "dial", "channel"}
Disconnecting == {"closing", "shutdown"}
Ended == {"ok", "replay", "notFound", "thrown"}

Init == /\ op = [c \in Calls |-> None]
        /\ pc = [c \in Calls |-> "idle"]
        /\ using = [c \in Calls |-> None]
        /\ gateway = None /\ network = None /\ contract = None /\ telemetry = None
        /\ conn = [c \in Calls |-> "absent"]
        /\ instruments = {}
        /\ gauge = 0
        /\ habit = "apart"
        /\ Ledger!LedgerInit

(* Call c reaches its next await, or ends. *)
Goto(c, l) == pc' = [pc EXCEPT ![c] = l]

Begin(c, o, l) == /\ pc[c] = "idle"
                  /\ op' = [op EXCEPT ![c] = o]
                  /\ Goto(c, l)

Is(c, fns) == op[c] # None /\ op[c].fn \in fns

(* A connect or disconnect is under way. *)
Busy == \E c \in Calls : pc[c] \in Connecting \union Disconnecting

(* The application has awaited each connect and disconnect before the next *)
(* and connects, after the first time, only after a disconnect that did    *)
(* not throw.                                                              *)
Tidy == habit # "untidy"

-----------------------------------------------------------------------------
(* Telemetry, as far as the exported count of connections goes. *)

InitializeTelemetry(c, works) ==
  instruments' = IF works THEN instruments \union {c} ELSE instruments

(* A mutant of UpdateGatewayConnections: the counter only goes up. *)
CountUp(delta) ==
  gauge' = IF telemetry \in instruments THEN gauge + 1 ELSE gauge

(* A mutant of UpdateGatewayConnections: the call and the telemetry both   *)
(* count.                                                                  *)
CountTwice(delta) ==
  gauge' = IF telemetry \in instruments THEN gauge + 2 * delta ELSE gauge

(* Without its instruments the telemetry drops the update. *)
UpdateGatewayConnections(delta) ==
  gauge' = IF telemetry \in instruments THEN gauge + delta ELSE gauge

-----------------------------------------------------------------------------
(* connect *)

ConnectBegin(c) ==
  /\ Begin(c, Plain("connect"), "initialize")
  /\ telemetry' = c
  /\ habit' = IF habit = "apart" /\ ~Busy THEN "connected" ELSE "untidy"
  /\ UNCHANGED <<using, gateway, network, contract, instruments, gauge, conn, ledger>>

(* Telemetry is up, or not; then the connection profile is there, or not.  *)
LoadProfile(c) ==
  /\ pc[c] = "initialize"
  /\ \E works, found \in BOOLEAN :
       /\ InitializeTelemetry(c, works)
       /\ Goto(c, IF works /\ found THEN "wallet" ELSE "thrown")
  /\ UNCHANGED <<op, using, gateway, network, contract, telemetry, gauge, habit, conn, ledger>>

(* The identity is in the wallet, and a new gateway replaces the old one.  *)
OpenWallet(c) ==
  /\ pc[c] = "wallet"
  /\ \/ /\ Goto(c, "thrown")
        /\ UNCHANGED <<gateway, conn>>
     \/ /\ Goto(c, "dial")
        /\ gateway' = c
        /\ conn' = [conn EXCEPT ![c] = "made"]
  /\ UNCHANGED <<op, using, network, contract, telemetry, instruments, gauge, habit, ledger>>

(* c's own gateway is connected; the network is asked of whichever gateway *)
(* the object holds by now, which may be another connect's or null.        *)
Dialled(c) ==
  /\ pc[c] = "dial"
  /\ \/ /\ Goto(c, "thrown")
        /\ UNCHANGED <<using, conn>>
     \/ /\ conn' = [conn EXCEPT ![c] = "open"]
        /\ IF gateway \in {g \in Calls : conn'[g] # "made"}
           THEN Goto(c, "channel") /\ using' = [using EXCEPT ![c] = gateway]
           ELSE Goto(c, "thrown") /\ UNCHANGED using
  /\ UNCHANGED <<op, gateway, network, contract, telemetry, instruments, gauge, habit, ledger>>

JoinChannel(c) ==
  /\ pc[c] = "channel"
  /\ \/ /\ Goto(c, "thrown")
        /\ UNCHANGED <<network, contract, gauge>>
     \/ /\ Goto(c, "ok")
        /\ network' = using[c]
        /\ contract' = using[c]
        /\ UpdateGatewayConnections(1)
  /\ UNCHANGED <<op, using, gateway, telemetry, instruments, habit, conn, ledger>>

-----------------------------------------------------------------------------
(* disconnect *)

(* A mutant of ToDisconnect: only a complete connection is taken down. *)
CompleteOnly == contract # None

ToDisconnect == gateway # None

(* Mutants of Clear: the network is forgotten about, or network and        *)
(* contract are, since _ensureConnected refuses a null gateway anyway.     *)
ClearAllButNetwork == gateway' = None /\ contract' = None /\ UNCHANGED network
ClearGateway == gateway' = None /\ UNCHANGED <<network, contract>>

Clear == gateway' = None /\ network' = None /\ contract' = None

DisconnectBegin(c) ==
  /\ \/ /\ ~ToDisconnect
        /\ Begin(c, Plain("disconnect"), "ok")
        /\ habit' = IF Tidy /\ ~Busy THEN "apart" ELSE "untidy"
        /\ UNCHANGED conn
     \/ /\ ToDisconnect
        /\ Begin(c, Plain("disconnect"), "thrown")
        /\ habit' = IF Busy THEN "untidy" ELSE habit
        /\ UNCHANGED conn
     \/ /\ ToDisconnect
        /\ Begin(c, Plain("disconnect"), "closing")
        /\ habit' = IF Tidy /\ ~Busy THEN "apart" ELSE "untidy"
        /\ conn' = [conn EXCEPT ![gateway] = "closed"]
  /\ UNCHANGED <<using, gateway, network, contract, telemetry, instruments, gauge, ledger>>

(* Whatever the fields hold by now is cleared. *)
DisconnectEnd(c) ==
  /\ pc[c] = "closing"
  /\ Goto(c, "shutdown")
  /\ Clear
  /\ UpdateGatewayConnections(-1)
  /\ UNCHANGED <<op, using, telemetry, instruments, habit, conn, ledger>>

(* The telemetry is shut down; its errors are swallowed. *)
Shutdown(c) ==
  /\ pc[c] = "shutdown"
  /\ Goto(c, "ok")
  /\ UNCHANGED <<op, using, client, ledger>>

-----------------------------------------------------------------------------
(* The other calls. *)

EnsureConnected == gateway # None /\ contract # None

Validate(o) == o.fn = "submitV2XMessage" => o.valid

(* Check and use are one step: the contract a call takes is the one that   *)
(* was there when it checked.                                              *)
Send(c, o, checked) ==
  /\ \/ /\ ~checked
        /\ Begin(c, o, "thrown")
        /\ UNCHANGED using
     \/ /\ checked
        /\ Begin(c, o, "sent")
        /\ using' = [using EXCEPT ![c] = contract]
  /\ UNCHANGED <<client, ledger>>

RegisterVehicle(c, o) == o.fn = "registerVehicle" /\ Send(c, o, EnsureConnected)

SubmitV2XMessage(c, o) ==
  o.fn = "submitV2XMessage" /\ Send(c, o, EnsureConnected /\ Validate(o))

SubmitSecurityAlert(c, o) == o.fn = "submitSecurityAlert" /\ Send(c, o, EnsureConnected)

GetV2XMessage(c, o) == o.fn = "getV2XMessage" /\ Send(c, o, EnsureConnected)

GetVehicle(c, o) == o.fn = "getVehicle" /\ Send(c, o, EnsureConnected)

(* queryMessagesByType, queryMessagesBySender *)
QueryMessages(c, o) == o.fn = "queryMessages" /\ Send(c, o, EnsureConnected)

(* getAllVehicles, getAllSecurityAlerts *)
GetAll(c, o) == o.fn = "getAll" /\ Send(c, o, EnsureConnected)

(* This one has no await. *)
CollectMetrics(c, o) ==
  /\ o.fn = "collectMetrics"
  /\ Begin(c, o, IF EnsureConnected /\ network # None THEN "ok" ELSE "thrown")
  /\ UNCHANGED <<using, client, ledger>>

(* A mutant of Fail: a getter's catch does not look at the error's text. *)
FailAsNotFound(c) ==
  /\ pc[c] = "sent"
  /\ Goto(c, IF Is(c, Getters) THEN "notFound" ELSE "thrown")
  /\ UNCHANGED <<op, using, client, ledger>>

(* The network no longer answers, or says so too late: the error is thrown *)
(* on, whatever the call.                                                  *)
Fail(c) ==
  /\ pc[c] = "sent"
  /\ Goto(c, "thrown")
  /\ UNCHANGED <<op, using, client, ledger>>

Reaches(c) == pc[c] = "sent" /\ conn[using[c]] = "open"

Holds(p, k) == copies[p][k] # None

(* A mutant of OnError: an error that says "does not exist" will do, too. *)
AnyErrorIsReplay(c, error) ==
  IF Is(c, {"submitV2XMessage"}) THEN "replay" ELSE "thrown"

(* What the caller gets of the chaincode's error. *)
OnError(c, error) ==
  IF Is(c, {"submitV2XMessage"}) /\ error = "already exists" THEN "replay" ELSE "thrown"

(* A peer runs the chaincode for a submission: its answer is an error, or  *)
(* the transaction is on its way to be ordered.                            *)
Endorse(c, p) ==
  /\ Reaches(c) /\ Is(c, Writers) /\ request[c] = None
  /\ \/ /\ Holds(p, op[c].key)
        /\ Goto(c, OnError(c, "already exists"))
        /\ UNCHANGED ledger
     \/ /\ ~Holds(p, op[c].key)
        /\ \E k \in op[c].needs : ~Holds(p, k)
        /\ Goto(c, OnError(c, "does not exist"))
        /\ UNCHANGED ledger
     \/ /\ ~Holds(p, op[c].key)
        /\ \A k \in op[c].needs : Holds(p, k)
        /\ Ledger!Ask(c, op[c].key, op[c].needs)
        /\ UNCHANGED pc
  /\ UNCHANGED <<op, using, client>>

(* A peer commits c's transaction, whatever became of the call. *)
Commit(c, p) ==
  /\ Ledger!Write(p, c) \/ Ledger!Follow(p, c)
  /\ UNCHANGED <<op, pc, using, client>>

(* Every peer has reported the transaction valid.  (fabric-network asks    *)
(* those it is connected to, which here are all of them.)                  *)
Committed(c) == \A p \in Peers : copies[p][op[c].key] = c

(* Some peer has reported it invalid: another transaction has its key. *)
Invalidated(c) == \E p \in Peers : copies[p][op[c].key] \notin {None, c}

(* The peers' commit events answer a submission. *)
AnswerSubmit(c) ==
  /\ Reaches(c) /\ Is(c, Writers) /\ request[c] # None
  /\ \/ Committed(c) /\ Goto(c, "ok")
     \/ Invalidated(c) /\ Goto(c, OnError(c, "MVCC_READ_CONFLICT"))
  /\ UNCHANGED <<op, using, client, ledger>>

(* One peer answers a read. *)
AnswerEvaluate(c, p) ==
  /\ Reaches(c)
  /\ \/ Is(c, Getters) /\ Goto(c, IF Holds(p, op[c].key) THEN "ok" ELSE "notFound")
     \/ Is(c, Queries) /\ Goto(c, "ok")
  /\ UNCHANGED <<op, using, client, ledger>>

(* Every call was made and has ended. *)
Done == (\A c \in Calls : pc[c] \in Ended) /\ UNCHANGED vars

Next == \/ \E c \in Calls :
             \/ ConnectBegin(c) \/ LoadProfile(c) \/ OpenWallet(c) \/ Dialled(c) \/ JoinChannel(c)
             \/ DisconnectBegin(c) \/ DisconnectEnd(c) \/ Shutdown(c)
             \/ \E o \in Ops :
                  \/ RegisterVehicle(c, o) \/ SubmitV2XMessage(c, o) \/ SubmitSecurityAlert(c, o)
                  \/ GetV2XMessage(c, o) \/ GetVehicle(c, o) \/ QueryMessages(c, o) \/ GetAll(c, o)
                  \/ CollectMetrics(c, o)
             \/ Fail(c) \/ AnswerSubmit(c)
             \/ \E p \in Peers : Endorse(c, p) \/ Commit(c, p) \/ AnswerEvaluate(c, p)
        \/ Done

Spec == Init /\ [][Next]_vars

-----------------------------------------------------------------------------
(* The properties of the component. *)

(* What each variable holds; the exported count stays within the number of *)
(* calls, either way.                                                      *)
TypeOK ==
  /\ op \in [Calls -> Ops \union {None, Plain("connect"), Plain("disconnect")}]
  /\ pc \in [Calls -> {"idle", "sent"} \union Connecting \union Disconnecting \union Ended]
  /\ using \in [Calls -> Calls \union {None}]
  /\ {gateway, network, contract, telemetry} \subseteq Calls \union {None}
  /\ conn \in [Calls -> {"absent", "made", "open", "closed"}]
  /\ instruments \subseteq Calls
  /\ gauge \in -Cardinality(Calls)..Cardinality(Calls)
  /\ habit \in {"apart", "connected", "untidy"}

(* REPLAY_ATTACK_DETECTED is only answered for a message on the ledger (be *)
(* it the one an earlier call of the same application wrote that timed     *)
(* out), never for another failure.                                        *)
ReplayIsRecorded ==
  \A c \in Calls : pc[c] = "replay" => record[op[c].key] # None

(* After a submission was answered with success, no read of its key is     *)
(* answered with MESSAGE_NOT_FOUND or VEHICLE_NOT_FOUND.                   *)
ReadYourWrites ==
  [][\A c, d \in Calls :
       Is(c, Writers) /\ pc[c] = "ok" /\ Is(d, Getters) /\ op[d].key = op[c].key
         => ~(pc[d] = "sent" /\ pc'[d] = "notFound")]_vars

(* However connects and disconnects overlap, network and contract belong   *)
(* together, to a gateway that was connected: no call that passes          *)
(* _ensureConnected meets a null network or a gateway never dialled.       *)
ContractUsable == /\ network = contract
                  /\ contract # None => conn[contract] \in {"open", "closed"}

(* A call of a tidy application that passes _ensureConnected goes to the   *)
(* object's own gateway, which is open: never to the one before it, while  *)
(* a connect is under way or after it failed.  (Only while a disconnect    *)
(* waits for the gateway to close is the object still taken for connected.) *)
CallsReachOpen ==
  Tidy /\ EnsureConnected /\ (\A c \in Calls : pc[c] # "closing") =>
    contract = gateway /\ conn[contract] = "open"

Open == {g \in Calls : conn[g] = "open"}

(* A tidy application leaves no connection open behind, whichever of its   *)
(* connects and disconnects fail, and wherever.                            *)
NoLeak == Tidy => Open \subseteq {gateway}

(* For the same application the exported count of connections is never too *)
(* high between its connects and disconnects, and it is right as long as   *)
(* no connect has failed.                                                  *)
GaugeTracksOpen ==
  Tidy /\ ~Busy =>
    /\ gauge <= Cardinality(Open)
    /\ (\A c \in Calls : Is(c, {"connect"}) => pc[c] # "thrown") => gauge = Cardinality(Open)

=============================================================================
