------------------------- MODULE FabricClientProofs -------------------------
(***************************************************************************)
(* Proofs about the Fabric client, for any calls, however they overlap,    *)
(* any peers and keys, and any failures of the gateways and the network.   *)
(***************************************************************************)
EXTENDS FabricClient, FiniteSetTheorems, TLAPS

-----------------------------------------------------------------------------
(* The invariant, in parts. *)

Waiting == {"idle", "sent"} \union Connecting \union Disconnecting

Types ==
  /\ op \in [Calls -> Ops \union {None, Plain("connect"), Plain("disconnect")}]
  /\ pc \in [Calls -> Waiting \union Ended]
  /\ using \in [Calls -> Calls \union {None}]
  /\ {gateway, network, contract, telemetry} \subseteq Calls \union {None}
  /\ conn \in [Calls -> {"absent", "made", "open", "closed"}]
  /\ instruments \subseteq Calls
  /\ gauge \in Int
  /\ habit \in {"apart", "connected", "untidy"}
  /\ request \in [Calls -> [key : Keys, needs : SUBSET Keys] \union {None}]
  /\ record \in [Keys -> Calls \union {None}]
  /\ copies \in [Peers -> [Keys -> Calls \union {None}]]

(* What the await that call c is at says of it. *)
Phase(c) ==
  /\ pc[c] \in Connecting => Is(c, {"connect"})
  /\ pc[c] \in Disconnecting => Is(c, {"disconnect"})
  /\ pc[c] = "sent" => ~Is(c, {"connect", "disconnect"})
  /\ pc[c] = "replay" => Is(c, {"submitV2XMessage"})

Kept == Types /\ \A c \in Calls : Phase(c)

-----------------------------------------------------------------------------
(* The operations. *)

LEMMA OpsKnown ==
  ASSUME NEW o \in Ops
  PROVE  /\ o # None /\ o.fn \in Writers \union Getters \union Queries
         /\ o.key \in Keys /\ o.needs \in SUBSET Keys
BY ClientAssumption DEF ClientAssumption, Op

LEMMA Kinds ==
  /\ {"connect", "disconnect"} \intersect (Writers \union Getters \union Queries) = {}
  /\ Writers \intersect (Getters \union Queries) = {} /\ Getters \intersect Queries = {}
BY DEF Writers, Getters, Queries

LEMMA PlainOps ==
  /\ Plain("connect") # None /\ Plain("connect").fn = "connect"
  /\ Plain("disconnect") # None /\ Plain("disconnect").fn = "disconnect"
BY ClientAssumption DEF ClientAssumption, Plain

LEMMA KeyOf ==
  ASSUME Types, NEW c \in Calls, Is(c, Writers \union Getters \union Queries)
  PROVE  op[c] \in Ops /\ op[c].key \in Keys /\ op[c].needs \in SUBSET Keys
BY OpsKnown, PlainOps, Kinds DEF Types, Is

-----------------------------------------------------------------------------
(* What a step changes. *)

Same(d) == UNCHANGED <<op[d], pc[d], using[d]>>

(* A call c ends or goes on, with nothing changed but its own state. *)
Moves(c, from, to) ==
  /\ pc[c] = from /\ pc'[c] \in to
  /\ \A d \in Calls \ {c} : Same(d)
  /\ from # "idle" => op'[c] = op[c]

(* A call that is made, other than a connect or a disconnect. *)
Calling(c, o) ==
  \/ RegisterVehicle(c, o) \/ SubmitV2XMessage(c, o) \/ SubmitSecurityAlert(c, o)
  \/ GetV2XMessage(c, o) \/ GetVehicle(c, o) \/ QueryMessages(c, o) \/ GetAll(c, o)
  \/ CollectMetrics(c, o)

LEMMA CallingMoves ==
  ASSUME Types, NEW c \in Calls, NEW o \in Ops, Calling(c, o)
  PROVE  /\ UNCHANGED <<client, ledger>>
         /\ Moves(c, "idle", {"sent", "ok", "thrown"})
         /\ op' \in [Calls -> Ops \union {None, Plain("connect"), Plain("disconnect")}]
         /\ pc' \in [Calls -> Waiting \union Ended]
         /\ using' \in [Calls -> Calls \union {None}]
         /\ op'[c] = o
         /\ pc'[c] = "ok" => o.fn \in Queries
<1>1. CASE CollectMetrics(c, o)
  BY <1>1 DEF CollectMetrics, Begin, Goto, Moves, Same, Types, Queries, Waiting, Ended
<1>2. ASSUME NEW checked, Send(c, o, checked)
      PROVE  /\ UNCHANGED <<client, ledger>>
             /\ Moves(c, "idle", {"sent", "thrown"})
             /\ op' \in [Calls -> Ops \union {None, Plain("connect"), Plain("disconnect")}]
             /\ pc' \in [Calls -> Waiting \union Ended]
             /\ using' \in [Calls -> Calls \union {None}]
             /\ op'[c] = o
  BY <1>2 DEF Send, Begin, Goto, Moves, Same, Types, Waiting, Ended
<1>3. CASE ~CollectMetrics(c, o)
  <2>1. PICK checked : Send(c, o, checked)
    BY <1>3 DEF Calling, RegisterVehicle, SubmitV2XMessage, SubmitSecurityAlert,
       GetV2XMessage, GetVehicle, QueryMessages, GetAll
  <2> QED
    BY <2>1, <1>2 DEF Moves
<1> QED
  BY <1>1, <1>3

(* The network's answer to a call, or the lack of one. *)
Answering(c) == \/ Fail(c) \/ AnswerSubmit(c)
                \/ \E p \in Peers : Endorse(c, p) \/ AnswerEvaluate(c, p)

LEMMA Errors ==
  ASSUME NEW c \in Calls, NEW error
  PROVE  /\ OnError(c, error) \in {"replay", "thrown"}
         /\ OnError(c, error) = "replay" =>
              Is(c, {"submitV2XMessage"}) /\ error = "already exists"
BY DEF OnError

LEMMA ErrorEnds ==
  ASSUME Types, NEW c \in Calls
  PROVE  /\ Goto(c, OnError(c, "already exists")) => pc'[c] \in {"replay", "thrown"}
         /\ Goto(c, OnError(c, "does not exist")) => pc'[c] = "thrown"
         /\ Goto(c, OnError(c, "MVCC_READ_CONFLICT")) => pc'[c] = "thrown"
BY DEF OnError, Goto, Types

LEMMA AnsweringMoves ==
  ASSUME Kept, NEW c \in Calls, Answering(c)
  PROVE  /\ UNCHANGED <<op, using, client>>
         /\ Moves(c, "sent", {"sent"} \union Ended)
         /\ pc' \in [Calls -> Waiting \union Ended]
         /\ ~Is(c, {"connect", "disconnect"})
         /\ pc'[c] = "replay" => Is(c, {"submitV2XMessage"})
<1>1. pc[c] = "sent" /\ UNCHANGED <<op, using, client>> /\ pc \in [Calls -> Waiting \union Ended]
      /\ ~Is(c, {"connect", "disconnect"})
  BY DEF Answering, Fail, AnswerSubmit, Endorse, AnswerEvaluate, Reaches, Kept, Types, Phase
<1>2. /\ pc' \in [Calls -> Waiting \union Ended] /\ pc'[c] \in {"sent"} \union Ended
      /\ pc'[c] = "replay" => Is(c, {"submitV2XMessage"})
      /\ \A d \in Calls \ {c} : pc'[d] = pc[d]
  <2>1. UNCHANGED pc \/ \E l \in Ended : Goto(c, l) /\ (l = "replay" => Is(c, {"submitV2XMessage"}))
    <3>0. ASSUME NEW error, Goto(c, OnError(c, error))
          PROVE  <2>1
      <4> DEFINE l == OnError(c, error)
      <4>1. l \in Ended /\ Goto(c, l) /\ (l = "replay" => Is(c, {"submitV2XMessage"}))
        BY <3>0, Errors DEF Ended
      <4> HIDE DEF l
      <4> QED
        BY <4>1
    <3>1. CASE Fail(c)
      BY <3>1 DEF Fail, Ended
    <3>2. CASE AnswerSubmit(c)
      BY <3>0, <3>2 DEF AnswerSubmit, Ended
    <3>3. CASE \E p \in Peers : Endorse(c, p)
      BY <3>0, <3>3 DEF Endorse, Ended
    <3>4. CASE \E p \in Peers : AnswerEvaluate(c, p)
      BY <3>4 DEF AnswerEvaluate, Ended
    <3> QED
      BY <3>1, <3>2, <3>3, <3>4 DEF Answering
  <2>2. CASE UNCHANGED pc
    BY <1>1, <2>2
  <2>3. ASSUME NEW l \in Ended, Goto(c, l), l = "replay" => Is(c, {"submitV2XMessage"})
        PROVE  <1>2
    BY <1>1, <2>3 DEF Goto
  <2> QED
    BY <2>1, <2>2, <2>3
<1> QED
  BY <1>1, <1>2 DEF Moves, Same

(* A step of neither a connect nor a disconnect: the object keeps its      *)
(* fields and the gateways theirs.                                         *)
Ordinary ==
  /\ UNCHANGED client
  /\ \A d \in Calls : \/ Same(d)
                      \/ /\ pc[d] \in {"idle", "sent"} /\ pc'[d] \in {"sent"} \union Ended
                         /\ ~Is(d, {"connect", "disconnect"})'

LEMMA OrdinarySteps ==
  ASSUME Kept
  PROVE  /\ \A c \in Calls : \A o \in Ops : Calling(c, o) => Ordinary
         /\ \A c \in Calls : Answering(c) => Ordinary
         /\ \A c \in Calls : \A p \in Peers : Commit(c, p) => Ordinary
         /\ UNCHANGED vars => Ordinary
<1>1. ASSUME NEW c \in Calls, NEW o \in Ops, Calling(c, o) PROVE Ordinary
  <2>1. ~Is(c, {"connect", "disconnect"})'
    BY <1>1, CallingMoves, OpsKnown, Kinds DEF Is, Kept
  <2> QED
    BY <1>1, <2>1, CallingMoves DEF Ordinary, Moves, Ended, Kept
<1>2. ASSUME NEW c \in Calls, Answering(c) PROVE Ordinary
  BY <1>2, AnsweringMoves DEF Ordinary, Moves, Is
<1>3. ASSUME NEW c \in Calls, NEW p \in Peers, Commit(c, p) PROVE Ordinary
  BY <1>3 DEF Commit, Ordinary, Same
<1>4. CASE UNCHANGED vars
  BY <1>4 DEF vars, Ordinary, Same
<1> QED
  BY <1>1, <1>2, <1>3, <1>4

(* What happens to the ledger: a call asks, or a peer takes a write. *)
LedgerMoves ==
  \/ UNCHANGED ledger
  \/ \E c \in Calls, k \in Keys, needs \in SUBSET Keys : Ledger!Ask(c, k, needs)
  \/ \E p \in Peers, c \in Calls : Ledger!Write(p, c) \/ Ledger!Follow(p, c)

(* One copy of one key is written, with the record or after it. *)
Taken(p, c, k) ==
  /\ copies[p][k] = None /\ copies'[p][k] = c
  /\ \A q \in Peers, j \in Keys : <<q, j>> # <<p, k>> => copies'[q][j] = copies[q][j]
  /\ record[k] \in {None, c} /\ record'[k] = c
  /\ \A j \in Keys \ {k} : record'[j] = record[j]

LEMMA Takes ==
  ASSUME Types, NEW p \in Peers, NEW c \in Calls, Ledger!Write(p, c) \/ Ledger!Follow(p, c)
  PROVE  /\ UNCHANGED request
         /\ record' \in [Keys -> Calls \union {None}]
         /\ copies' \in [Peers -> [Keys -> Calls \union {None}]]
         /\ \E k \in Keys : Taken(p, c, k)
<1>1. PICK k \in Keys : k = request[c].key
  <2>1. request[c] \in [key : Keys, needs : SUBSET Keys]
    BY DEF Ledger!Write, Ledger!Follow, Ledger!Take, Types
  <2> QED
    BY <2>1
<1>2. /\ copies[p][k] = None /\ copies' = [copies EXCEPT ![p][k] = c] /\ UNCHANGED request
      /\ \/ record[k] = None /\ record' = [record EXCEPT ![k] = c]
         \/ record[k] = c /\ UNCHANGED record
  BY <1>1 DEF Ledger!Write, Ledger!Follow, Ledger!Take
<1>3. /\ copies' \in [Peers -> [Keys -> Calls \union {None}]] /\ copies'[p][k] = c
      /\ \A q \in Peers, j \in Keys : <<q, j>> # <<p, k>> => copies'[q][j] = copies[q][j]
  BY <1>2 DEF Types
<1>4. /\ record' \in [Keys -> Calls \union {None}] /\ record'[k] = c
      /\ \A j \in Keys \ {k} : record'[j] = record[j]
  BY <1>2 DEF Types
<1> QED
  BY <1>2, <1>3, <1>4 DEF Taken

LEMMA LedgerTypes ==
  ASSUME Types, LedgerMoves
  PROVE  /\ request' \in [Calls -> [key : Keys, needs : SUBSET Keys] \union {None}]
         /\ record' \in [Keys -> Calls \union {None}]
         /\ copies' \in [Peers -> [Keys -> Calls \union {None}]]
<1>1. CASE UNCHANGED ledger
  BY <1>1 DEF ledger, Types
<1>2. ASSUME NEW c \in Calls, NEW k \in Keys, NEW needs \in SUBSET Keys,
             Ledger!Ask(c, k, needs)
      PROVE  /\ request' \in [Calls -> [key : Keys, needs : SUBSET Keys] \union {None}]
             /\ UNCHANGED <<record, copies>>
  BY <1>2 DEF Ledger!Ask, Types
<1> QED
  BY <1>1, <1>2, Takes DEF LedgerMoves, Types

(* A step of a connect or a disconnect. *)
Connects(c) == \/ ConnectBegin(c) \/ LoadProfile(c) \/ OpenWallet(c) \/ Dialled(c) \/ JoinChannel(c)
               \/ DisconnectBegin(c) \/ DisconnectEnd(c) \/ Shutdown(c)

LEMMA Counts ==
  ASSUME Types, NEW delta \in Int, UpdateGatewayConnections(delta)
  PROVE  gauge' \in Int /\ gauge' = IF telemetry \in instruments THEN gauge + delta ELSE gauge
BY DEF UpdateGatewayConnections, Types

LEMMA ConnectsMoves ==
  ASSUME Kept, NEW c \in Calls, Connects(c)
  PROVE  /\ UNCHANGED ledger /\ Types'
         /\ \A d \in Calls \ {c} : Same(d)
         /\ pc[c] # "idle" => op'[c] = op[c]
         /\ pc[c] \in {"idle"} \union Connecting \union Disconnecting
         /\ pc'[c] \in Connecting \union Disconnecting \union {"ok", "thrown"}
         /\ Phase(c)'
<1>1. /\ UNCHANGED ledger
      /\ op' \in [Calls -> Ops \union {None, Plain("connect"), Plain("disconnect")}]
      /\ pc' \in [Calls -> Waiting \union Ended]
      /\ using' \in [Calls -> Calls \union {None}]
      /\ \A d \in Calls \ {c} : Same(d)
      /\ pc[c] # "idle" => op'[c] = op[c]
      /\ pc[c] \in {"idle"} \union Connecting \union Disconnecting
      /\ pc'[c] \in Connecting \union Disconnecting \union {"ok", "thrown"}
      /\ Phase(c)'
  <2>1. CASE ConnectBegin(c)
    BY <2>1, PlainOps DEF ConnectBegin, Begin, Goto, Kept, Types, Phase, Is, Same,
       Connecting, Disconnecting, Waiting
  <2>2. CASE LoadProfile(c)
    BY <2>2 DEF LoadProfile, Goto, Kept, Types, Phase, Is, Same,
       Connecting, Disconnecting, Waiting, Ended
  <2>3. CASE OpenWallet(c)
    BY <2>3 DEF OpenWallet, Goto, Kept, Types, Phase, Is, Same,
       Connecting, Disconnecting, Waiting, Ended
  <2>4. CASE Dialled(c)
    <3>1. /\ pc[c] = "dial" /\ UNCHANGED <<op, ledger>>
          /\ Goto(c, "thrown") \/ Goto(c, "channel")
          /\ UNCHANGED using \/ using' = [using EXCEPT ![c] = gateway]
      BY <2>4 DEF Dialled
    <3> QED
      BY <3>1 DEF Goto, Kept, Types, Phase, Is, Same, Connecting, Disconnecting, Waiting, Ended
  <2>5. CASE JoinChannel(c)
    BY <2>5 DEF JoinChannel, Goto, Kept, Types, Phase, Is, Same,
       Connecting, Disconnecting, Waiting, Ended
  <2>6. CASE DisconnectBegin(c)
    BY <2>6, PlainOps DEF DisconnectBegin, Begin, Goto, Kept, Types, Phase, Is, Same,
       Connecting, Disconnecting, Waiting, Ended
  <2>7. CASE DisconnectEnd(c)
    BY <2>7 DEF DisconnectEnd, Goto, Kept, Types, Phase, Is, Same,
       Connecting, Disconnecting, Waiting, Ended
  <2>8. CASE Shutdown(c)
    BY <2>8 DEF Shutdown, Goto, Kept, Types, Phase, Is, Same,
       Connecting, Disconnecting, Waiting, Ended
  <2> QED
    BY <2>1, <2>2, <2>3, <2>4, <2>5, <2>6, <2>7, <2>8 DEF Connects
<1>2. /\ {gateway', network', contract', telemetry'} \subseteq Calls \union {None}
      /\ conn' \in [Calls -> {"absent", "made", "open", "closed"}]
      /\ instruments' \subseteq Calls
      /\ habit' \in {"apart", "connected", "untidy"}
  BY DEF Connects, ConnectBegin, LoadProfile, InitializeTelemetry, OpenWallet, Dialled, JoinChannel,
     DisconnectBegin, ToDisconnect, DisconnectEnd, Clear, Shutdown, client, Tidy, Kept, Types
<1>3. gauge' \in Int
  BY Counts DEF Connects, ConnectBegin, LoadProfile, OpenWallet, Dialled, JoinChannel,
     DisconnectBegin, DisconnectEnd, Shutdown, client, Kept, Types
<1> QED
  BY <1>1, <1>2, <1>3 DEF ledger, Kept, Types

LEMMA ConnectsPlain ==
  ASSUME Kept, NEW c \in Calls, Connects(c)
  PROVE  op'[c] # None /\ op'[c].fn \in {"connect", "disconnect"}
<1>1. CASE pc[c] = "idle"
  <2>1. op'[c] \in {Plain("connect"), Plain("disconnect")}
    BY <1>1 DEF Connects, ConnectBegin, LoadProfile, OpenWallet, Dialled, JoinChannel,
       DisconnectBegin, DisconnectEnd, Shutdown, Begin, Kept, Types
  <2> QED
    BY <2>1, PlainOps
<1>2. CASE pc[c] # "idle"
  BY <1>2, ConnectsMoves DEF Kept, Phase, Is
<1> QED
  BY <1>1, <1>2

(* The steps, by what they change. *)
LEMMA Steps ==
  ASSUME Kept, [Next]_vars
  PROVE  \/ \E c \in Calls : Connects(c)
         \/ Ordinary
<1>1. ASSUME NEW c \in Calls, NEW o \in Ops, Calling(c, o) PROVE Ordinary
  BY <1>1, OrdinarySteps
<1>2. ASSUME NEW c \in Calls, Answering(c) PROVE Ordinary
  BY <1>2, OrdinarySteps
<1>3. ASSUME NEW c \in Calls, NEW p \in Peers, Commit(c, p) PROVE Ordinary
  BY <1>3, OrdinarySteps
<1>4. CASE UNCHANGED vars
  BY <1>4, OrdinarySteps
<1> QED
  BY <1>1, <1>2, <1>3, <1>4 DEF Next, Done, Connects, Calling, Answering

LEMMA LedgerSteps ==
  ASSUME Kept, [Next]_vars
  PROVE  LedgerMoves
<1>1. ASSUME NEW c \in Calls, NEW o \in Ops, Calling(c, o) PROVE LedgerMoves
  BY <1>1, CallingMoves DEF LedgerMoves, Kept
<1>2. ASSUME NEW c \in Calls, Answering(c) PROVE LedgerMoves
  <2>1. ASSUME NEW p \in Peers, Endorse(c, p) PROVE LedgerMoves
    <3>1. op[c].key \in Keys /\ op[c].needs \in SUBSET Keys
      BY <2>1, KeyOf DEF Endorse, Is, Kept
    <3> QED
      BY <2>1, <3>1 DEF Endorse, LedgerMoves
  <2> QED
    BY <1>2, <2>1 DEF Answering, Fail, AnswerSubmit, AnswerEvaluate, LedgerMoves
<1>3. ASSUME NEW c \in Calls, NEW p \in Peers, Commit(c, p) PROVE LedgerMoves
  BY <1>3 DEF Commit, LedgerMoves
<1>4. CASE UNCHANGED vars
  BY <1>4 DEF vars, LedgerMoves
<1>5. ASSUME NEW c \in Calls, Connects(c) PROVE LedgerMoves
  BY <1>5, ConnectsMoves DEF LedgerMoves
<1> QED
  BY <1>1, <1>2, <1>3, <1>4, <1>5 DEF Next, Done, Connects, Calling, Answering

LEMMA KeptStep ==
  ASSUME Kept, [Next]_vars
  PROVE  Kept'
<1>1. /\ request' \in [Calls -> [key : Keys, needs : SUBSET Keys] \union {None}]
      /\ record' \in [Keys -> Calls \union {None}]
      /\ copies' \in [Peers -> [Keys -> Calls \union {None}]]
  BY LedgerSteps, LedgerTypes DEF Kept
<1>2. ASSUME NEW c \in Calls, Connects(c) PROVE Kept'
  BY <1>2, ConnectsMoves DEF Kept, Same, Phase, Is
<1>3. ASSUME NEW c \in Calls, NEW o \in Ops, Calling(c, o) PROVE Kept'
  <2>1. Types'
    BY <1>1, <1>3, CallingMoves DEF Kept, Types, client
  <2>2. Phase(c)'
    BY <1>3, CallingMoves, OpsKnown, Kinds DEF Kept, Phase, Is, Moves, Connecting, Disconnecting
  <2> QED
    BY <1>3, <2>1, <2>2, CallingMoves DEF Kept, Moves, Same, Phase, Is
<1>4. ASSUME NEW c \in Calls, Answering(c) PROVE Kept'
  <2>1. Types'
    BY <1>1, <1>4, AnsweringMoves DEF Kept, Types, client
  <2>2. Phase(c)'
    BY <1>4, AnsweringMoves DEF Phase, Is, Moves, Connecting, Disconnecting, Ended
  <2> QED
    BY <1>4, <2>1, <2>2, AnsweringMoves DEF Kept, Moves, Same, Phase, Is
<1>5. ASSUME NEW c \in Calls, NEW p \in Peers, Commit(c, p) PROVE Kept'
  BY <1>1, <1>5 DEF Commit, Kept, Types, client, Phase, Is
<1>6. CASE UNCHANGED vars
  BY <1>1, <1>6 DEF vars, client, Kept, Types, Phase, Is
<1> QED
  BY <1>2, <1>3, <1>4, <1>5, <1>6 DEF Next, Done, Connects, Calling, Answering

-----------------------------------------------------------------------------
(* The ledger: what a peer holds, and what a record says, stays. *)

LEMMA WriteOnce ==
  ASSUME Types, LedgerMoves
  PROVE  /\ \A p \in Peers, k \in Keys : copies[p][k] # None => copies'[p][k] = copies[p][k]
         /\ \A k \in Keys : record[k] # None => record'[k] = record[k]
<1>1. CASE UNCHANGED ledger
  BY <1>1 DEF ledger
<1>2. CASE \E c \in Calls, k \in Keys, needs \in SUBSET Keys : Ledger!Ask(c, k, needs)
  BY <1>2 DEF Ledger!Ask
<1>3. ASSUME NEW p \in Peers, NEW c \in Calls, NEW k \in Keys, Taken(p, c, k)
      PROVE  /\ \A q \in Peers, j \in Keys : copies[q][j] # None => copies'[q][j] = copies[q][j]
             /\ \A j \in Keys : record[j] # None => record'[j] = record[j]
  BY <1>3 DEF Taken
<1> QED
  BY <1>1, <1>2, <1>3, Takes DEF LedgerMoves

(* A peer holds nothing but the records. *)
Copied == \A p \in Peers, k \in Keys : copies[p][k] \in {None, record[k]}

LEMMA CopiedStep ==
  ASSUME Types, LedgerMoves, Copied
  PROVE  Copied'
<1>1. CASE UNCHANGED ledger
  BY <1>1 DEF ledger, Copied
<1>2. CASE \E c \in Calls, k \in Keys, needs \in SUBSET Keys : Ledger!Ask(c, k, needs)
  BY <1>2 DEF Ledger!Ask, Copied
<1>3. ASSUME NEW p \in Peers, NEW c \in Calls, NEW k \in Keys, Taken(p, c, k)
      PROVE  Copied'
  BY <1>3 DEF Taken, Copied
<1> QED
  BY <1>1, <1>2, <1>3, Takes DEF LedgerMoves

(* A write's success was reported by every peer, and no copy changes.      *)
SuccessCopied ==
  \A c \in Calls : Is(c, Writers) /\ pc[c] = "ok" =>
    \A p \in Peers : copies[p][op[c].key] = c

Recorded == Copied /\ SuccessCopied /\ ReplayIsRecorded

(* A call that has ended stays as it is, and so does what it found. *)
LEMMA RecordedStays ==
  ASSUME Kept, Recorded, LedgerMoves, NEW d \in Calls, Same(d)
  PROVE  /\ Is(d, Writers)' /\ pc'[d] = "ok" => \A p \in Peers : copies'[p][op'[d].key] = d
         /\ pc'[d] = "replay" => record'[op'[d].key] # None
<1>1. CASE Is(d, Writers) /\ pc[d] = "ok"
  <2>1. op[d].key \in Keys /\ \A p \in Peers : copies[p][op[d].key] = d
    BY <1>1, KeyOf DEF Is, Kept, Recorded, SuccessCopied
  <2> QED
    BY <1>1, <2>1, WriteOnce, ClientAssumption DEF ClientAssumption, Same, Kept
<1>2. CASE pc[d] = "replay"
  <2>1. op[d].key \in Keys /\ record[op[d].key] # None
    BY <1>2, KeyOf DEF Is, Writers, Kept, Phase, Recorded, ReplayIsRecorded
  <2> QED
    BY <1>2, <2>1, WriteOnce DEF Same, Kept
<1> QED
  BY <1>1, <1>2 DEF Same, Is

LEMMA RecordedStep ==
  ASSUME Kept, Recorded, [Next]_vars
  PROVE  Recorded'
<1>1. LedgerMoves /\ Copied'
  BY LedgerSteps, CopiedStep DEF Kept, Recorded
<1>2. ASSUME NEW c \in Calls, \A d \in Calls \ {c} : Same(d),
             Is(c, Writers)' /\ pc'[c] = "ok" => \A p \in Peers : copies'[p][op'[c].key] = c,
             pc'[c] = "replay" => record'[op'[c].key] # None
      PROVE  Recorded'
  BY <1>1, <1>2, RecordedStays DEF Recorded, SuccessCopied, ReplayIsRecorded
<1>3. ASSUME NEW c \in Calls, Connects(c) PROVE Recorded'
  <2>1. /\ \A d \in Calls \ {c} : Same(d)
        /\ pc'[c] \in Connecting \union Disconnecting \union {"ok", "thrown"}
        /\ ~Is(c, Writers)'
    <3>1. Is(c, {"connect", "disconnect"})'
      BY <1>3, ConnectsPlain DEF Is
    <3> QED
      BY <1>3, <3>1, ConnectsMoves DEF Is, Writers
  <2> QED
    BY <1>2, <2>1 DEF Connecting, Disconnecting
<1>4. ASSUME NEW c \in Calls, NEW o \in Ops, Calling(c, o) PROVE Recorded'
  BY <1>2, <1>4, CallingMoves, Kinds DEF Moves, Is, Kept
<1>5. ASSUME NEW c \in Calls, Answering(c) PROVE Recorded'
  <2>1. /\ \A d \in Calls \ {c} : Same(d)
        /\ UNCHANGED op /\ pc[c] = "sent"
    BY <1>5, AnsweringMoves DEF Moves
  <2>2. CASE Fail(c)
    BY <1>2, <2>1, <2>2 DEF Fail, Goto, Kept, Types
  <2>3. CASE AnswerSubmit(c)
    <3>1. CASE Committed(c) /\ Goto(c, "ok")
      <4>1. pc'[c] = "ok" /\ \A p \in Peers : copies[p][op[c].key] = c
        BY <3>1 DEF Committed, Goto, Kept, Types
      <4>2. UNCHANGED copies
        BY <2>3 DEF AnswerSubmit, ledger
      <4> QED
        BY <1>2, <2>1, <4>1, <4>2
    <3>2. CASE Goto(c, OnError(c, "MVCC_READ_CONFLICT"))
      <4>1. pc'[c] = "thrown"
        BY <3>2, ErrorEnds DEF Kept
      <4> QED
        BY <1>2, <2>1, <4>1
    <3> QED
      BY <2>3, <3>1, <3>2 DEF AnswerSubmit
  <2>4. ASSUME NEW p \in Peers, Endorse(c, p) PROVE Recorded'
    <3>1. op[c].key \in Keys /\ Is(c, Writers)
      BY <2>4, KeyOf DEF Endorse, Is, Kept
    <3>2. CASE Holds(p, op[c].key) /\ Goto(c, OnError(c, "already exists"))
      <4>1. record[op[c].key] # None
        BY <3>1, <3>2 DEF Holds, Recorded, Copied
      <4>2. record'[op[c].key] # None /\ pc'[c] # "ok"
        BY <1>1, <3>1, <3>2, <4>1, WriteOnce, ErrorEnds DEF Kept
      <4> QED
        BY <1>2, <2>1, <4>2
    <3>3. CASE Goto(c, OnError(c, "does not exist"))
      <4>1. pc'[c] = "thrown"
        BY <3>3, ErrorEnds DEF Kept
      <4> QED
        BY <1>2, <2>1, <4>1
    <3>4. CASE UNCHANGED pc
      BY <1>2, <2>1, <3>4
    <3> QED
      BY <2>4, <3>2, <3>3, <3>4 DEF Endorse
  <2>5. ASSUME NEW p \in Peers, AnswerEvaluate(c, p) PROVE Recorded'
    <3>1. ~Is(c, Writers) /\ pc'[c] \in {"ok", "notFound"}
      BY <2>5, Kinds DEF AnswerEvaluate, Goto, Is, Kept, Types
    <3> QED
      BY <1>2, <2>1, <3>1 DEF Is
  <2> QED
    BY <1>5, <2>2, <2>3, <2>4, <2>5 DEF Answering
<1>6. ASSUME NEW c \in Calls, NEW p \in Peers, Commit(c, p) PROVE Recorded'
  BY <1>1, <1>6, RecordedStays DEF Commit, Same, Recorded, SuccessCopied, ReplayIsRecorded
<1>7. CASE UNCHANGED vars
  BY <1>1, <1>7, RecordedStays DEF vars, Same, Recorded, SuccessCopied, ReplayIsRecorded
<1> QED
  BY <1>3, <1>4, <1>5, <1>6, <1>7 DEF Next, Done, Connects, Calling, Answering

-----------------------------------------------------------------------------
(* The gateways: one a call is still to make is no one's, one a call has   *)
(* taken to join its channel was dialled.                                  *)
Gateways ==
  /\ network = contract
  /\ gateway # None => conn[gateway] # "absent"
  /\ contract # None => conn[contract] \in {"open", "closed"}
  /\ \A c \in Calls :
       /\ pc[c] \in {"idle", "initialize", "wallet"} => conn[c] = "absent"
       /\ pc[c] = "channel" => using[c] # None /\ conn[using[c]] \in {"open", "closed"}

(* A gateway may be made, opened or closed, but is never undialled. *)
Grown == \A g \in Calls : /\ conn[g] # "absent" => conn'[g] # "absent"
                          /\ conn[g] \in {"open", "closed"} => conn'[g] \in {"open", "closed"}

LEMMA Grows ==
  ASSUME Kept, Gateways, NEW c \in Calls, Connects(c)
  PROVE  /\ Grown
         /\ \A d \in Calls \ {c} : pc[d] \in {"idle", "initialize", "wallet"} => conn'[d] = conn[d]
<1>1. CASE UNCHANGED conn
  BY <1>1 DEF Grown
<1>2. CASE OpenWallet(c) /\ conn' = [conn EXCEPT ![c] = "made"]
  BY <1>2 DEF OpenWallet, Gateways, Grown, Kept, Types
<1>3. CASE Dialled(c) /\ conn' = [conn EXCEPT ![c] = "open"]
  BY <1>3 DEF Grown, Kept, Types
<1>4. CASE gateway # None /\ conn' = [conn EXCEPT ![gateway] = "closed"]
  BY <1>4 DEF Gateways, Grown, Kept, Types
<1> QED
  BY <1>1, <1>2, <1>3, <1>4 DEF Connects, ConnectBegin, LoadProfile, OpenWallet, Dialled,
     JoinChannel, DisconnectBegin, ToDisconnect, DisconnectEnd, Shutdown, client

LEMMA GatewaysStep ==
  ASSUME Kept, Gateways, [Next]_vars
  PROVE  Gateways'
<1>1. CASE Ordinary
  BY <1>1 DEF Ordinary, Same, client, Gateways, Ended
<1>2. ASSUME NEW c \in Calls, Connects(c) PROVE Gateways'
  <2>1. /\ Grown /\ \A d \in Calls \ {c} : Same(d)
        /\ \A d \in Calls \ {c} : pc[d] \in {"idle", "initialize", "wallet"} => conn'[d] = conn[d]
    BY <1>2, Grows, ConnectsMoves
  <2>2. /\ \A d \in Calls : using[d] \in Calls \union {None}
        /\ {gateway, contract, network} \subseteq Calls \union {None}
    BY DEF Kept, Types
  <2>3. \A d \in Calls \ {c} :
          /\ pc'[d] \in {"idle", "initialize", "wallet"} => conn'[d] = "absent"
          /\ pc'[d] = "channel" => using'[d] # None /\ conn'[using'[d]] \in {"open", "closed"}
    BY <2>1, <2>2 DEF Gateways, Grown, Same
  <2>4. CASE ConnectBegin(c)
    BY <2>1, <2>2, <2>3, <2>4 DEF ConnectBegin, Begin, Goto, Gateways, Kept, Types
  <2>5. CASE LoadProfile(c)
    BY <2>1, <2>2, <2>3, <2>5 DEF LoadProfile, Goto, Gateways, Kept, Types
  <2>6. CASE OpenWallet(c)
    BY <2>1, <2>2, <2>3, <2>6 DEF OpenWallet, Goto, Gateways, Grown, Kept, Types
  <2>7. CASE Dialled(c)
    <3>1. /\ UNCHANGED <<gateway, network, contract>>
          /\ pc'[c] \in {"thrown", "channel"}
          /\ pc'[c] = "channel" => using'[c] = gateway /\ gateway \in Calls /\ conn'[gateway] # "made"
      BY <2>7 DEF Dialled, Goto, Kept, Types
    <3>2. conn' \in [Calls -> {"absent", "made", "open", "closed"}]
      BY <1>2, ConnectsMoves DEF Types
    <3>3. pc'[c] = "channel" => using'[c] # None /\ conn'[using'[c]] \in {"open", "closed"}
      BY <2>1, <3>1, <3>2, ClientAssumption DEF ClientAssumption, Gateways, Grown
    <3> QED
      BY <2>1, <2>2, <2>3, <3>1, <3>3 DEF Gateways, Grown
  <2>8. CASE JoinChannel(c)
    BY <2>1, <2>2, <2>3, <2>8 DEF JoinChannel, Goto, Gateways, Grown, Kept, Types
  <2>9. CASE DisconnectBegin(c)
    BY <2>1, <2>2, <2>3, <2>9 DEF DisconnectBegin, Begin, Goto, Gateways, Grown, Kept, Types
  <2>10. CASE DisconnectEnd(c)
    BY <2>1, <2>2, <2>3, <2>10 DEF DisconnectEnd, Clear, Goto, Gateways, Kept, Types
  <2>11. CASE Shutdown(c)
    BY <2>1, <2>2, <2>3, <2>11 DEF Shutdown, client, Goto, Gateways, Kept, Types
  <2> QED
    BY <1>2, <2>4, <2>5, <2>6, <2>7, <2>8, <2>9, <2>10, <2>11 DEF Connects
<1> QED
  BY <1>1, <1>2, Steps

-----------------------------------------------------------------------------
(* A tidy application: its connects and disconnects follow one another.    *)

Working(c) == pc[c] \in Connecting \union Disconnecting

Failed == \E c \in Calls : Is(c, {"connect"}) /\ pc[c] = "thrown"

(* The connections that count: one, from the end of a connect to the end   *)
(* of the disconnect after it.                                             *)
Held == IF contract = None THEN 0 ELSE 1

(* While call c is at work, *)
AtWork(c) ==
  /\ pc[c] \in Connecting => /\ habit = "connected" /\ contract = None /\ telemetry = c
                             /\ pc[c] # "initialize" => c \in instruments
  /\ pc[c] \in {"initialize", "wallet"} => gateway = None
  /\ pc[c] \in {"dial", "channel"} => gateway = c
  /\ pc[c] = "channel" => using[c] = c /\ conn[c] = "open"
  /\ pc[c] \in Disconnecting => habit = "apart"
  /\ pc[c] = "closing" => gateway # None
  /\ pc[c] = "shutdown" => gateway = None

(* and at any time. *)
Orderly ==
  /\ \A c, d \in Calls : Working(c) /\ Working(d) => c = d
  /\ \A c \in Calls : AtWork(c)
  /\ habit = "apart" => Open = {} /\ (gateway = None \/ \E c \in Calls : pc[c] = "closing")
  /\ habit = "connected" => /\ Open \subseteq {gateway}
                            /\ contract # None => conn[contract] = "open"
                            /\ contract # None \/ Busy \/ Failed
  /\ contract = None \/ contract = gateway
  /\ gateway # None => telemetry \in instruments
  /\ (\E c \in Calls : pc[c] = "closing") => contract # None \/ Failed
  /\ gauge <= Held /\ (~Failed => gauge = Held)

Tidiness == Tidy => Orderly

(* An application that is untidy stays so. *)
LEMMA TidyStays ==
  ASSUME Kept, [Next]_vars, Tidy'
  PROVE  Tidy
<1>1. CASE Ordinary
  BY <1>1 DEF Ordinary, client, Tidy
<1>2. ASSUME NEW c \in Calls, Connects(c) PROVE Tidy
  BY <1>2 DEF Connects, ConnectBegin, LoadProfile, OpenWallet, Dialled, JoinChannel,
     DisconnectBegin, DisconnectEnd, Shutdown, client, Tidy
<1> QED
  BY <1>1, <1>2, Steps

(* What the other calls do is of no matter. *)
LEMMA OrdinaryOrderly ==
  ASSUME Kept, Orderly, Ordinary
  PROVE  Orderly'
<1>1. /\ UNCHANGED <<gateway, contract, telemetry, instruments, gauge, habit, conn>>
      /\ \A d \in Calls : \/ Same(d)
                          \/ /\ pc[d] \in {"idle", "sent"} /\ pc'[d] \in {"sent"} \union Ended
                             /\ ~Is(d, {"connect"})'
  BY DEF Ordinary, client, Is
<1>2. \A d \in Calls : /\ Working(d)' <=> Working(d)
                       /\ Working(d) => pc'[d] = pc[d] /\ using'[d] = using[d]
                       /\ pc'[d] = "closing" <=> pc[d] = "closing"
                       /\ AtWork(d)'
  BY <1>1 DEF Working, Connecting, Disconnecting, Ended, Same, AtWork, Orderly
<1>3. Failed' <=> Failed
  BY <1>1 DEF Failed, Is, Same
<1>4. Busy' <=> Busy
  BY <1>2 DEF Busy, Working
<1>5. Open' = Open /\ Held' = Held
  BY <1>1 DEF Open, Held
<1> QED
  BY <1>1, <1>2, <1>3, <1>4, <1>5 DEF Orderly

(* In a tidy step of a connect or disconnect, no other call is at work.    *)
LEMMA Alone ==
  ASSUME Kept, Orderly, NEW c \in Calls, Connects(c), Tidy'
  PROVE  /\ \A d \in Calls \ {c} : Same(d) /\ ~Working(d) /\ ~Working(d)'
         /\ pc[c] = "idle" => ~Busy
<1>1. pc[c] = "idle" => ~Busy
  BY DEF Connects, ConnectBegin, LoadProfile, OpenWallet, Dialled, JoinChannel,
     DisconnectBegin, DisconnectEnd, Shutdown, Tidy
<1>2. pc[c] = "idle" \/ Working(c)
  BY ConnectsMoves DEF Working
<1>3. \A d \in Calls \ {c} : Same(d) /\ ~Working(d)
  BY <1>1, <1>2, ConnectsMoves DEF Busy, Working, Orderly
<1> QED
  BY <1>1, <1>3 DEF Working, Same

(* It is enough to look at that call. *)
LEMMA OrderlyAfter ==
  ASSUME Kept, Orderly, NEW c \in Calls, Connects(c), Tidy',
         AtWork(c)',
         habit' = "apart" => Open' = {} /\ (gateway' = None \/ pc'[c] = "closing"),
         habit' = "connected" => /\ Open' \subseteq {gateway'}
                                 /\ contract' # None => conn'[contract'] = "open"
                                 /\ contract' # None \/ Working(c)' \/ Failed',
         contract' = None \/ contract' = gateway',
         gateway' # None => telemetry' \in instruments',
         pc'[c] = "closing" => contract' # None \/ Failed',
         gauge' <= Held' /\ (~Failed' => gauge' = Held')
  PROVE  Orderly'
<1>1. \A d \in Calls \ {c} : AtWork(d)' /\ pc'[d] # "closing"
  BY Alone DEF AtWork, Working, Connecting, Disconnecting
<1>2. \A d, e \in Calls : Working(d)' /\ Working(e)' => d = e
  BY Alone
<1>3. Working(c)' => Busy'
  BY DEF Working, Busy
<1> QED
  BY <1>1, <1>2, <1>3 DEF Orderly

(* A connect that throws has failed, and what has failed stays so. *)
LEMMA Failures ==
  ASSUME Kept, NEW c \in Calls, Connects(c)
  PROVE  Failed' <=> Failed \/ (Is(c, {"connect"})' /\ pc'[c] = "thrown")
<1>1. pc[c] # "thrown" /\ \A d \in Calls \ {c} : Same(d)
  BY ConnectsMoves DEF Connecting, Disconnecting
<1> QED
  BY <1>1 DEF Failed, Same, Is

LEMMA ConnectOrderly ==
  ASSUME Kept, Orderly, NEW c \in Calls, Tidy',
         ConnectBegin(c) \/ LoadProfile(c) \/ OpenWallet(c) \/ Dialled(c) \/ JoinChannel(c)
  PROVE  Orderly'
<1> USE DEF Connecting, Disconnecting, AtWork, Working, Held
<1>0. /\ Connects(c) /\ AtWork(c) /\ Types /\ Phase(c)
      /\ None \notin Calls /\ Open \subseteq Calls
  BY ClientAssumption DEF Connects, Orderly, Kept, ClientAssumption, Open
<1>1. CASE ConnectBegin(c)
  <2>1. pc[c] = "idle" /\ ~Busy /\ habit = "apart"
    BY <1>1 DEF ConnectBegin, Begin, Tidy
  <2>2. gateway = None /\ contract = None /\ Open = {}
    BY <2>1 DEF Orderly, Busy
  <2>3. /\ pc'[c] = "initialize" /\ telemetry' = c /\ habit' = "connected"
        /\ UNCHANGED <<gateway, contract, instruments, gauge, conn>>
    BY <1>0, <1>1, <2>1 DEF ConnectBegin, Begin, Goto, Types
  <2>4. Open' = Open /\ (Failed' <=> Failed)
    BY <1>0, <2>3, Failures DEF Open
  <2> QED
    BY <1>0, <2>2, <2>3, <2>4, OrderlyAfter DEF Orderly
<1>2. CASE LoadProfile(c)
  <2>1. /\ pc[c] = "initialize" /\ gateway = None /\ contract = None
        /\ habit = "connected" /\ telemetry = c
    BY <1>0, <1>2 DEF LoadProfile
  <2>2. /\ (pc'[c] = "wallet" /\ c \in instruments') \/ pc'[c] = "thrown"
        /\ UNCHANGED <<op, gateway, contract, telemetry, gauge, habit, conn>>
    BY <1>0, <1>2 DEF LoadProfile, InitializeTelemetry, Goto, Types
  <2>3. Open' = Open /\ (Failed' <=> Failed \/ pc'[c] = "thrown")
    BY <1>0, <2>1, <2>2, Failures DEF Open, Phase, Is
  <2> QED
    BY <1>0, <2>1, <2>2, <2>3, OrderlyAfter DEF Orderly
<1>3. CASE OpenWallet(c)
  <2>1. /\ pc[c] = "wallet" /\ gateway = None /\ contract = None
        /\ habit = "connected" /\ telemetry = c /\ c \in instruments
    BY <1>0, <1>3 DEF OpenWallet
  <2>2. /\ \/ pc'[c] = "dial" /\ gateway' = c /\ conn' = [conn EXCEPT ![c] = "made"]
           \/ pc'[c] = "thrown" /\ UNCHANGED <<gateway, conn>>
        /\ UNCHANGED <<op, contract, telemetry, instruments, gauge, habit>>
    BY <1>0, <1>3 DEF OpenWallet, Goto, Types
  <2>3. Open' \subseteq Open /\ (Failed' <=> Failed \/ pc'[c] = "thrown")
    BY <1>0, <2>1, <2>2, Failures DEF Open, Phase, Is, Types
  <2>4. Open = {}
    BY <1>0, <2>1 DEF Orderly
  <2> QED
    BY <1>0, <2>1, <2>2, <2>3, <2>4, OrderlyAfter DEF Orderly
<1>4. CASE Dialled(c)
  <2>1. /\ pc[c] = "dial" /\ gateway = c /\ contract = None
        /\ habit = "connected" /\ telemetry = c /\ c \in instruments
    BY <1>0, <1>4 DEF Dialled
  <2>2. /\ \/ /\ pc'[c] = "channel" /\ using'[c] = c
              /\ conn'[c] = "open" /\ Open' \subseteq Open \union {c}
           \/ pc'[c] = "thrown" /\ UNCHANGED conn /\ Open' = Open
        /\ UNCHANGED <<op, gateway, contract, telemetry, instruments, gauge, habit>>
    <3>1. CASE UNCHANGED conn
      BY <1>0, <1>4, <3>1 DEF Dialled, Goto, Types, Open
    <3>2. CASE conn' = [conn EXCEPT ![c] = "open"]
      <4>1. conn'[c] = "open" /\ Open' \subseteq Open \union {c}
        BY <1>0, <3>2 DEF Types, Open
      <4>2. c \in {g \in Calls : conn'[g] # "made"}
        BY <4>1
      <4> QED
        BY <1>0, <1>4, <2>1, <3>2, <4>1, <4>2 DEF Dialled, Goto, Types, Open
    <3> QED
      BY <1>4, <3>1, <3>2 DEF Dialled
  <2>3. Failed' <=> Failed \/ pc'[c] = "thrown"
    BY <1>0, <2>1, <2>2, Failures DEF Phase, Is
  <2> QED
    BY <1>0, <2>1, <2>2, <2>3, OrderlyAfter DEF Orderly
<1>5. CASE JoinChannel(c)
  <2>1. /\ pc[c] = "channel" /\ gateway = c /\ contract = None /\ using[c] = c /\ conn[c] = "open"
        /\ habit = "connected" /\ telemetry = c /\ c \in instruments
    BY <1>0, <1>5 DEF JoinChannel
  <2>2. /\ \/ pc'[c] = "ok" /\ contract' = c /\ gauge' = gauge + 1
           \/ pc'[c] = "thrown" /\ UNCHANGED <<contract, gauge>>
        /\ UNCHANGED <<op, gateway, telemetry, instruments, habit, conn>>
    BY <1>0, <1>5, <2>1, Counts DEF JoinChannel, Goto, Types
  <2>3. Open' = Open /\ (Failed' <=> Failed \/ pc'[c] = "thrown")
    BY <1>0, <2>1, <2>2, Failures DEF Open, Phase, Is
  <2> QED
    BY <1>0, <2>1, <2>2, <2>3, OrderlyAfter DEF Orderly, Types
<1> QED
  BY <1>1, <1>2, <1>3, <1>4, <1>5

LEMMA DisconnectOrderly ==
  ASSUME Kept, Orderly, NEW c \in Calls, Tidy',
         DisconnectBegin(c) \/ DisconnectEnd(c) \/ Shutdown(c)
  PROVE  Orderly'
<1> USE DEF Connecting, Disconnecting, AtWork, Working, Held
<1>0. /\ Connects(c) /\ AtWork(c) /\ Types /\ Phase(c)
      /\ None \notin Calls /\ Open \subseteq Calls
  BY ClientAssumption DEF Connects, Orderly, Kept, ClientAssumption, Open
<1>1. CASE DisconnectBegin(c)
  <2>1. /\ pc[c] = "idle" /\ ~Busy /\ Tidy /\ ~Is(c, {"connect"})'
        /\ UNCHANGED <<gateway, contract, telemetry, instruments, gauge>>
    BY <1>0, <1>1, PlainOps DEF DisconnectBegin, Begin, Types, Tidy, Is
  <2>2. (Failed' <=> Failed) /\ \A d \in Calls : pc[d] # "closing"
    BY <1>0, <2>1, Failures DEF Busy
  <2>3. CASE gateway = None /\ habit' = "apart" /\ pc'[c] = "ok" /\ UNCHANGED conn
    <3>1. Open = {} /\ Open' = Open
      BY <1>0, <2>1, <2>3 DEF Orderly, Tidy, Open, Types
    <3> QED
      BY <1>0, <2>1, <2>2, <2>3, <3>1, OrderlyAfter DEF Orderly
  <2>4. CASE gateway # None /\ habit' = habit /\ pc'[c] = "thrown" /\ UNCHANGED conn
    <3>1. Open' = Open /\ habit # "apart"
      BY <2>2, <2>4 DEF Open, Orderly
    <3> QED
      BY <1>0, <2>1, <2>2, <2>4, <3>1, OrderlyAfter DEF Orderly
  <2>5. CASE /\ gateway # None /\ habit' = "apart" /\ pc'[c] = "closing"
             /\ conn' = [conn EXCEPT ![gateway] = "closed"]
    <3>1. Open \subseteq {gateway} /\ (contract # None \/ Failed)
      BY <1>0, <2>1, <2>2, <2>5 DEF Orderly, Tidy, Types
    <3>2. Open' = {}
      BY <1>0, <2>5, <3>1 DEF Open, Types
    <3> QED
      BY <1>0, <2>1, <2>2, <2>5, <3>1, <3>2, OrderlyAfter DEF Orderly
  <2> QED
    BY <1>0, <1>1, <2>1, <2>3, <2>4, <2>5 DEF DisconnectBegin, ToDisconnect, Begin, Goto, Types
<1>2. CASE DisconnectEnd(c)
  <2>1. /\ pc[c] = "closing" /\ habit = "apart" /\ gateway # None
        /\ Open = {} /\ telemetry \in instruments /\ (contract # None \/ Failed)
    BY <1>0, <1>2 DEF DisconnectEnd, Orderly
  <2>2. /\ pc'[c] = "shutdown" /\ gateway' = None /\ contract' = None /\ gauge' = gauge - 1
        /\ UNCHANGED <<telemetry, instruments, habit, conn>>
    BY <1>0, <1>2, <2>1, Counts DEF DisconnectEnd, Clear, Goto, Types
  <2>3. Open' = Open /\ (Failed' <=> Failed)
    BY <1>0, <2>2, Failures DEF Open
  <2> QED
    BY <1>0, <2>1, <2>2, <2>3, OrderlyAfter DEF Orderly, Types
<1>3. CASE Shutdown(c)
  <2>1. pc[c] = "shutdown" /\ habit = "apart" /\ gateway = None /\ Open = {}
    BY <1>0, <1>3 DEF Shutdown, Orderly, Alone
  <2>2. pc'[c] = "ok" /\ UNCHANGED <<gateway, contract, telemetry, instruments, gauge, habit, conn>>
    BY <1>0, <1>3 DEF Shutdown, client, Goto, Types
  <2>3. Open' = Open /\ (Failed' <=> Failed)
    BY <1>0, <2>2, Failures DEF Open
  <2> QED
    BY <1>0, <2>1, <2>2, <2>3, OrderlyAfter DEF Orderly
<1> QED
  BY <1>1, <1>2, <1>3

LEMMA TidinessStep ==
  ASSUME Kept, Tidiness, [Next]_vars
  PROVE  Tidiness'
<1> SUFFICES ASSUME Tidy' PROVE Orderly'
  BY DEF Tidiness
<1>1. Orderly
  BY TidyStays DEF Tidiness
<1> QED
  BY <1>1, OrdinaryOrderly, ConnectOrderly, DisconnectOrderly, Steps DEF Connects

-----------------------------------------------------------------------------
(* The exported count is within the connects that have succeeded and the   *)
(* disconnects that have counted.                                          *)

Ups == {c \in Calls : Is(c, {"connect"}) /\ pc[c] = "ok"}
Downs == {c \in Calls : Is(c, {"disconnect"}) /\ pc[c] \in {"shutdown", "ok"}}

Bounded == -Cardinality(Downs) <= gauge /\ gauge <= Cardinality(Ups)

(* Sets of calls are finite, and more calls are no fewer. *)
LEMMA Sizes ==
  ASSUME NEW S, NEW T, S \subseteq T, T \subseteq Calls
  PROVE  /\ Cardinality(S) \in Nat /\ Cardinality(T) \in Nat
         /\ Cardinality(S) <= Cardinality(T)
         /\ \A c \in T \ S : Cardinality(S) + 1 <= Cardinality(T)
<1>1. IsFiniteSet(T) /\ IsFiniteSet(S)
  BY ClientAssumption, FS_Subset DEF ClientAssumption
<1>2. Cardinality(S) \in Nat /\ Cardinality(T) \in Nat /\ Cardinality(S) <= Cardinality(T)
  BY <1>1, FS_Subset, FS_CardinalityType
<1>3. ASSUME NEW c \in T \ S PROVE Cardinality(S) + 1 <= Cardinality(T)
  <2>1. Cardinality(S \union {c}) = Cardinality(S) + 1
    BY <1>1, FS_AddElement
  <2>2. Cardinality(S \union {c}) <= Cardinality(T)
    BY <1>1, FS_Subset
  <2> QED
    BY <2>1, <2>2
<1> QED
  BY <1>2, <1>3

LEMMA BoundedStep ==
  ASSUME Kept, Bounded, [Next]_vars
  PROVE  Bounded'
<1>1. CASE Ordinary
  <2>1. \A d \in Calls : (d \in Ups)' <=> d \in Ups
    BY <1>1 DEF Ordinary, Ups, Is, Same
  <2>2. \A d \in Calls : (d \in Downs)' <=> d \in Downs
    BY <1>1 DEF Ordinary, Downs, Is, Same
  <2>3. Ups' = Ups /\ Downs' = Downs
    BY <2>1, <2>2 DEF Ups, Downs
  <2> QED
    BY <1>1, <2>3 DEF Ordinary, client, Bounded
<1>2. ASSUME NEW c \in Calls, Connects(c) PROVE Bounded'
  <2>1. /\ \A d \in Calls \ {c} : Same(d)
        /\ pc[c] # "idle" => op'[c] = op[c] /\ pc[c] # "ok"
        /\ pc[c] = "shutdown" => pc'[c] = "ok"
    BY <1>2, ConnectsMoves DEF Connects, ConnectBegin, LoadProfile, OpenWallet, Dialled, JoinChannel,
       DisconnectBegin, DisconnectEnd, Shutdown, Begin, Goto, Kept, Types, Connecting, Disconnecting
  <2>2. Ups \subseteq Ups' /\ Downs \subseteq Downs' /\ Ups' \subseteq Calls /\ Downs' \subseteq Calls
    BY <2>1 DEF Ups, Downs, Is, Same
  <2>3. /\ Cardinality(Ups) \in Nat /\ Cardinality(Ups') \in Nat
        /\ Cardinality(Downs) \in Nat /\ Cardinality(Downs') \in Nat
        /\ Cardinality(Ups) <= Cardinality(Ups') /\ Cardinality(Downs) <= Cardinality(Downs')
        /\ c \in Ups' \ Ups => Cardinality(Ups) + 1 <= Cardinality(Ups')
        /\ c \in Downs' \ Downs => Cardinality(Downs) + 1 <= Cardinality(Downs')
    BY <2>2, Sizes
  <2>4. gauge \in Int /\ gauge' \in Int
    BY <1>2, ConnectsMoves DEF Kept, Types
  <2>5. CASE gauge' = gauge
    BY <2>3, <2>4, <2>5 DEF Bounded
  <2>6. CASE JoinChannel(c) /\ gauge' # gauge
    <3>1. gauge' = gauge + 1 /\ pc[c] = "channel" /\ pc'[c] = "ok" /\ UNCHANGED op
      BY <2>6, Counts DEF JoinChannel, Goto, Kept, Types
    <3>2. c \in Ups' \ Ups
      BY <3>1 DEF Ups, Kept, Phase, Is, Connecting
    <3> QED
      BY <2>3, <2>4, <3>1, <3>2 DEF Bounded
  <2>7. CASE DisconnectEnd(c) /\ gauge' # gauge
    <3>1. gauge' = gauge - 1 /\ pc[c] = "closing" /\ pc'[c] = "shutdown" /\ UNCHANGED op
      BY <2>7, Counts DEF DisconnectEnd, Goto, Kept, Types
    <3>2. c \in Downs' \ Downs
      BY <3>1 DEF Downs, Kept, Phase, Is, Disconnecting
    <3> QED
      BY <2>3, <2>4, <3>1, <3>2 DEF Bounded
  <2> QED
    BY <1>2, <2>5, <2>6, <2>7 DEF Connects, ConnectBegin, LoadProfile, OpenWallet, Dialled,
       DisconnectBegin, Shutdown, client
<1> QED
  BY <1>1, <1>2, Steps

-----------------------------------------------------------------------------
(* The invariant holds. *)

Inv == Kept /\ Recorded /\ Gateways /\ Tidiness /\ Bounded

LEMMA InitInv == Init => Inv
<1> SUFFICES ASSUME Init PROVE Inv
  OBVIOUS
<1>1. Kept
  BY ClientAssumption DEF ClientAssumption, Init, Ledger!LedgerInit, Kept, Types, Phase,
     Waiting, Connecting, Disconnecting
<1>2. Recorded
  BY DEF Init, Ledger!LedgerInit, Recorded, Copied, SuccessCopied, ReplayIsRecorded
<1>3. Gateways
  BY DEF Init, Gateways
<1>4. Tidiness
  BY DEF Init, Tidiness, Orderly, Working, AtWork, Connecting, Disconnecting, Open, Held, Busy, Failed
<1>5. Bounded
  <2>1. Ups = {} /\ Downs = {}
    BY DEF Init, Ups, Downs
  <2> QED
    BY <2>1, FS_EmptySet DEF Init, Bounded
<1> QED
  BY <1>1, <1>2, <1>3, <1>4, <1>5 DEF Inv

LEMMA NextInv == Inv /\ [Next]_vars => Inv'
BY KeptStep, RecordedStep, GatewaysStep, TidinessStep, BoundedStep DEF Inv

THEOREM Invariance == Spec => []Inv
BY InitInv, NextInv, PTL DEF Spec

-----------------------------------------------------------------------------
(* The theorems. *)

(* Each variable keeps its type, and however connects and disconnects      *)
(* overlap the exported count of connections never leaves the number of    *)
(* calls, either way.                                                      *)
THEOREM TypeCorrect == Spec => []TypeOK
<1>1. Inv => TypeOK
  <2> SUFFICES ASSUME Inv PROVE TypeOK
    OBVIOUS
  <2>1. Ups \subseteq Calls /\ Downs \subseteq Calls
    BY DEF Ups, Downs
  <2>2. /\ Cardinality(Ups) \in Nat /\ Cardinality(Downs) \in Nat /\ Cardinality(Calls) \in Nat
        /\ Cardinality(Ups) <= Cardinality(Calls) /\ Cardinality(Downs) <= Cardinality(Calls)
    BY <2>1, Sizes
  <2>3. gauge \in -Cardinality(Calls)..Cardinality(Calls)
    BY <2>2 DEF Inv, Kept, Types, Bounded
  <2> QED
    BY <2>3 DEF Inv, Kept, Types, TypeOK, Waiting
<1> QED
  BY <1>1, Invariance, PTL

(* REPLAY_ATTACK_DETECTED is never answered for a message that no one has  *)
(* recorded, whichever of the client's errors it is made from.             *)
THEOREM ReplayIsAlwaysRecorded == Spec => []ReplayIsRecorded
<1>1. Inv => ReplayIsRecorded
  BY DEF Inv, Recorded
<1> QED
  BY <1>1, Invariance, PTL

(* However connects and disconnects overlap, the object's network and      *)
(* contract belong together, to a gateway that was dialled.                *)
THEOREM ContractAlwaysUsable == Spec => []ContractUsable
<1>1. Inv => ContractUsable
  BY DEF Inv, Gateways, ContractUsable
<1> QED
  BY <1>1, Invariance, PTL

(* An application that awaits its connects and disconnects never has a     *)
(* call sent to a gateway that is closed or still being dialled, whichever *)
(* of its connects and disconnects fail, unless it makes the call while it *)
(* disconnects.                                                            *)
THEOREM TidyCallsReachOpen == Spec => []CallsReachOpen
<1>1. Inv => CallsReachOpen
  BY ClientAssumption
  DEF ClientAssumption, Inv, Tidiness, Orderly, CallsReachOpen, Tidy, EnsureConnected, Kept, Types
<1> QED
  BY <1>1, Invariance, PTL

(* An application that awaits its connects and disconnects leaves open at  *)
(* most the gateway its client object holds, whatever fails.               *)
THEOREM TidyNeverLeaks == Spec => []NoLeak
<1>1. Inv => NoLeak
  BY DEF Inv, Tidiness, Orderly, NoLeak, Tidy, Kept, Types
<1> QED
  BY <1>1, Invariance, PTL

(* For such an application the exported count is never above the number of *)
(* connections that are open, and equals it while no connect has failed.   *)
THEOREM TidyCountsRight == Spec => []GaugeTracksOpen
<1>1. Inv => GaugeTracksOpen
  <2> SUFFICES ASSUME Inv, Tidy, ~Busy
               PROVE  /\ gauge <= Cardinality(Open)
                      /\ (\A c \in Calls : Is(c, {"connect"}) => pc[c] # "thrown")
                           => gauge = Cardinality(Open)
    BY DEF GaugeTracksOpen
  <2>1. Orderly /\ Types /\ Open \subseteq Calls /\ gauge \in Int
    BY DEF Inv, Tidiness, Kept, Types, Open
  <2>2. \A c \in Calls : pc[c] # "closing"
    BY DEF Busy, Disconnecting
  <2>3. CASE contract = None
    <3>1. Open = {} \/ Failed
      BY <2>1, <2>2, <2>3 DEF Orderly, Tidy, Types
    <3>2. Cardinality(Open) \in Nat /\ (Open = {} => Cardinality(Open) = 0)
      BY <2>1, Sizes, FS_EmptySet
    <3> QED
      BY <2>1, <2>3, <3>1, <3>2 DEF Orderly, Held, Failed
  <2>4. CASE contract # None
    <3>1. habit = "connected" /\ contract \in Calls /\ contract = gateway
      BY <2>1, <2>2, <2>4 DEF Orderly, Tidy, Types
    <3>2. Open = {contract}
      BY <2>1, <2>4, <3>1 DEF Orderly, Open
    <3>3. Cardinality(Open) = 1
      BY <3>2, FS_Singleton
    <3> QED
      BY <2>1, <2>4, <3>3 DEF Orderly, Held, Failed
  <2> QED
    BY <2>3, <2>4
<1> QED
  BY <1>1, Invariance, PTL

(* Once a submission was answered with success, no read of its key is      *)
(* answered with "not found", whichever peer is asked.                     *)
THEOREM ReadsFindWrites == Spec => ReadYourWrites
<1> DEFINE A == \A c, d \in Calls :
                  Is(c, Writers) /\ pc[c] = "ok" /\ Is(d, Getters) /\ op[d].key = op[c].key
                    => ~(pc[d] = "sent" /\ pc'[d] = "notFound")
<1>1. Inv /\ [Next]_vars => A
  <2> SUFFICES ASSUME Inv, [Next]_vars, NEW c \in Calls, NEW d \in Calls,
                      Is(c, Writers), pc[c] = "ok", Is(d, Getters), op[d].key = op[c].key,
                      pc[d] = "sent", pc'[d] = "notFound"
               PROVE  FALSE
    OBVIOUS
  <2>1. \A p \in Peers : Holds(p, op[d].key)
    BY ClientAssumption DEF ClientAssumption, Inv, Recorded, SuccessCopied, Holds
  <2>2. ~Is(d, Writers) /\ ~Is(d, Queries)
    BY Kinds DEF Is
  <2>3. ASSUME NEW e \in Calls, Connects(e) PROVE FALSE
    BY <2>3, ConnectsMoves DEF Same, Connecting, Disconnecting, Inv
  <2>4. ASSUME NEW e \in Calls, NEW o \in Ops, Calling(e, o) PROVE FALSE
    BY <2>4, CallingMoves DEF Moves, Same, Inv, Kept
  <2>5. ASSUME NEW e \in Calls, Answering(e) PROVE FALSE
    <3>1. e = d
      BY <2>5, AnsweringMoves DEF Moves, Same, Inv
    <3>2. CASE Fail(e)
      BY <3>1, <3>2 DEF Fail, Goto, Inv, Kept, Types
    <3>3. CASE AnswerSubmit(e) \/ \E p \in Peers : Endorse(e, p)
      BY <2>2, <3>1, <3>3 DEF AnswerSubmit, Endorse
    <3>4. ASSUME NEW p \in Peers, AnswerEvaluate(e, p) PROVE FALSE
      BY <2>1, <2>2, <3>1, <3>4 DEF AnswerEvaluate, Goto, Inv, Kept, Types
    <3> QED
      BY <2>5, <3>2, <3>3, <3>4 DEF Answering
  <2>6. ASSUME NEW e \in Calls, NEW p \in Peers, Commit(e, p) PROVE FALSE
    BY <2>6 DEF Commit
  <2>7. CASE UNCHANGED vars
    BY <2>7 DEF vars
  <2> QED
    BY <2>3, <2>4, <2>5, <2>6, <2>7 DEF Next, Done, Connects, Calling, Answering
<1>2. Inv /\ [Next]_vars => [A]_vars
  BY <1>1
<1> QED
  BY <1>2, Invariance, PTL DEF Spec, ReadYourWrites

=============================================================================
