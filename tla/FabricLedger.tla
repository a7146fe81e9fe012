---------------------------- MODULE FabricLedger ----------------------------
(***************************************************************************)
(* The ITS chaincode (hyperledger-fabric/chaincode/go/main.go) on a Fabric *)
(* channel.  A transaction runs the chaincode on one peer's world state    *)
(* when it is endorsed, is ordered later, and takes effect on each peer    *)
(* when the peer commits the block, if what the chaincode read has not     *)
(* changed since.  Between these steps every other transaction may move.   *)
(* The chaincode is the repository's; the peers and the orderer are        *)
(* Fabric's, modelled from how the chaincode and its configuration use     *)
(* them.                                                                   *)
(***************************************************************************)
EXTENDS Integers, Sequences, FiniteSets

CONSTANTS
  Txs,        \* the transactions clients submit (a retry is another one)
  Keys,       \* the keys of the world state: vehicle, message and alert ids
  Peers,      \* the channel's peers
  Ops,        \* the chaincode calls clients make
  Absent,     \* the value of an unwritten key, the call of a tx not submitted
  BatchSize   \* MaxMessageCount of a block

Functions == {"RegisterVehicle", "SubmitV2XMessage", "SubmitSecurityAlert"}

(* A call names the key it writes, the vehicle it mentions (the sender of  *)
(* a message, the subject of an alert) and whether its JSON decodes.       *)
Call == [fn : Functions, key : Keys, vehicle : Keys, decodes : BOOLEAN]

ASSUME LedgerAssumption ==
  /\ Ops \subseteq Call
  /\ Absent \notin Txs
  /\ Absent \notin Call \union [key : Keys, needs : SUBSET Keys]
  /\ BatchSize \in Nat \ {0}

VARIABLES
  op,       \* the call of each transaction
  status,   \* how far its client has brought it
  reads,    \* the read set of its endorsement: pairs <<key, version>>
  chain,    \* the transactions in the order of the ordering service
  blocks,   \* the lengths of the chain at which a block was cut
  height,   \* how much of the chain each peer has committed
  world     \* each peer's world state: the transaction that wrote each key

vars == <<op, status, reads, chain, blocks, height, world>>

Statuses == {"new", "endorsed", "exists", "noSender", "malformed", "ordered"}
Version == Txs \union {Absent}
WorldState == [Keys -> Version]

-----------------------------------------------------------------------------
(* The chaincode: what each function answers, and what it has read of the  *)
(* world state w by then.  Every function that answers "ok" writes one     *)
(* record under its key.                                                   *)

Exists(w, k) == w[k] # Absent
Read(w, k) == <<k, w[k]>>

RegisterVehicle(w, o) ==
  [answer |-> IF Exists(w, o.key) THEN "exists" ELSE "ok",
   reads  |-> {Read(w, o.key)}]

(* A mutant of SubmitV2XMessage: the message id is not looked up. *)
SubmitWithoutLookup(w, o) ==
  [answer |-> IF ~o.decodes THEN "malformed"
              ELSE IF ~Exists(w, o.vehicle) THEN "noSender" ELSE "ok",
   reads  |-> {Read(w, o.vehicle)}]

(* A mutant of SubmitV2XMessage: any sender will do. *)
SubmitFromAnyone(w, o) ==
  [answer |-> IF ~o.decodes THEN "malformed"
              ELSE IF Exists(w, o.key) THEN "exists" ELSE "ok",
   reads  |-> {Read(w, o.key)}]

SubmitV2XMessage(w, o) ==
  [answer |-> IF ~o.decodes THEN "malformed"
              ELSE IF Exists(w, o.key) THEN "exists"
              ELSE IF ~Exists(w, o.vehicle) THEN "noSender" ELSE "ok",
   reads  |-> {Read(w, o.key), Read(w, o.vehicle)}]

(* A mutant of SubmitSecurityAlert: it looks its vehicle up, as            *)
(* SubmitV2XMessage does, and accepts the alert whether or not it exists.  *)
AlertLooksVehicleUp(w, o) ==
  [answer |-> IF Exists(w, o.key) THEN "exists" ELSE "ok",
   reads  |-> {Read(w, o.key), Read(w, o.vehicle)}]

SubmitSecurityAlert(w, o) ==
  [answer |-> IF Exists(w, o.key) THEN "exists" ELSE "ok",
   reads  |-> {Read(w, o.key)}]

Invoke(w, o) == CASE o.fn = "RegisterVehicle" -> RegisterVehicle(w, o)
                  [] o.fn = "SubmitV2XMessage" -> SubmitV2XMessage(w, o)
                  [] OTHER -> SubmitSecurityAlert(w, o)

-----------------------------------------------------------------------------
(* The network. *)

Init == /\ op = [t \in Txs |-> Absent]
        /\ status = [t \in Txs |-> "new"]
        /\ reads = [t \in Txs |-> {}]
        /\ chain = <<>>
        /\ blocks = {0}
        /\ height = [p \in Peers |-> 0]
        /\ world = [p \in Peers |-> [k \in Keys |-> Absent]]

(* The part of the chain no block holds yet. *)
Uncut == {i \in 1..Len(chain) : \A b \in blocks : b < i}

(* The client submits: a peer that is not in the middle of a block runs    *)
(* the chaincode, and an error ends the transaction.  The policy of one    *)
(* organisation asks for one endorsement.                                  *)
Endorse(t, o, p) ==
  /\ status[t] = "new"
  /\ height[p] \in blocks
  /\ LET result == Invoke(world[p], o)
     IN /\ op' = [op EXCEPT ![t] = o]
        /\ status' = [status EXCEPT ![t] = IF result.answer = "ok" THEN "endorsed" ELSE result.answer]
        /\ reads' = [reads EXCEPT ![t] = IF result.answer = "ok" THEN result.reads ELSE {}]
  /\ UNCHANGED <<chain, blocks, height, world>>

(* A mutant of Order: a block takes any number of transactions. *)
OrderWithoutLimit(t) ==
  /\ status[t] = "endorsed"
  /\ chain' = Append(chain, t)
  /\ status' = [status EXCEPT ![t] = "ordered"]
  /\ UNCHANGED <<op, reads, blocks, height, world>>

(* The client sends the endorsed transaction to the ordering service. *)
Order(t) ==
  /\ status[t] = "endorsed"
  /\ Cardinality(Uncut) < BatchSize
  /\ chain' = Append(chain, t)
  /\ status' = [status EXCEPT ![t] = "ordered"]
  /\ UNCHANGED <<op, reads, blocks, height, world>>

(* A mutant of Cut: only a full block is cut. *)
CutWhenFull ==
  /\ Cardinality(Uncut) = BatchSize
  /\ blocks' = blocks \union {Len(chain)}
  /\ UNCHANGED <<op, status, reads, chain, height, world>>

(* A block is cut when it is full or the batch timeout has passed. *)
Cut ==
  /\ Uncut # {}
  /\ blocks' = blocks \union {Len(chain)}
  /\ UNCHANGED <<op, status, reads, chain, height, world>>

(* Every version read is still the current one. *)
Current(t, w) == \A x \in reads[t] : w[x[1]] = x[2]

(* Peer p validates and commits the next transaction of a block. *)
Commit(p) ==
  /\ \E b \in blocks : height[p] < b
  /\ height' = [height EXCEPT ![p] = @ + 1]
  /\ LET t == chain[height[p] + 1]
     IN \/ /\ Current(t, world[p])
           /\ world' = [world EXCEPT ![p][op[t].key] = t]
        \/ /\ ~Current(t, world[p])
           /\ UNCHANGED world
  /\ UNCHANGED <<op, status, reads, chain, blocks>>

(* No transaction is under way and every peer is up to date. *)
Quiescent == /\ \A t \in Txs : status[t] \notin {"new", "endorsed"}
             /\ \A p \in Peers : height[p] = Len(chain)
             /\ UNCHANGED vars

Next == \/ \E t \in Txs : \/ \E o \in Ops, p \in Peers : Endorse(t, o, p)
                          \/ Order(t)
        \/ Cut
        \/ \E p \in Peers : Commit(p)
        \/ Quiescent

Spec == Init /\ [][Next]_vars

(* The batch timeout cuts every block, and every peer commits the blocks   *)
(* it is sent; clients may stop at any point.                              *)
Fairness == WF_vars(Cut) /\ \A p \in Peers : WF_vars(Commit(p))
FairSpec == Spec /\ Fairness

-----------------------------------------------------------------------------
(* The properties of the component. *)

(* What each variable holds; an open block never exceeds the batch size,   *)
(* and a peer never commits more than was ordered.                         *)
TypeOK ==
  /\ op \in [Txs -> Ops \union {Absent}]
  /\ status \in [Txs -> Statuses]
  /\ reads \in [Txs -> SUBSET (Keys \X Version)]
  /\ chain \in Seq(Txs)
  /\ blocks \subseteq 0..Len(chain)
  /\ height \in [Peers -> 0..Len(chain)]
  /\ world \in [Peers -> WorldState]
  /\ Cardinality(Uncut) <= BatchSize

(* A message in a peer's world state has its sender's record there too,    *)
(* ordered before it, although the sender was looked up on another peer    *)
(* and earlier than the message was committed.                             *)
SenderFirst ==
  \A p \in Peers, k \in Keys :
    LET t == world[p][k]
    IN  t # Absent /\ op[t].fn = "SubmitV2XMessage" =>
          /\ Exists(world[p], op[t].vehicle)
          /\ \E i, j \in 1..height[p] :
               i < j /\ chain[i] = world[p][op[t].vehicle] /\ chain[j] = t

(* Validation drops a transaction only because an earlier one took its     *)
(* key: no transaction is lost to a conflict on anything else it read.     *)
DroppedIsDuplicate ==
  \A p \in Peers : \A j \in 1..height[p] :
    \E i \in 1..j : /\ op[chain[i]].key = op[chain[j]].key
                    /\ world[p][op[chain[j]].key] = chain[i]

(* Once a transaction is ordered, every peer comes to hold a record under  *)
(* its key, be it its own or that of the one that came first.              *)
OrderedIsWritten ==
  \A t \in Txs, p \in Peers :
    status[t] = "ordered" ~> (op[t] # Absent /\ Exists(world[p], op[t].key))

(* The channel as a WriteOnceLedger: its record is what any peer holds.    *)
Needs(o) == IF o.fn = "SubmitV2XMessage" THEN {o.vehicle} ELSE {}

Request == [t \in Txs |-> IF op[t] = Absent THEN Absent
                          ELSE [key |-> op[t].key, needs |-> Needs(op[t])]]

Record == [k \in Keys |->
             IF \E p \in Peers : Exists(world[p], k)
             THEN world[CHOOSE p \in Peers : Exists(world[p], k)][k]
             ELSE Absent]

Ledger == INSTANCE WriteOnceLedger WITH
            Writes <- Txs, Replicas <- Peers, Nothing <- Absent,
            request <- Request, record <- Record, copies <- world

(* Whatever the endorsements read and whenever, every peer's commits are   *)
(* those of one ledger whose keys are written once and whose messages have *)
(* a sender; peers that lag hold a part of it.                             *)
ImplementsLedger == Ledger!LedgerSpec

-----------------------------------------------------------------------------
(* The inductive invariant behind all of these. *)

KeyAt(i) == op[chain[i]].key

(* The i-th ordered transaction is the first that asks for its key. *)
First(i) == \A j \in 1..(i - 1) : KeyAt(j) # KeyAt(i)

(* A call is known from endorsement on, and ordered is on the chain. *)
CallsKnown == /\ \A t \in Txs : status[t] = "new" <=> op[t] = Absent
              /\ \A i \in 1..Len(chain) : status[chain[i]] = "ordered"

(* Transaction t has read its key, unwritten, and a message its sender, as *)
(* written by the first transaction for it among n of the chain.           *)
ReadsTrue(t, n) ==
  IF op[t].fn = "SubmitV2XMessage"
  THEN \E j \in 1..n : /\ First(j)
                        /\ KeyAt(j) = op[t].vehicle
                        /\ reads[t] = {<<op[t].key, Absent>>, <<op[t].vehicle, chain[j]>>}
  ELSE reads[t] = {<<op[t].key, Absent>>}

ReadsKnown == /\ \A t \in Txs : status[t] = "endorsed" => ReadsTrue(t, Len(chain))
              /\ \A i \in 1..Len(chain) : ReadsTrue(chain[i], i - 1)

(* Under each key a peer holds the first transaction it has committed for  *)
(* it.                                                                     *)
WorldIsFirst ==
  \A p \in Peers, k \in Keys :
    IF Exists(world[p], k)
    THEN \E i \in 1..height[p] : chain[i] = world[p][k] /\ KeyAt(i) = k /\ First(i)
    ELSE \A i \in 1..height[p] : KeyAt(i) # k

LedgerInv == TypeOK /\ CallsKnown /\ ReadsKnown /\ WorldIsFirst

-----------------------------------------------------------------------------
(* What the documentation says and the code does not do. *)

(* "Sender verification (vehicle must be registered)": the record under a  *)
(* message's sender is a vehicle's.                                        *)
SenderIsVehicle ==
  \A p \in Peers, k \in Keys :
    LET t == world[p][k]
    IN  t # Absent /\ op[t].fn = "SubmitV2XMessage" =>
          op[world[p][op[t].vehicle]].fn = "RegisterVehicle"

=============================================================================
