# A formal model of v2x-blockchain-security

TLA+ modules that model the program under `src/`, the TLC configurations that
check them on small instances, and theorems about them that TLAPS proves for
every instance. `PROJECT.json` lists the runs, the mutants that show each
property can fail, the source lines each definition stands for, the findings,
the hazards and the theorems.

    tlc -workers 2 -config Gateway.cfg MCGateway      # a run
    tlapm GatewayProofs.tla                           # a proof module

## 1. The system

A road-side unit (RSU) takes V2X messages from vehicles, checks them and hands
the critical ones to a blockchain. Three ledgers are compared: Hyperledger
Fabric, Ethereum with proof of authority, and the IOTA Tangle, each with a
JavaScript client; a benchmark framework drives the clients, an OMNeT++
simulation imitates them. The parts are separate programs: nothing in the
repository connects the gateway's blockchain adapter to one of the clients.

| Component | State | Operations | Talks to |
|---|---|---|---|
| RSU gateway, processing (`gateway-rsu/internal/application`, `.../domain`) | five atomic counters; the entity of the message in hand | `ProcessMessage`, `ProcessBatch`, `GetStatistics` | its two ports, by calls |
| Gateway, security adapter | `replayCache`, under a mutex | `ValidateSignature`, `CheckReplayAttack`, `ValidatePlausibility` | the wall clock |
| Gateway, blockchain adapter | `pendingTxs`, under nothing | `SubmitTransaction`, `SubmitBatch` (never called) | |
| Gateway, REST and gRPC adapters | none | one message, a batch, a stream, statistics, health | one shared service, from many goroutines |
| Gateway, server and telemetry | the process's lifetime | start, shutdown | ports, an OTLP collector |
| Fabric chaincode (`hyperledger-fabric/chaincode`) | the world state: id to record | `RegisterVehicle`, `SubmitV2XMessage`, `SubmitSecurityAlert`, queries | the peer's `GetState`, `PutState` |
| Fabric network (`hyperledger-fabric/config`) | chain, blocks, each peer's height and world state | endorse, order, cut, validate, commit | |
| Fabric client (`client/nodejs/index.js`) | gateway, network, contract and telemetry handles | connect, disconnect, submit, query, collect | the network, through fabric-network |
| Fabric client's `MetricsCollector` | latency lists, counters, counts by type | record, report, reset | nothing; its caller holds reports |
| Ethereum contract (`ethereum-poa/contracts`) | vehicles, messages, alerts, their id lists, account to vehicle | register, submit message, submit alert, getters | |
| Ethereum client | contract, account and telemetry handles | initialize, writes as the contract's, getters, list-then-fetch queries | the contract, through a node |
| IOTA client | the SDK client handle | initialize, post tagged blocks, query by tag | the Tangle, through a node |
| Client telemetry | counters and instruments | initialize, count, shut down | an exporter |
| IOTA identity | a map of identities (placeholder) | create, get | imported by nothing but its test |
| Benchmarks | metrics lists, counters in flight | latency, throughput, scalability, robustness, load patterns | a client |
| Simulation | pending transactions, self-messages | submit, confirm | the OMNeT++ kernel |

What is hard, and what makes each part correct:

* **Gateway.** Every request is a goroutine. They meet at the cache, the
  counters, the slice of pending transactions and the clock. A replay must be
  refused however requests interleave; a refusal must have a cause; every
  message must be counted once; every request must end; what is pending must
  be sound although the slice is not locked; a restart must forget everything
  at once.
* **Fabric.** A transaction reads one peer's state when it is endorsed and
  takes effect on other peers later. Keys must be written once, a message only
  after its sender on every peer, and validation must drop nothing but
  duplicates; what is ordered must reach every peer.
* **Fabric client.** Connection handles change while calls are under way; a
  retry after a timeout meets its own success.
* **Ethereum.** Calls are atomic, but emptiness of an id stands for absence, so
  empty ids and second registrations are the boundaries; reads of lists span
  several blocks.
* **IOTA.** Nothing is refused: duplicates, partial answers and late blocks are
  the client's to handle.
* **Metrics and benchmarks.** Percentiles at the edges, reports that share state
  with what they report on, ids made from counts.

`PROJECT.json` lists the hazards line by line.

## 2. Modules

| Module | What it is |
|---|---|
| `ReplayGuard` | abstract: what the gateway promises about replays |
| `Gateway` | the gateway, one action per step between accesses to shared state |
| `MCGateway` | the bodies, ports and symmetry of its runs |
| `GatewayProofs`, `GatewayAccounting` | theorems about `Gateway` |
| `WriteOnceLedger` | abstract: what the chaincode promises about its ledger |
| `FabricLedger` | the chaincode on a channel |
| `MCFabricLedger` | the calls and symmetry of its runs |
| `FabricLedgerProofs` | theorems about `FabricLedger` |
| `FabricClient` | one Fabric client object and the calls on it, over a `WriteOnceLedger` |
| `MCFabricClient` | the calls and symmetry of its run |
| `FabricClientProofs` | theorems about `FabricClient` |
| `VehicleRegistry` | abstract: what the ITS contract promises |
| `ITSRegistry` | the contract: state, reverts, the three functions |
| `EthereumClient` | clients on one node of the chain that holds the contract; extends `ITSRegistry` |
| `MCEthereumClient` | the calls, accounts and symmetry of its run |
| `EthereumProofs` | theorems about the contract in `EthereumClient` and the answers of writes |
| `EthereumReads` | theorems about what its clients read and count; extends `EthereumProofs` |
| `IotaClient` | one IOTA client, the Tangle and its index |
| `MCIotaClient` | the calls and the others' blocks of its run |
| `IotaProofs` | theorems about `IotaClient` |
| `MetricsCollector` | the Fabric client's collector of metrics |
| `MCMetricsCollector` | the samples of its run |
| `MetricsProofs` | theorems about `MetricsCollector` |

`FabricLedger` is shown to implement `WriteOnceLedger`; `FabricClient` is built
on `WriteOnceLedger`, so that its run need not repeat endorsement, blocks and
validation. `EthereumClient` composes the clients with the contract itself.

### Gateway

A request `r` has a program counter `pc[r]`, the adapter it came through, its
body, the entity made of it, its outcome and the lifetime of the process that
received it. Shared are the cache, the lock `mu` on it, the pending
transactions, the counters and the clock.

| `pc` | action | code |
|---|---|---|
| `idle` | `Receive`, `RejectBody` | the adapters; `ProcessMessage`'s first counter |
| `convert` | `Convert`, `ConversionFails` | `dtoToEntity`, `NewV2XMessage`, `Validate` |
| `secure` | `CheckReplayAttack`, `PortFails` | the signature; the lock and the lookup: a replay unlocks and returns |
| `insert` | `InsertKey` | the key is new: it is inserted, and the lock released |
| `plausible` | `ValidatePlausibility` | ranges and freshness, by the clock of that moment |
| `dispatch` | `Aggregate`, `SubmitLoad`, `PortFails` | critical or not |
| `append` | `SubmitStore` | the second half of the unlocked append |
| `tally`, `tallyStatus` | `TallyVerdict`, `TallyStatus` | the two atomic additions |
| `returned`, `lost` | | answered; ended with its process |

`Tick` is the clock, `Crash` a shutdown or crash followed by a start.
Abstractions:

* A body is an id, a timestamp, a priority, and whether everything else
  `Validate` asks for is there. Missing fields and fields of another type are
  both incomplete. A missing or non-numeric priority is 0, as in the code.
* A time is an instant and the text `Format` makes of it. The key holds the
  text, freshness the instant; so fractions of a second and time zones act as
  they do in the code, and a timestamp that does not parse is the clock's.
* The ports' answers that the wired adapters never give (a bad signature after
  `Validate`, errors) are in the constant `PortFaults`: the use case and the
  service handle them, so they are checked; `{}` is the program as wired.
* `MayStart` keeps one stream and one batch sequential within itself. More
  streams add nothing that unary calls do not: each is a goroutine.
* The unlocked append is a load of the slice header and a store. The store
  leaves at each place what the appender read or what is there now, which
  covers an array that moved and one that did not. Not covered: a header whose
  three words come from two stores, and an element not yet written when
  another append copies the array. What is said of `pendingTxs` is said within
  this abstraction.
* The answer's encoding, the batch's answer and telemetry change no state.
* Counters are natural numbers: 2^64 messages are out of reach.

`ReplayGuard` knows only claims on keys and verdicts. `Claims` and `Verdict`
in `Gateway` are the refinement mapping: a claim is a key inserted by a
request of this lifetime that passed the cache. Its point is what it allows:
a request may be refused for no reason, a claim outlives the refusal of its
holder, and a restart ends every open request and every claim together.

### FabricLedger

A transaction has a call, a status, and the read set of its endorsement
(pairs of a key and the transaction that wrote it). The chaincode functions
are operators from a world state and a call to an answer and the keys read;
`Endorse` runs one on a peer between two blocks, `Order` appends to the chain,
`Cut` ends a block (full or on timeout), `Commit` validates and applies one
transaction on one peer. Abstractions:

* A record is the transaction that wrote it. Under its key a message or an
  alert holds nothing later steps read, but for being there.
* The policy in `config/configtx.yaml` (`OR('Org1MSP.peer')`, one
  organisation) asks for one endorsement, so `time.Now()` in
  `RegisterVehicle` cannot make endorsements disagree here.
* Peers, orderer and validation are Fabric's. They are modelled from how
  chaincode and configuration rely on them, and marked external where no line
  of `src/` stands for them. Peers do not lose what they committed.
* A retry by a client is another transaction. A client may stop between
  endorsement and ordering.
* Queries read one world state and are not modelled. Keys are not empty:
  Fabric refuses an empty key.

`WriteOnceLedger` has no chain and no blocks: a write takes effect on a first
replica, the others follow, none needs anything that is not on it.

### FabricClient

JavaScript runs a call to its next `await` and then lets any other call go on.
An action is what a call does between two awaits; `pc[c]` names the await it is
at, and `using[c]` the gateway it took from the object before it. Connection
fields (`gateway`, `network`, `contract`, `telemetry`) are shared by all calls;
a gateway is named by the connect that made it.

| `pc` | action | code |
|---|---|---|
| `idle` | `ConnectBegin`, `DisconnectBegin`, `RegisterVehicle`, ... | a call up to its first await |
| `initialize`, `wallet`, `dial`, `channel` | `LoadProfile`, `OpenWallet`, `Dialled`, `JoinChannel` | `connect` after the telemetry, the wallet, the gateway, the network |
| `closing`, `shutdown` | `DisconnectEnd`, `Shutdown` | `disconnect` after the gateway and the telemetry |
| `sent` | `Endorse`, `AnswerSubmit`, `AnswerEvaluate`, `Fail` | the SDK's answers |
| `ok`, `replay`, `notFound`, `thrown` | | how the call ended |

The ledger's side goes on whatever becomes of a call: a transaction commits on
each peer after its caller timed out or disconnected. Abstractions:

* The SDK answers a submission when every connected peer of the organisation
  has reported it (fabric-network's default, which the client does not change;
  `Committed`). In the model every peer is connected, which is exact for the
  one peer of the repository's profile and assumes more for the run's two.
  `ReadYourWrites` rests on this; its mutant is the client's, a getter that
  takes any error for a missing key.
* Two connects may overlap. `getNetwork` is then asked of the gateway the
  object holds, not of the one just dialled, as in the code; a gateway that is
  not dialled yet, or null, makes the call throw.
* Fields of a message that the client's validation tells apart are one flag.

### ITSRegistry and EthereumClient

`ITSRegistry` has the contract's seven variables and, for each function that
writes, an action and an operator that gives the reason it would revert. What
is absent is told by an empty id, as in the contract, so the empty id is one of
`Ids`. `EthereumClient` adds per client its initialization, contract object
and account, and per call its program counter, its transaction and what a read
has collected.

| action | code |
|---|---|
| `Initialize`, `LoadContract`, `LoadAccount` | `initialize`, up to and after each await |
| `SendRegisterVehicle`, `SendSubmitV2XMessage`, `SendSubmitSecurityAlert` | a write up to `send`'s await: validated, tried out by the node, or pending |
| `Mine` | the chain: the function takes effect, or reverts |
| `Receive`, `Fail` | the receipt; an error, with the transaction still pending or not |
| `Ask`, `Get`, `ListIds`, `ReadNext` | a read's request; its answer; a listing's ids, then each of them |

Abstractions:

* An application awaits each `initialize` of a client before it asks for the
  next on the same client; calls on it may overlap it. The code does not
  insist on it, and nothing stated here is about two that overlap.
* No order among the transactions of an account is assumed: nonces are asked
  for when a transaction is prepared, and calls overlap.
* A client's private key (`KeyOf`) is the same at each `initialize`; without
  one it takes the node's first account (`First`), or none if there is none.
* A post's content is the call that made it, which is what identifies it.
* That a call's error carries the contract's reason is possible, not certain.
* `eth.connections.active` is only ever raised (nothing disconnects), and only
  registrations are counted in telemetry by more than one path; the other
  instruments are not modelled.

`VehicleRegistry` has owners and posts under proper ids only. It allows what
the contract does with proper ids, and knows no lists, accounts' reverse
mapping or empty ids. What the contract does with the empty id is a stutter of
it: registered once, it binds nobody; posted, it is listed and never found.

### IotaClient

A call's block is named by the call. A block is in flight, on the Tangle, and
in the node's index, in this order and each after any delay. Others' blocks are
on the Tangle from the start and enter the index at any time.

| `pc` | action | code |
|---|---|---|
| `idle` | `AskInfo`, `RegisterVehicle`, `SubmitV2XMessage`, `SubmitSecurityAlert`, `Ask` | a call up to its first await |
| `info` | `AnswerInfo` | `getInfo` |
| `posted` | `AnswerPost` | `buildAndPostBlock` |
| `asked` | `Indexed` | `getBlocksByTag` |
| `fetching` | `Fetch` | `getBlock` of one block, in `queryBlock` and in the loop |
| any of them | `Fail` | the `catch` |

Every query goes through `queryMessagesByTag`, then filters (`Wanted`); a
getter takes the first of what is left, which is any, since nothing in the code
orders the index. What the model therefore does not promise, because the code
does not: that a write is found by a query made before it is indexed, and that
a message id is used once (the Tangle refuses nothing). `getBlocksByTag` is
modelled from the client's use of it and from the mocks of its tests: a list of
the block ids the node has indexed under a tag at that moment.

### MetricsCollector

A latency array is a bag: how often each sample occurs. How many it has is the
number of its `Entries`, one for each occurrence of a sample. `Percentile` is the
code's index into the sorted values; `floor(0.95 n)` in floating point equals
`n * 95 \div 100` for every n below two million. `GenerateReport` keeps what a
caller could hold: the total, which was copied, and the counts by type, which
are the collector's own object until `reset` replaces it.

## 3. Runs

| Run | Question | Result |
|---|---|---|
| `Gateway` | do replays, refusals, counters and pending transactions stay right in every interleaving, and is every step one of the guard's? | holds |
| `GatewayProgress` | is every request answered, with one lock for all of them? | holds |
| `FabricLedger` | are keys written once, senders first, only duplicates dropped, on peers that lag? | holds |
| `FabricProgress` | does everything ordered end up on every peer? | holds |
| `FabricClient` | what may a caller conclude from an answer, and do the connection and its exported count survive overlapping, failing connects? | holds |
| `EthereumClient` | do the contract's mappings and lists, the answers and the listings agree when transactions are mined late and in any order, with empty ids among them? | holds |
| `IotaClient` | are answers complete but for failed fetches, do the readers find what the writers post, and does every call end? | holds |
| `MetricsCollector` | do counters, target and held reports stay right across resets? | holds |
| `GatewayLostAppend` | is a transaction answered as submitted with the adapter? | no: racing appends lose it |
| `GatewayGrpcPriority` | are non-critical messages aggregated on every route? | no: gRPC loses the priority |
| `GatewayNeverBatched` | does an aggregated message reach the blockchain adapter? | no: it is kept nowhere |
| `FabricSender` | is a message's sender a vehicle? | no: any key will do |

The properties, by hazard:

* `AtMostOnce`: two requests, one key, one lifetime, never both accepted.
* `RefusalHasCause`: a replay verdict points at another request with the key.
  It does not say that the other was accepted, and it cannot: a message
  found stale after its key was inserted is refused, and so is its retry.
* `Accounting`: received = validated + rejected + undecided, and validated =
  submitted + aggregated + those between the two additions, at every moment.
* `PendingSound`: distinct, critical, of this lifetime, key in the cache.
* `ImplementsGuard`, `ImplementsLedger`: the refinements.
* `EveryRequestEnds`: a request waits for the lock and nothing else, so each
  path out of `CheckReplayAttack` must release it, a replay's too.
* `OrderedIsWritten`: progress, which rests on the batch timeout.
* `SenderFirst`, `DroppedIsDuplicate`: on every peer, at every height.
* `SuccessIsMined`: what the Ethereum client calls a success is on the chain as
  this call's and stays there: one winner of several calls for one id, whoever
  timed out and retried. On Fabric this is the SDK's promise and write-once
  keys', and not stated of the client; on IOTA a post is a success as soon as
  the node takes it, and an id may have many.
* `ReplayIsRecorded`, `ReplayIsStored`: a replay is only reported of an id that
  is stored. It may be the caller's own, of an attempt that timed out.
* `ReadYourWrites`, `ReadsSeeWrites`, `AnswersComplete`, `NotFoundIsTrue`: what
  a read may leave out. A listing reads its ids and then each record, while
  others are added; on Ethereum it is complete and without duplicates all the
  same, on IOTA it is complete but for the fetches that failed.
* `WritesAreFound`: on IOTA the tag, the type and the fields that a reader asks
  for are those its writer posts: what the client wrote, and the node indexed,
  every reader of its kind finds unless its fetch fails.
* `ContractUsable`, `CallsReachOpen`, `NoLeak`, `GaugeTracksOpen`: the
  connection. A call that passes `_ensureConnected` goes to the object's own
  gateway, and it is open: not to the one before it after a connect that
  failed half-way. (Only while a disconnect waits for the gateway to close does
  a call still go to it.) The last three are about an application that awaits
  each connect and disconnect and disconnects before it connects again; for
  others the code does leak gateways. Even then the exported count is only exact while no connect has
  failed: a connect that fails after its gateway was dialled is not counted,
  its disconnect is.
* `EmptyAlertPoisons`: an alert with the empty id makes every later listing of
  alerts fail; nothing else in the contract's state makes any listing fail.
* `ListsMatchMappings`, `AddressesMatchVehicles`, `ImplementsRegistry`: the
  contract, over every order of mining.
* `RegistrationsCounted`: the exported count, exact unless a client is
  initialized again while calls are in flight.
* `TargetIsExact`: the 95th percentile meets the target exactly when more than
  95 % of the samples do, so that 95 % do not do.
* `HeldReportAddsUp`, `CountersMatchRecords`: across recordings and resets.
* `CallsEnd`: progress.

Bounds. `Gateway`: three requests are enough for a winner, a loser and a
bystander at each shared variable, and for three appends; one id, so that all
keys can meet; two ticks, so that a message can be fresh or stale and the
clock can move between any two steps; one restart. `FreshWindow = 0` makes one
tick count as the code's ten seconds. Four bodies: critical, non-critical with
the same key, without a timestamp, and in another time zone with a priority
out of range. The requests are interchangeable (symmetry). The progress run
has three requests too, so that one can be refused as a replay while another
waits for the lock, but one key, two bodies, REST and the stream only, one
tick and one restart, and no symmetry. `FabricLedger`: four transactions make a
vehicle, its message, a duplicate and a conflict; two peers are the least that
can differ; two keys make a chain of a sender and its message, and let a
message take a vehicle's id; blocks of two can be full, cut early, and split
a dependency. `Txs` and `Peers` are interchangeable; the progress run has
three transactions and no symmetry.

`FabricClient`: four calls make a connect, two that compete and a disconnect, or
two overlapping connects and their disconnects; two peers can differ; an alert
may take the id of a message. `EthereumClient`: three writes of any kind
on one client make a vehicle, a post and a duplicate of it; the fourth call, on
a client with the node's account, competes, is invalid, reads or lists. Ids are the empty
one and another. Each client is initialized once (`MaxInits`): a second
initialization only loses counts, which `RegistrationsCounted` allows for.
`IotaClient`: one call goes first, one writes, one reads; others' blocks are
one that does not parse, an alert under the messages' tag and a message with
the id of the client's. `MetricsCollector`: up to 44 critical samples, 41 on
target and 3 at it, so that the 95th percentile is below the maximum and up to
two late samples are forgiven; one sample of another priority; two transactions
and one rejection between resets.

Deadlock is checked in every run. The systems really stop
(`Quiescent`, `Done`) when every request, transaction or call has ended and
every peer has what there is; the collector never does.

Fairness. `Gateway`: weak fairness of each request's own steps, which is what
the Go scheduler gives a goroutine that can run. A request at a lock that is
taken cannot: that the lock always comes free, so that every request has its
turn, is what the run shows. (Weak fairness is enough since each of finitely
many requests takes the lock at most once; Go's mutex starves nobody either.)
Clients, the clock, ports that fail and crashes are not obliged to act.
`FabricLedger`: weak fairness of `Cut` (the batch timeout of two seconds) and of each peer's `Commit` (blocks are delivered to peers); a
client may abandon a transaction at any step. `IotaClient`: weak fairness of
each call's next answer or failure, since the SDK's requests time out and the
event loop resumes a call whose request has ended; attaching and indexing are
not obliged to happen.

## 4. What the documentation says and the code does not do

The four violated properties are in section 3 and, with the lines, under
`findings`. Met while modelling and not a run of their own:

* `rest_adapter.go:29` calls priorities 0 and 1 critical and emergency types
  too; `IsCritical` is priority 0, `IsEmergency` is never called.
* The README's and changelog's time-windowed cache: `maxAge` is never read and
  no key ever leaves.
* `rest_adapter.go:37` promises 400 for a failed validation; a failure to
  convert has an `Error` and no `Reason`, and is answered 500.
* gRPC's `GetStatistics` asks for keys `GetStatistics` does not return, so
  every field is zero. A batch is answered as a success whatever happened.

## 5. Proofs

Every safety property a run checks is also a theorem, for every value of the
constants: any finite set of requests, any bodies, clock, routes, freshness
window and port failures of the gateway; any calls, keys, peers, transactions
and batch size on Fabric; any ids, accounts, clients and calls on Ethereum; any
calls and blocks of others on the Tangle; any samples, types and bounds of the
collector. So are the three refinements.

The assumptions are the `ASSUME`s of the modules (`GatewayAssumption`,
`LedgerAssumption`, `RegistryAssumption`, `ClientAssumption` of the Fabric and
of the Ethereum client, `IotaAssumption`, `MetricsAssumption`): types of the
constants, and that `None` is no call, key, operation or other value it could
be taken for. Only `Requests` and the Fabric client's `Calls` need be
finite, since statistics and the exported count compare numbers with sets of
them; how many calls an Ethereum client or samples a collector has is not
limited, since only finitely many have acted, which is part of the invariants.

Each invariant is what a run checks, strengthened until it is inductive:

* `GatewayProofs`. `AtMostOnce` is not inductive: that two requests with one
  key are not both accepted says nothing of one that has passed the cache and
  is not yet accepted, nor of one between its lookup and its insertion.
  `GatewayInv` adds `LockHeld` (the lock is held exactly while one request is
  between the two, and its key is not in the cache), `Shape` (what a program
  counter says of the other attributes, so that a request has an entity when
  its key is used and is of this lifetime while in flight), `CacheKeeps` (the
  cache holds the key of every request of this lifetime that passed) and
  `PassOnce`.
  `RefusalHasCause` needs the converse, `CacheHasCause`. `PendingSound` is
  strengthened to every slice header in flight (`SlicesSound`): all of them
  hold rightful transactions only, and each transaction at one place, the same
  in every slice, which is why a racing append can lose one but never double
  it. `GatewayImplementsGuard` maps each action to a guard step or a stutter,
  by whether it changes who has passed and who is decided.
* `GatewayAccounting`. `Accounting` is inductive relative to `GatewayInv`: each
  step moves at most one request between the two sets and counts what it
  moves; the cardinalities follow from the library's facts on finite sets.
* `FabricLedgerProofs`. `LedgerInv` says what every endorsement read: its own
  key unwritten, and for a message its sender as written by the first
  transaction for that key (`ReadsKnown`); and that a peer holds under each
  key the first transaction it committed for it (`WorldIsFirst`). From these
  a read set is current exactly when its key is free: a sender, once there,
  never changes. That gives `SenderFirst`, `DroppedIsDuplicate` and the
  refinement.
* `EthereumProofs`. `Contract` says that every transaction has a sender and is
  that of a write, that a post is filed under its own id or the empty one, and
  `AddressesMatchVehicles`, which is inductive with these. `ContractSteps`
  reduces every property of the contract to its three functions: only a pending
  transaction that is mined changes it. Each function is a step of the registry
  or, for the empty id, a stutter; that a post's vehicle has an owner, which
  the registry demands and the contract never tests, is what the inverse
  mappings give. `ListsMatchMappings` follows by counting what an append adds.
  `SuccessIsMined` is not inductive: a caller waits between the mining of its
  transaction and its answer, while others are mined. `Told` says it of the
  transaction from the moment it is mined (`Lasting`: nothing with a proper id
  is ever stored over), that a refused transaction's id was taken, and that a
  read's call is never a write's.

* `EthereumReads`. `ReadsSeeWrites` speaks of a listing that has ended; while
  it goes on, `ListingOf` says that each id it owes its caller (`Owed`: what had
  succeeded when it asked) was seen or is still to be read, that what is to be
  read is from the contract's list, whatever was mined since, and that nothing
  is on both sides or twice, but for an id that may be stored again. It rests
  on `Chain`: lists and mappings agree, and what was mined is listed, so that
  an id that succeeded is in the list a listing starts from. The same invariant
  gives `EmptyAlertPoisons`: an alert with the empty id that had succeeded is
  owed, is never seen, and so is still to be read, which fails.
  `RegistrationsCounted` compares three numbers, which are related by sets:
  answered calls are among the mined registrations, which are as many as there
  are vehicles; `Setup` says when a client has no instruments to count with.
* `FabricClientProofs`. The connection is four variables that other calls change
  at any await. `Gateways` says how far the gateways behind them are: the
  network's was dialled, and contract and network change together. `Recorded`
  says that no peer has anything but the record, which makes a read after a
  success find it. What is said of a tidy application needs `Orderly`: at most
  one connect or disconnect is under way (`AtWork`), and what gateway is open,
  made or held, and how far the count is behind, follows from the await it is
  at. Without such an application only `Bounded` is left: the count stays
  within the number of calls, by counting those that raised and lowered it.
* `IotaProofs`. `Covered` says of a query under way what `AnswersComplete` and
  `NotFoundIsTrue` say of one that has ended: each relevant block that was
  indexed when it asked is still to be fetched, was, or could not be. `Phase`
  says what the await a call is at tells of it. `WritesAreFound` follows from
  `AnswersComplete` and `NotFoundIsTrue` once `WritersAndReadersAgree`: a
  block of the client's has the tag its readers ask for and passes their filter.
* `MetricsProofs`. The counters follow by counting what one more transaction
  adds to the set of those of a type. For the report, `OneMore` shows that a
  bag with one more of anything has one more entry, so that `AllCounted` (the
  counts by type add up to `submitted`) is inductive; a held report that is
  not the collector's any more keeps what it had when it was left behind.
  `TargetIsExact` needs that the index of the 95th percentile falls on some
  value (`PercentileIs`): the least value with more samples at or below it than
  the index. Where an induction over numbers would be the plain way, `Least`
  (a set of numbers that is not empty has a least one, from the library's
  facts on well-founded relations) takes its place.

Only model-checked: the three progress properties, since liveness under fairness
is out of the prover's reach; and the four violated ones, which need no more
than the run that violates them.

## 6. Not modelled, and the plan

With their reasons under `components`:

* **Benchmark framework.** The runner and the load generator are sequential
  loops around `Promise.all`; what their callbacks share are counters that
  move between awaits, and ids are taken before the first await. Two flaws
  are plain from the code and listed under `hazards`: `benchmarkScalability`
  numbers its ids from the confirmed count, and so reuses ids after a failure;
  `benchmarkRobustness` counts a rejection when nothing was rejected.
* **Simulation.** One self-message, no state. Its confirmation is handled as
  another request and submitted again, for ever.
* **IOTA identity and telemetry.** Imported by nothing that runs.
* **The gateway's statistics reader.** Five loads in a row of counters that
  move; no relation between them is promised or kept.
* **Throughput and averages** of the collector, spans and exported metrics that
  nothing reads, formatting, reports, generated code, diagrams, the stubs under
  `simulation/`.

What is left to do is proofs of what holds at every step and no run asks yet:
that a write once answered with success is never answered otherwise, on each of
the ledgers; that a lifetime of the gateway never takes back a verdict; that
what `WriteOnceLedger` and `VehicleRegistry` promise is invariant under their
own steps, so that any other implementation has it too.
