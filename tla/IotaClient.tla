----------------------------- MODULE IotaClient -----------------------------
(***************************************************************************)
(* One IOTAClient object (iota/client/index.js) and the Tangle.  A write   *)
(* posts a tagged block; nothing looks whether its id is taken.  A read    *)
(* asks the index for the blocks of a tag, fetches them one by one, leaves *)
(* out those it cannot fetch or parse, and filters what is left.           *)
(*                                                                         *)
(* An action is what a call does between two awaits, or a step of the      *)
(* Tangle: a block is attached, perhaps after its caller gave up, or comes *)
(* into the index, which may lag.  Anyone may post blocks of any tag: they *)
(* are on the Tangle to begin with, and turn up in the index at any time.  *)
(***************************************************************************)
EXTENDS FiniteSets

CONSTANTS
  Calls,     \* the calls of the application; a write names its block too
  Ops,       \* what each of them may be
  Others,    \* the blocks that others post
  BlockOf,   \* the tag and the data of each of them
  None       \* no call, no block, no tagged data

Writers == {"registerVehicle", "submitV2XMessage", "submitSecurityAlert"}
Infos == {"initialize", "getNodeInfo", "getNetworkHealth"}
Getters == {"getV2XMessage", "getVehicle", "getSecurityAlert"}
Listings == {"getAllV2XMessages", "queryV2XMessagesByType", "queryV2XMessagesBySender",
             "getAllVehicles", "getAllSecurityAlerts", "queryMessagesByTag"}

(* A call's argument: the data a write posts, the block queryBlock asks    *)
(* for, the tag of queryMessagesByTag, what the other queries look for.    *)
ASSUME IotaAssumption ==
  /\ \A o \in UNION {Ops[c] : c \in Calls} :
       o.fn \in Writers \union Infos \union Getters \union Listings \union {"queryBlock"}
  /\ None \notin Calls \union Others \union UNION {Ops[c] : c \in Calls}
  /\ Calls \intersect Others = {}

VARIABLES
  op,        \* what each call is, None before it is made
  pc,        \* the await each call is at, or how it ended
  client,    \* whether the client object has its SDK client
  flight,    \* the blocks posted and not attached yet
  tangle,    \* the blocks attached
  index,     \* the blocks the node finds by their tag
  todo,      \* the blocks each query has still to fetch
  seen,      \* those it has fetched
  before,    \* the blocks in the index when each query was made
  missed     \* the blocks each query failed to fetch

net == <<flight, tangle, index>>
vars == <<op, pc, client, net, todo, seen, before, missed>>

Ended == {"ok", "notFound", "thrown"}

Init == /\ op = [c \in Calls |-> None]
        /\ pc = [c \in Calls |-> "idle"]
        /\ client = FALSE
        /\ flight = {} /\ tangle = Others /\ index = {}
        /\ todo = [c \in Calls |-> {}]
        /\ seen = [c \in Calls |-> {}]
        /\ before = [c \in Calls |-> {}]
        /\ missed = [c \in Calls |-> {}]

Goto(c, l) == pc' = [pc EXCEPT ![c] = l]
Is(c, fns) == op[c] # None /\ op[c].fn \in fns
IsQuery(c) == Is(c, Getters \union Listings)

Begin(c, o, l) == /\ pc[c] = "idle"
                  /\ op' = [op EXCEPT ![c] = o]
                  /\ Goto(c, l)

-----------------------------------------------------------------------------
(* What is in a block. *)

Vehicles == {"registerVehicle", "getAllVehicles", "getVehicle"}
Alerts == {"submitSecurityAlert", "getAllSecurityAlerts", "getSecurityAlert"}

(* A mutant of Tag: alerts are posted under one tag and asked for under    *)
(* another.                                                                *)
AlertsPostedAsMessages(o) ==
  CASE o.fn = "queryMessagesByTag" -> o.arg
    [] o.fn \in Vehicles -> "ITS_VEHICLE"
    [] o.fn \in Alerts \ Writers -> "ITS_ALERT"
    [] OTHER -> "ITS_V2X"

Tag(o) == CASE o.fn = "queryMessagesByTag" -> o.arg
            [] o.fn \in Vehicles -> "ITS_VEHICLE"
            [] o.fn \in Alerts -> "ITS_ALERT"
            [] OTHER -> "ITS_V2X"

Type(o) == CASE o.fn \in Vehicles -> "VEHICLE_REGISTRATION"
             [] o.fn \in Alerts -> "SECURITY_ALERT"
             [] OTHER -> "V2X_MESSAGE"

(* The block a write posts, or the one that others do. *)
Block(b) == IF b \in Calls
            THEN [tag |-> Tag(op[b]), type |-> Type(op[b]), data |-> op[b].arg]
            ELSE BlockOf[b]

(* A mutant of Tagged: blocks not indexed yet are listed, too. *)
TaggedOnTangle(tag) == {b \in tangle : Block(b).tag = tag}

(* What getBlocksByTag finds. *)
Tagged(tag) == {b \in index : Block(b).tag = tag}

(* JSON.parse accepts the data, or there are none. *)
Parses(b) == Block(b).type # "garbage"

(* The filters and searches of a query o let block b through. *)
Wanted(o, b) ==
  \/ o.fn = "queryMessagesByTag"
  \/ /\ Block(b).type = Type(o)
     /\ CASE o.fn \in Getters -> Block(b).data.id = o.arg
          [] o.fn = "queryV2XMessagesByType" -> Block(b).data.kind = o.arg
          [] o.fn = "queryV2XMessagesBySender" -> Block(b).data.sender = o.arg
          [] OTHER -> TRUE

-----------------------------------------------------------------------------
(* initialize, getNodeInfo and getNetworkHealth *)

(* The SDK client is there before the node has answered, and stays if it   *)
(* does not; or it cannot be made, and the one before stays.               *)
AskInfo(c, o) ==
  /\ o.fn \in Infos
  /\ \/ /\ o.fn = "initialize"
        /\ client' = TRUE
        /\ Begin(c, o, "info")
     \/ /\ o.fn = "initialize" \/ ~client
        /\ Begin(c, o, "thrown")
        /\ UNCHANGED client
     \/ /\ o.fn # "initialize" /\ client
        /\ Begin(c, o, "info")
        /\ UNCHANGED client
  /\ UNCHANGED <<net, todo, seen, before, missed>>

AnswerInfo(c) ==
  /\ pc[c] = "info"
  /\ Goto(c, "ok")
  /\ UNCHANGED <<op, client, net, todo, seen, before, missed>>

-----------------------------------------------------------------------------
(* The writes. *)

Validate(o) == o.valid

(* buildAndPostBlock *)
Post(c, o, valid) ==
  /\ \/ /\ ~client \/ ~valid
        /\ Begin(c, o, "thrown")
        /\ UNCHANGED flight
     \/ /\ client /\ valid
        /\ Begin(c, o, "posted")
        /\ flight' = flight \union {c}
  /\ UNCHANGED <<client, tangle, index, todo, seen, before, missed>>

RegisterVehicle(c, o) == o.fn = "registerVehicle" /\ Post(c, o, TRUE)

SubmitV2XMessage(c, o) == o.fn = "submitV2XMessage" /\ Post(c, o, Validate(o))

SubmitSecurityAlert(c, o) == o.fn = "submitSecurityAlert" /\ Post(c, o, TRUE)

(* The Tangle: a block posted is attached, *)
Attach(b) ==
  /\ b \in flight
  /\ tangle' = tangle \union {b}
  /\ flight' = flight \ {b}
  /\ UNCHANGED <<op, pc, client, index, todo, seen, before, missed>>

(* and one attached is indexed. *)
Index(b) ==
  /\ b \in tangle \ index
  /\ index' = index \union {b}
  /\ UNCHANGED <<op, pc, client, flight, tangle, todo, seen, before, missed>>

Posted(c) == c \in tangle

AnswerPost(c) ==
  /\ pc[c] = "posted" /\ Posted(c)
  /\ Goto(c, "ok")
  /\ UNCHANGED <<op, client, net, todo, seen, before, missed>>

-----------------------------------------------------------------------------
(* The reads. *)

(* A query waits for the index, queryBlock for its block. *)
Ask(c, o) ==
  /\ o.fn \in Getters \union Listings \union {"queryBlock"}
  /\ \/ /\ ~client
        /\ Begin(c, o, "thrown")
        /\ UNCHANGED todo
     \/ /\ client /\ o.fn # "queryBlock"
        /\ Begin(c, o, "asked")
        /\ UNCHANGED todo
     \/ /\ client /\ o.fn = "queryBlock"
        /\ Begin(c, o, "fetching")
        /\ todo' = [todo EXCEPT ![c] = {o.arg}]
  /\ before' = [before EXCEPT ![c] = index]
  /\ UNCHANGED <<client, net, seen, missed>>

(* What a query returns of the blocks s it has fetched; a getter returns   *)
(* the one the index listed first, whichever that is.                      *)
Result(c, s) == {b \in s : Wanted(op[c], b)}

Outcome(c, s) == IF Is(c, Getters) /\ Result(c, s) = {} THEN "notFound" ELSE "ok"

(* The index has answered with the blocks of the tag. *)
Indexed(c) ==
  /\ pc[c] = "asked"
  /\ todo' = [todo EXCEPT ![c] = Tagged(Tag(op[c]))]
  /\ Goto(c, IF todo'[c] = {} THEN Outcome(c, {}) ELSE "fetching")
  /\ UNCHANGED <<op, client, net, seen, before, missed>>

(* A mutant of Advance: the query is over with the first block fetched. *)
StopEarly(c, b, s) ==
  /\ todo' = [todo EXCEPT ![c] = @ \ {b}]
  /\ seen' = [seen EXCEPT ![c] = s]
  /\ Goto(c, IF todo'[c] = {} \/ s # seen[c] THEN Outcome(c, s) ELSE "fetching")

(* A mutant of Advance: a block that could not be fetched is tried again.  *)
TryAgain(c, b, s) ==
  /\ todo' = [todo EXCEPT ![c] = IF s = seen[c] THEN @ ELSE @ \ {b}]
  /\ seen' = [seen EXCEPT ![c] = s]
  /\ Goto(c, IF todo'[c] = {} THEN Outcome(c, s) ELSE "fetching")

(* A query is done with block b, and has by now fetched those of s. *)
Advance(c, b, s) ==
  /\ todo' = [todo EXCEPT ![c] = @ \ {b}]
  /\ seen' = [seen EXCEPT ![c] = s]
  /\ Goto(c, IF todo'[c] = {} THEN Outcome(c, s) ELSE "fetching")

(* The node answers for b, the next block in the order of the index, which *)
(* is any; a query leaves out a block it does not get or cannot parse,     *)
(* queryBlock throws.                                                      *)
Fetch(c, b) ==
  /\ pc[c] = "fetching" /\ b \in todo[c]
  /\ \/ /\ IsQuery(c)
        /\ Advance(c, b, IF Parses(b) THEN seen[c] \union {b} ELSE seen[c])
        /\ UNCHANGED missed
     \/ /\ IsQuery(c)
        /\ Advance(c, b, seen[c])
        /\ missed' = [missed EXCEPT ![c] = @ \union {b}]
     \/ /\ Is(c, {"queryBlock"})
        /\ b \in tangle /\ Parses(b)
        /\ Goto(c, "ok")
        /\ seen' = [seen EXCEPT ![c] = {b}]
        /\ UNCHANGED <<todo, missed>>
  /\ UNCHANGED <<op, client, net, before>>

(* The node does not answer, or with an error, and the call throws: for a  *)
(* write the block may be attached all the same.                           *)
Fail(c) ==
  /\ \/ pc[c] \in {"info", "posted", "asked"}
     \/ pc[c] = "fetching" /\ Is(c, {"queryBlock"})
  /\ Goto(c, "thrown")
  /\ UNCHANGED <<op, client, net, todo, seen, before, missed>>

Done == (\A c \in Calls : pc[c] \in Ended) /\ UNCHANGED vars

(* What a call under way is waiting for. *)
Resume(c) == \/ AnswerInfo(c) \/ AnswerPost(c) \/ Indexed(c) \/ Fail(c)
             \/ \E b \in todo[c] : Fetch(c, b)

Next == \/ \E c \in Calls : \/ \E o \in Ops[c] :
                                 \/ AskInfo(c, o) \/ Ask(c, o) \/ RegisterVehicle(c, o)
                                 \/ SubmitV2XMessage(c, o) \/ SubmitSecurityAlert(c, o)
                            \/ Resume(c)
        \/ \E b \in Calls \union Others : Attach(b) \/ Index(b)
        \/ Done

(* Every request ends, with an answer or, by the SDK's time-out, an error. *)
Spec == Init /\ [][Next]_vars /\ \A c \in Calls : WF_vars(Resume(c))

-----------------------------------------------------------------------------
(* The properties of the component. *)

(* What each variable holds.  A block on the Tangle is no longer in        *)
(* flight, and only such a block is in the index.                          *)
TypeOK ==
  /\ \A c \in Calls : op[c] \in Ops[c] \union {None}
  /\ pc \in [Calls -> {"idle", "info", "posted", "asked", "fetching"} \union Ended]
  /\ client \in BOOLEAN
  /\ flight \subseteq Calls /\ index \subseteq tangle /\ tangle \subseteq Calls \union Others
  /\ flight \intersect tangle = {}
  /\ \A c \in Calls : (IsQuery(c) => todo[c] \subseteq index) /\ seen[c] \subseteq tangle
  /\ before \in [Calls -> SUBSET index]
  /\ \A c \in Calls : missed[c] \subseteq index

Answer(c) == Result(c, seen[c])

(* The right blocks for query c, of those in a set. *)
Relevant(c, bs) == {b \in bs : /\ Block(b).tag = Tag(op[c])
                               /\ Parses(b)
                               /\ Wanted(op[c], b)}

(* Whatever is posted, indexed or lost while a query runs, its answer      *)
(* holds every relevant block that was in the index when it was made, save *)
(* those whose fetch failed; others' blocks of the same tag that do not    *)
(* parse or are of another type neither get into it nor make it fail.      *)
AnswersComplete ==
  \A c \in Calls : Is(c, Listings) /\ pc[c] = "ok" =>
    /\ Relevant(c, before[c]) \ missed[c] \subseteq Answer(c)
    /\ ~Is(c, {"queryMessagesByTag"}) => \A b \in Answer(c) : Block(b).type = Type(op[c])

(* MESSAGE_NOT_FOUND, or null, is only answered when each block with the   *)
(* id that was in the index is one the query failed to fetch.              *)
NotFoundIsTrue ==
  \A c \in Calls : pc[c] = "notFound" => Relevant(c, before[c]) \subseteq missed[c]

(* The functions that read what a write function writes, as the client     *)
(* offers them, and whether read d asks for what call c wrote.             *)
ReadersOf(fn) ==
  CASE fn = "registerVehicle" -> {"getAllVehicles", "getVehicle"}
    [] fn = "submitSecurityAlert" -> {"getAllSecurityAlerts", "getSecurityAlert"}
    [] fn = "submitV2XMessage" -> {"getAllV2XMessages", "getV2XMessage",
                                   "queryV2XMessagesByType", "queryV2XMessagesBySender"}

AsksFor(d, c) ==
  /\ Is(c, Writers) /\ Is(d, ReadersOf(op[c].fn))
  /\ Is(d, Getters) => op[d].arg = op[c].arg.id
  /\ Is(d, {"queryV2XMessagesByType"}) => op[d].arg = op[c].arg.kind
  /\ Is(d, {"queryV2XMessagesBySender"}) => op[d].arg = op[c].arg.sender

(* What the client wrote it finds again, by each of the functions for that *)
(* kind: once the block is in the index, a read that asks for it and whose *)
(* fetch of it does not fail finds it among what others post, whether or   *)
(* not the write itself was answered.  This takes tags, types and filters  *)
(* of writers and readers to agree, and the loop to go through every block. *)
WritesAreFound ==
  \A c, d \in Calls : AsksFor(d, c) /\ c \in before[d] \ missed[d] =>
    /\ pc[d] = "ok" => c \in Answer(d)
    /\ pc[d] # "notFound"

(* Every call ends, a query too, however many of its fetches fail and      *)
(* whatever is posted meanwhile.                                           *)
CallsEnd == \A c \in Calls : pc[c] # "idle" ~> pc[c] \in Ended

=============================================================================
