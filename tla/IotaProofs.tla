----------------------------- MODULE IotaProofs -----------------------------
(***************************************************************************)
(* Proofs about the IOTA client, for any calls, any blocks others post,    *)
(* any lag of the index and any failures of posts and fetches.             *)
(***************************************************************************)
EXTENDS IotaClient, TLAPS

-----------------------------------------------------------------------------
(* The invariant. *)

Types == /\ TypeOK
         /\ DOMAIN op = Calls /\ DOMAIN todo = Calls
         /\ DOMAIN seen = Calls /\ DOMAIN missed = Calls

(* What the await that call c is at says of it. *)
Fresh(c) == todo[c] = {} /\ seen[c] = {} /\ missed[c] = {}

Phase(c) ==
  /\ pc[c] = "idle" => op[c] = None /\ Fresh(c) /\ c \notin flight \union tangle
  /\ pc[c] = "info" => Is(c, Infos)
  /\ pc[c] = "posted" => Is(c, Writers)
  /\ pc[c] = "asked" => IsQuery(c) /\ Fresh(c)
  /\ pc[c] = "fetching" => IsQuery(c) \/ Is(c, {"queryBlock"})

(* Each block a query owes its caller is still to be fetched, or was, or   *)
(* could not be; in the end there is none left to fetch.                   *)
Covered(c) ==
  /\ IsQuery(c) /\ pc[c] \in {"fetching", "ok", "notFound"} =>
       Relevant(c, before[c]) \subseteq todo[c] \union seen[c] \union missed[c]
  /\ IsQuery(c) /\ pc[c] \in {"ok", "notFound"} => todo[c] = {}
  /\ pc[c] = "notFound" => IsQuery(c) /\ Result(c, seen[c]) = {}

Inv == Types /\ \A c \in Calls : Phase(c) /\ Covered(c)

-----------------------------------------------------------------------------

LEMMA OpsKnown ==
  ASSUME NEW c \in Calls, NEW o \in Ops[c]
  PROVE  /\ o # None
         /\ o.fn \in Writers \union Infos \union Getters \union Listings \union {"queryBlock"}
BY IotaAssumption DEF IotaAssumption

LEMMA Kinds ==
  /\ Writers \intersect (Infos \union Getters \union Listings \union {"queryBlock"}) = {}
  /\ Infos \intersect (Getters \union Listings \union {"queryBlock"}) = {}
  /\ "queryBlock" \notin Getters \union Listings
BY DEF Writers, Infos, Getters, Listings

-----------------------------------------------------------------------------
(* What a step leaves alone. *)

Alone(d) == UNCHANGED <<op[d], pc[d], todo[d], seen[d], before[d], missed[d]>>

(* A block keeps its data: it is on the Tangle only once its call is made. *)
LEMMA BlocksStay ==
  ASSUME Inv, \A b \in Calls : pc[b] # "idle" => op'[b] = op[b]
  PROVE  \A b \in tangle : Block(b)' = Block(b)
<1> SUFFICES ASSUME NEW b \in tangle PROVE Block(b)' = Block(b)
  OBVIOUS
<1>1. b \in Calls => pc[b] # "idle"
  BY DEF Inv, Phase
<1> QED
  BY <1>1 DEF Block

LEMMA AnswersStay ==
  ASSUME Inv, \A b \in Calls : pc[b] # "idle" => op'[b] = op[b],
         NEW c \in Calls, op'[c] = op[c]
  PROVE  /\ \A b \in tangle : /\ Wanted(op[c], b)' <=> Wanted(op[c], b)
                              /\ Parses(b)' <=> Parses(b)
                              /\ Tag(op[c])' = Tag(op[c]) /\ Block(b)' = Block(b)
         /\ seen'[c] = seen[c] => Result(c, seen[c])' = Result(c, seen[c])
         /\ before'[c] = before[c] => Relevant(c, before[c])' = Relevant(c, before[c])
<1>1. \A b \in tangle : Block(b)' = Block(b)
  BY BlocksStay
<1>2. \A b \in tangle : (Wanted(op[c], b)' <=> Wanted(op[c], b)) /\ (Parses(b)' <=> Parses(b))
  BY <1>1 DEF Wanted, Parses
<1>3. Tag(op[c])' = Tag(op[c])
  OBVIOUS
<1>4. before[c] \in SUBSET tangle /\ seen[c] \in SUBSET tangle
  BY DEF Inv, Types, TypeOK
<1> QED
  BY <1>1, <1>2, <1>3, <1>4 DEF Result, Relevant

-----------------------------------------------------------------------------
(* A step is local: it moves one call, and the network grows. *)

LEMMA OthersStay ==
  ASSUME Inv, \A b \in Calls : pc[b] # "idle" => op'[b] = op[b],
         NEW d \in Calls, Alone(d), tangle \subseteq tangle',
         d \in flight' \union tangle' => d \in flight \union tangle
  PROVE  Phase(d)' /\ Covered(d)'
<1>1. Phase(d)'
  BY DEF Inv, Phase, Fresh, Alone, Is, IsQuery
<1>2. Covered(d)'
  <2>1. Relevant(d, before[d])' = Relevant(d, before[d]) /\ Result(d, seen[d])' = Result(d, seen[d])
    BY AnswersStay DEF Alone
  <2> QED
    BY <2>1 DEF Inv, Covered, Alone, Is, IsQuery
<1> QED
  BY <1>1, <1>2

(* It is enough to look at the call that moves. *)
LEMMA CallMoves ==
  ASSUME Inv, NEW c \in Calls, pc[c] # "idle" => op'[c] = op[c],
         Types', Phase(c)', Covered(c)',
         \A d \in Calls \ {c} : Alone(d), tangle' = tangle, flight' \subseteq flight \union {c}
  PROVE  Inv'
<1>1. \A d \in Calls \ {c} : Phase(d)' /\ Covered(d)'
  BY OthersStay DEF Alone
<1> QED
  BY <1>1 DEF Inv

(* A call that is made. *)
LEMMA Begins ==
  ASSUME Inv, NEW c \in Calls, NEW o \in Ops[c],
         AskInfo(c, o) \/ RegisterVehicle(c, o) \/ SubmitV2XMessage(c, o)
           \/ SubmitSecurityAlert(c, o) \/ Ask(c, o)
  PROVE  Inv'
<1>1. o # None
      /\ o.fn \in Writers \union Infos \union Getters \union Listings \union {"queryBlock"}
  BY OpsKnown
<1>2. /\ pc[c] = "idle" /\ op[c] = None /\ Fresh(c) /\ c \notin flight \union tangle
      /\ op'[c] = o /\ DOMAIN op' = Calls /\ \A d \in Calls \ {c} : op'[d] = op[d]
      /\ \A d \in Calls \ {c} : pc'[d] = pc[d]
      /\ pc'[c] \in {"info", "posted", "asked", "fetching", "thrown"}
      /\ pc' \in [Calls -> {"idle", "info", "posted", "asked", "fetching"} \union Ended]
      /\ UNCHANGED <<tangle, index, seen, missed>>
  BY DEF AskInfo, RegisterVehicle, SubmitV2XMessage, SubmitSecurityAlert, Post, Ask, Begin, Goto,
     Inv, Types, TypeOK, Phase, Ended, net
<1>3. /\ pc'[c] = "info" => o.fn \in Infos
      /\ pc'[c] = "posted" => o.fn \in Writers
      /\ pc'[c] = "asked" => o.fn \in Getters \union Listings /\ todo' = todo
      /\ pc'[c] = "fetching" => o.fn = "queryBlock"
      /\ todo' # todo => o.fn = "queryBlock"
      /\ flight' \in {flight, flight \union {c}} /\ client' \in BOOLEAN
      /\ before' \in [Calls -> SUBSET index]
      /\ \A d \in Calls \ {c} : todo'[d] = todo[d] /\ before'[d] = before[d]
      /\ DOMAIN todo' = Calls
  <2>1. CASE AskInfo(c, o)
    BY <1>2, <2>1 DEF AskInfo, Begin, Goto, Inv, Types, TypeOK, net
  <2>2. CASE RegisterVehicle(c, o) \/ SubmitV2XMessage(c, o) \/ SubmitSecurityAlert(c, o)
    BY <1>2, <2>2 DEF RegisterVehicle, SubmitV2XMessage, SubmitSecurityAlert, Post, Begin, Goto,
       Inv, Types, TypeOK, Writers
  <2>3. CASE Ask(c, o)
    BY <1>1, <1>2, <2>3 DEF Ask, Begin, Goto, Inv, Types, TypeOK, net
  <2> QED
    BY <2>1, <2>2, <2>3
<1>4. Types'
  <2>1. todo'[c] = {} \/ o.fn = "queryBlock"
    BY <1>2, <1>3 DEF Fresh
  <2>2. IsQuery(c)' => todo'[c] \subseteq index
    BY <1>2, <2>1, Kinds DEF IsQuery, Is
  <2>3. \A d \in Calls : IsQuery(d)' => todo'[d] \subseteq index
    BY <1>2, <1>3, <2>2 DEF Inv, Types, TypeOK, IsQuery, Is
  <2> QED
    BY <1>2, <1>3, <2>3 DEF Inv, Types, TypeOK
<1>5. Phase(c)' /\ Covered(c)'
  BY <1>1, <1>2, <1>3, Kinds DEF Phase, Covered, Fresh, Is, IsQuery
<1> QED
  BY <1>2, <1>3, <1>4, <1>5, CallMoves DEF Alone

(* A call that is answered, or fails, without having fetched a block. *)
LEMMA Answered ==
  ASSUME Inv, NEW c \in Calls, AnswerInfo(c) \/ AnswerPost(c) \/ Fail(c)
  PROVE  Inv'
<1>1. /\ UNCHANGED <<op, client, net, todo, seen, before, missed>>
      /\ pc' \in [Calls -> {"idle", "info", "posted", "asked", "fetching"} \union Ended]
      /\ \A d \in Calls \ {c} : pc'[d] = pc[d]
      /\ pc'[c] \in {"ok", "thrown"} /\ pc[c] \in {"info", "posted", "asked", "fetching"}
      /\ pc'[c] = "ok" => \/ Is(c, Infos)
                          \/ Is(c, Writers) /\ c \in tangle
  BY DEF AnswerInfo, AnswerPost, Fail, Posted, Goto, Inv, Types, TypeOK, Phase, Ended
<1>2. Types'
  BY <1>1 DEF Inv, Types, TypeOK, IsQuery, Is, net
<1>3. Phase(c)' /\ Covered(c)'
  BY <1>1, Kinds DEF Phase, Covered, IsQuery, Is, net
<1> QED
  BY <1>1, <1>2, <1>3, CallMoves DEF Alone, net

(* How a query ends depends on what it has fetched. *)
LEMMA Outcomes ==
  ASSUME NEW c, NEW s, IsQuery(c)
  PROVE  /\ Outcome(c, s) \in {"ok", "notFound"}
         /\ Outcome(c, s) = "notFound" => Result(c, s) = {}
BY DEF Outcome

(* A query has the blocks of its tag: all that were in the index when it   *)
(* was made are among them.                                                *)
LEMMA IndexAnswers ==
  ASSUME Inv, NEW c \in Calls, Indexed(c)
  PROVE  Inv'
<1>1. /\ UNCHANGED <<op, client, net, seen, before, missed>>
      /\ pc[c] = "asked" /\ IsQuery(c) /\ Fresh(c)
      /\ \A d \in Calls \ {c} : pc'[d] = pc[d] /\ todo'[d] = todo[d]
      /\ DOMAIN todo' = Calls /\ todo'[c] = Tagged(Tag(op[c]))
      /\ pc'[c] = IF todo'[c] = {} THEN Outcome(c, {}) ELSE "fetching"
  BY DEF Indexed, Goto, Inv, Types, TypeOK, Phase
<1>2. pc' \in [Calls -> {"idle", "info", "posted", "asked", "fetching"} \union Ended]
  BY <1>1, Outcomes DEF Indexed, Goto, Inv, Types, TypeOK, Ended
<1>3. Types'
  <2>1. todo'[c] \subseteq index
    BY <1>1 DEF Tagged
  <2> QED
    BY <1>1, <1>2, <2>1 DEF Inv, Types, TypeOK, IsQuery, Is, net
<1>4. Phase(c)'
  BY <1>1, Outcomes, Kinds DEF Phase, IsQuery, Is, net
<1>5. Covered(c)'
  <2>1. Relevant(c, before[c]) \subseteq todo'[c]
    BY <1>1 DEF Relevant, Tagged, Inv, Types, TypeOK
  <2>2. Relevant(c, before[c])' = Relevant(c, before[c]) /\ Result(c, seen[c])' = Result(c, seen[c])
    BY <1>1, AnswersStay
  <2>3. pc'[c] = "notFound" => Result(c, seen[c]) = {}
    BY <1>1, Outcomes DEF Fresh
  <2> QED
    BY <1>1, <2>1, <2>2, <2>3, Outcomes DEF Covered, IsQuery, Is
<1> QED
  BY <1>1, <1>3, <1>4, <1>5, CallMoves DEF Alone, net

(* A query advances by a block, fetched (b in s) or not (b in m). *)
LEMMA Advances ==
  ASSUME Inv, NEW c \in Calls, NEW b \in todo[c], pc[c] = "fetching", IsQuery(c),
         NEW s \in SUBSET tangle, Advance(c, b, s), seen[c] \subseteq s,
         NEW m \in SUBSET index, missed'[c] = m, missed[c] \subseteq m,
         DOMAIN missed' = Calls, \A d \in Calls \ {c} : missed'[d] = missed[d],
         b \in s \union m \/ ~Parses(b),
         UNCHANGED <<op, client, net, before>>
  PROVE  Inv'
<1>1. /\ \A d \in Calls \ {c} : /\ pc'[d] = pc[d] /\ todo'[d] = todo[d]
                                /\ seen'[d] = seen[d] /\ missed'[d] = missed[d]
      /\ DOMAIN todo' = Calls /\ DOMAIN seen' = Calls /\ DOMAIN missed' = Calls
      /\ todo'[c] = todo[c] \ {b} /\ seen'[c] = s /\ missed'[c] = m
      /\ pc'[c] = IF todo'[c] = {} THEN Outcome(c, s) ELSE "fetching"
  BY DEF Advance, Goto, Inv, Types, TypeOK
<1>2. pc' \in [Calls -> {"idle", "info", "posted", "asked", "fetching"} \union Ended]
  BY <1>1, Outcomes DEF Advance, Goto, Inv, Types, TypeOK, Ended
<1>3. Types'
  BY <1>1, <1>2 DEF Inv, Types, TypeOK, IsQuery, Is, net
<1>4. Phase(c)'
  BY <1>1, Outcomes, Kinds DEF Phase, IsQuery, Is, net
<1>5. Covered(c)'
  <2>1. Relevant(c, before[c])' = Relevant(c, before[c])
    BY AnswersStay
  <2>2. Relevant(c, before[c]) \subseteq todo'[c] \union seen'[c] \union missed'[c]
    <3>1. Relevant(c, before[c]) \subseteq todo[c] \union seen[c] \union missed[c]
      BY DEF Inv, Covered
    <3>2. ~Parses(b) => b \notin Relevant(c, before[c])
      BY DEF Relevant
    <3> QED
      BY <1>1, <3>1, <3>2
  <2>3. pc'[c] = "notFound" => Result(c, seen[c])' = {}
    <3>1. pc'[c] = "notFound" => Result(c, s) = {}
      BY <1>1, Outcomes
    <3>2. \A x \in tangle : Wanted(op[c], x)' <=> Wanted(op[c], x)
      BY AnswersStay
    <3> QED
      BY <1>1, <3>1, <3>2 DEF Result
  <2> QED
    BY <1>1, <2>1, <2>2, <2>3, Outcomes DEF Covered, IsQuery, Is
<1> QED
  BY <1>1, <1>3, <1>4, <1>5, CallMoves DEF Alone, net

LEMMA Fetches ==
  ASSUME Inv, NEW c \in Calls, NEW b \in todo[c], Fetch(c, b)
  PROVE  Inv'
<1>1. pc[c] = "fetching" /\ UNCHANGED <<op, client, net, before>>
  BY DEF Fetch
<1>2. seen[c] \subseteq tangle /\ missed[c] \subseteq index /\ index \subseteq tangle
      /\ (IsQuery(c) => todo[c] \subseteq index) /\ DOMAIN missed = Calls
  BY DEF Inv, Types, TypeOK
<1>3. CASE /\ IsQuery(c)
           /\ Advance(c, b, IF Parses(b) THEN seen[c] \union {b} ELSE seen[c])
           /\ UNCHANGED missed
  <2>1. CASE Parses(b)
    BY <1>1, <1>2, <1>3, <2>1, Advances
  <2>2. CASE ~Parses(b)
    BY <1>1, <1>2, <1>3, <2>2, Advances
  <2> QED
    BY <2>1, <2>2
<1>4. CASE /\ IsQuery(c) /\ Advance(c, b, seen[c])
           /\ missed' = [missed EXCEPT ![c] = @ \union {b}]
  <2> DEFINE m == missed[c] \union {b}
  <2>1. /\ missed'[c] = m /\ DOMAIN missed' = Calls
        /\ \A d \in Calls \ {c} : missed'[d] = missed[d]
    BY <1>2, <1>4
  <2>2. m \in SUBSET index /\ b \in m /\ missed[c] \subseteq m /\ seen[c] \in SUBSET tangle
    BY <1>2, <1>4
  <2> HIDE DEF m
  <2> QED
    BY <1>1, <1>4, <2>1, <2>2, Advances
<1>5. CASE /\ Is(c, {"queryBlock"}) /\ b \in tangle /\ Goto(c, "ok")
           /\ seen' = [seen EXCEPT ![c] = {b}] /\ UNCHANGED <<todo, missed>>
  <2>1. /\ ~IsQuery(c) /\ ~Is(c, Writers)
        /\ \A d \in Calls \ {c} : pc'[d] = pc[d] /\ seen'[d] = seen[d]
        /\ pc'[c] = "ok" /\ seen'[c] = {b} /\ DOMAIN seen' = Calls
        /\ pc' \in [Calls -> {"idle", "info", "posted", "asked", "fetching"} \union Ended]
    BY <1>5, Kinds DEF Goto, Inv, Types, TypeOK, Ended, Is, IsQuery
  <2>2. Types'
    BY <1>1, <1>5, <2>1 DEF Inv, Types, TypeOK, IsQuery, Is, net
  <2>3. Phase(c)' /\ Covered(c)'
    BY <1>1, <2>1 DEF Phase, Covered, IsQuery, Is
  <2> QED
    BY <1>1, <1>5, <2>1, <2>2, <2>3, CallMoves DEF Alone, net
<1> QED
  BY <1>3, <1>4, <1>5 DEF Fetch

(* The Tangle's own steps. *)
LEMMA NetworkMoves ==
  ASSUME Inv, NEW b, Attach(b) \/ Index(b)
  PROVE  Inv'
<1>1. /\ UNCHANGED <<op, pc, client, todo, seen, before, missed>>
      /\ tangle \subseteq tangle' /\ flight' \subseteq flight
      /\ index \subseteq index' /\ index' \subseteq tangle'
      /\ flight' \union tangle' \subseteq flight \union tangle
      /\ flight' \intersect tangle' = {}
  BY DEF Attach, Index, Inv, Types, TypeOK
<1>2. Types'
  <2>1. tangle' \subseteq Calls \union Others /\ flight' \subseteq Calls
    BY <1>1 DEF Inv, Types, TypeOK
  <2>2. before' \in [Calls -> SUBSET index']
    BY <1>1 DEF Inv, Types, TypeOK
  <2>3. \A c \in Calls : IsQuery(c)' <=> IsQuery(c)
    BY <1>1 DEF IsQuery, Is
  <2> QED
    BY <1>1, <2>1, <2>2, <2>3 DEF Inv, Types, TypeOK
<1>3. \A d \in Calls : Phase(d)' /\ Covered(d)'
  BY <1>1, OthersStay DEF Alone
<1> QED
  BY <1>2, <1>3 DEF Inv

-----------------------------------------------------------------------------
(* The invariant holds. *)

LEMMA InitInv == Init => Inv
<1> SUFFICES ASSUME Init PROVE Inv
  OBVIOUS
<1>1. Types
  BY DEF Init, Types, TypeOK, IsQuery, Is
<1>2. \A c \in Calls : Phase(c) /\ Covered(c)
  BY IotaAssumption DEF Init, Phase, Covered, Fresh, IsQuery, Is, IotaAssumption
<1> QED
  BY <1>1, <1>2 DEF Inv

LEMMA NextInv == Inv /\ [Next]_vars => Inv'
<1> SUFFICES ASSUME Inv, [Next]_vars PROVE Inv'
  OBVIOUS
<1>1. ASSUME NEW c \in Calls, NEW o \in Ops[c],
             AskInfo(c, o) \/ Ask(c, o) \/ RegisterVehicle(c, o)
               \/ SubmitV2XMessage(c, o) \/ SubmitSecurityAlert(c, o)
      PROVE  Inv'
  BY <1>1, Begins
<1>2. ASSUME NEW c \in Calls, Resume(c) PROVE Inv'
  BY <1>2, Answered, IndexAnswers, Fetches DEF Resume
<1>3. ASSUME NEW b, Attach(b) \/ Index(b) PROVE Inv'
  BY <1>3, NetworkMoves
<1>4. CASE UNCHANGED vars
  <2>1. UNCHANGED <<op, pc, client, flight, tangle, index, todo, seen, before, missed>>
    BY <1>4 DEF vars, net
  <2>2. \A d \in Calls : Phase(d)' /\ Covered(d)'
    BY <2>1, OthersStay DEF Alone
  <2> QED
    BY <2>1, <2>2 DEF Inv, Types, TypeOK, IsQuery, Is
<1> QED
  BY <1>1, <1>2, <1>3, <1>4 DEF Next, Done

THEOREM Invariance == Spec => []Inv
BY InitInv, NextInv, PTL DEF Spec

-----------------------------------------------------------------------------
(* The theorems. *)

(* Whatever is called, posted, lost or late, each variable keeps its type: *)
(* in particular no block is both in flight and on the Tangle, and only    *)
(* blocks on the Tangle come into the index or into an answer.             *)
THEOREM TypeCorrect == Spec => []TypeOK
BY Invariance, PTL DEF Inv, Types

(* A listing returns every relevant block that was in the index when it    *)
(* was made, save those whose fetch failed, and none of another type.      *)
THEOREM AnswersAreComplete == Spec => []AnswersComplete
<1>1. Inv => AnswersComplete
  <2> SUFFICES ASSUME Inv, NEW c \in Calls, Is(c, Listings), pc[c] = "ok"
               PROVE  /\ Relevant(c, before[c]) \ missed[c] \subseteq Answer(c)
                      /\ ~Is(c, {"queryMessagesByTag"}) =>
                           \A b \in Answer(c) : Block(b).type = Type(op[c])
    BY DEF AnswersComplete
  <2>1. Relevant(c, before[c]) \subseteq seen[c] \union missed[c]
    BY DEF Inv, Covered, IsQuery, Is
  <2>2. \A b \in Relevant(c, before[c]) : Wanted(op[c], b)
    BY DEF Relevant
  <2>3. ~Is(c, {"queryMessagesByTag"}) =>
          \A b : Wanted(op[c], b) => Block(b).type = Type(op[c])
    BY DEF Wanted, Is
  <2> QED
    BY <2>1, <2>2, <2>3 DEF Answer, Result
<1> QED
  BY <1>1, Invariance, PTL

(* A getter that finds nothing missed only blocks it could not fetch: an   *)
(* id that was in the index is never reported as unknown for any other     *)
(* reason, however the index grew while the query ran.                     *)
THEOREM NotFoundIsAlwaysTrue == Spec => []NotFoundIsTrue
<1>1. Inv => NotFoundIsTrue
  <2> SUFFICES ASSUME Inv, NEW c \in Calls, pc[c] = "notFound"
               PROVE  Relevant(c, before[c]) \subseteq missed[c]
    BY DEF NotFoundIsTrue
  <2>1. /\ Relevant(c, before[c]) \subseteq seen[c] \union missed[c]
        /\ Result(c, seen[c]) = {}
    BY DEF Inv, Covered
  <2>2. \A b \in Relevant(c, before[c]) : Wanted(op[c], b)
    BY DEF Relevant
  <2> QED
    BY <2>1, <2>2 DEF Result
<1> QED
  BY <1>1, Invariance, PTL

(* The writers and the readers of a kind agree on its tag and its type,    *)
(* and the reader's filter lets the write's block through.                 *)
LEMMA WritersAndReadersAgree ==
  ASSUME Inv, NEW c \in Calls, NEW d \in Calls, AsksFor(d, c), c \in before[d]
  PROVE  IsQuery(d) /\ c \in Relevant(d, before[d])
<1>1. CASE op[c].fn = "registerVehicle"
  BY <1>1 DEF AsksFor, ReadersOf, Is, IsQuery, Writers, Getters, Listings, Relevant, Block, Parses,
     Wanted, Tag, Type, Vehicles, Alerts
<1>2. CASE op[c].fn = "submitSecurityAlert"
  BY <1>2 DEF AsksFor, ReadersOf, Is, IsQuery, Writers, Getters, Listings, Relevant, Block, Parses,
     Wanted, Tag, Type, Vehicles, Alerts
<1>3. CASE op[c].fn = "submitV2XMessage"
  BY <1>3 DEF AsksFor, ReadersOf, Is, IsQuery, Writers, Getters, Listings, Relevant, Block, Parses,
     Wanted, Tag, Type, Vehicles, Alerts
<1> QED
  BY <1>1, <1>2, <1>3 DEF AsksFor, Is, Writers

(* What the client wrote is found by every function that reads its kind,   *)
(* as soon as it is indexed and unless its fetch fails: whatever others    *)
(* post under the same tags, and however many blocks there are.            *)
THEOREM WritesAreAlwaysFound == Spec => []WritesAreFound
<1>1. Inv => WritesAreFound
  <2> SUFFICES ASSUME Inv, NEW c \in Calls, NEW d \in Calls,
                      AsksFor(d, c), c \in before[d], c \notin missed[d], pc[d] \in {"ok", "notFound"}
               PROVE  c \in Answer(d) /\ pc[d] # "notFound"
    BY DEF WritesAreFound
  <2>1. IsQuery(d) /\ c \in Relevant(d, before[d])
    BY WritersAndReadersAgree
  <2>2. c \in seen[d] /\ Wanted(op[d], c)
    BY <2>1 DEF Inv, Covered, Relevant
  <2> QED
    BY <2>2 DEF Inv, Covered, Answer, Result
<1> QED
  BY <1>1, Invariance, PTL

=============================================================================
