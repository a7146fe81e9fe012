--------------------------- MODULE WriteOnceLedger ---------------------------
(***************************************************************************)
(* What the ITS chaincode promises about its ledger, without blocks,       *)
(* endorsements or validation: a key is written at most once and never     *)
(* erased, a V2X message only when the record of its sender is there, and  *)
(* every replica holds nothing but what was written, a sender before its   *)
(* messages.  FabricLedger implements this specification.                  *)
(***************************************************************************)

CONSTANTS Writes,    \* what may be written
          Keys,      \* the keys of the ledger
          Replicas,  \* where the ledger is kept
          Nothing    \* what an unwritten key holds

VARIABLES request,   \* what each write asks for: a key, and the keys it needs
          record,    \* what was written under each key
          copies     \* the part of the record each replica holds

lvars == <<request, record, copies>>

LedgerInit == /\ request = [t \in Writes |-> Nothing]
              /\ record = [k \in Keys |-> Nothing]
              /\ copies = [p \in Replicas |-> [k \in Keys |-> Nothing]]

(* A write asks for its key once. *)
Ask(t, k, needs) == /\ request[t] = Nothing
                    /\ request' = [request EXCEPT ![t] = [key |-> k, needs |-> needs]]
                    /\ UNCHANGED <<record, copies>>

(* Replica p holds everything write t needs, and takes it under its key. *)
Take(p, t) == /\ request[t] # Nothing
              /\ copies[p][request[t].key] = Nothing
              /\ \A k \in request[t].needs : copies[p][k] # Nothing
              /\ copies' = [copies EXCEPT ![p][request[t].key] = t]
              /\ UNCHANGED request

(* The first replica to take a write makes it the record of its key ... *)
Write(p, t) == /\ Take(p, t)
               /\ record[request[t].key] = Nothing
               /\ record' = [record EXCEPT ![request[t].key] = t]

(* ... and the others follow. *)
Follow(p, t) == /\ Take(p, t)
                /\ record[request[t].key] = t
                /\ UNCHANGED record

LedgerNext ==
  \/ \E t \in Writes, k \in Keys, needs \in SUBSET Keys : Ask(t, k, needs)
  \/ \E p \in Replicas, t \in Writes : Write(p, t) \/ Follow(p, t)

LedgerSpec == LedgerInit /\ [][LedgerNext]_lvars

=============================================================================
