----------------------------- MODULE MCGateway -----------------------------
(* Small instances of Gateway for TLC. *)
EXTENDS Gateway, TLC

CONSTANTS i1,         \* the message id
          elsewhere   \* the text of instant 0 in another time zone

MCTexts == {0, 1, elsewhere}

MCNow == [t \in 0..MaxClock |-> t]

MCStamps == {<<0, 0>>, <<0, elsewhere>>}

(* A critical message; a non-critical one with the same key; one without a *)
(* timestamp, which gets the key of the second it is converted in; one in  *)
(* another time zone, whose priority is out of range for REST and lost by  *)
(* gRPC.                                                                   *)
MCDtos ==
  {[id |-> i1, stamp |-> <<0, 0>>, priority |-> 0, complete |-> TRUE],
   [id |-> i1, stamp |-> <<0, 0>>, priority |-> 2, complete |-> TRUE],
   [id |-> i1, stamp |-> Unparsable, priority |-> 0, complete |-> TRUE],
   [id |-> i1, stamp |-> <<0, elsewhere>>, priority |-> 4, complete |-> TRUE]}

(* One message, sent as critical and as non-critical. *)
MCOneKey == {d \in MCDtos : d.stamp = <<0, 0>>}

SomeFaults == {"badSignature", "submitError"}

NoFaults == {}   \* the wired adapters

Interchangeable == Permutations(Requests)

=============================================================================
