---------------------------- MODULE ReplayGuard ----------------------------
(***************************************************************************)
(* What the RSU gateway promises about replays, without saying how: within *)
(* one lifetime of the process a replay key is claimed by at most one      *)
(* request, and only a request that holds the claim of its key may be      *)
(* accepted.  A refusal needs no reason here, and a claim is never given   *)
(* back, not even when its holder is refused afterwards.  A restart of the *)
(* process forgets every claim.  Gateway implements this specification.    *)
(***************************************************************************)

CONSTANTS Requests,   \* the requests clients send, each at most once
          Keys        \* the replay keys: a message id with a timestamp

VARIABLES claims,     \* pairs <<key, request>> of this lifetime
          verdict     \* what each request has been told

gvars == <<claims, verdict>>

Verdicts == {"open", "accepted", "refused", "lost"}

GuardTypeOK == /\ claims \subseteq Keys \X Requests
               /\ verdict \in [Requests -> Verdicts]

GuardInit == /\ claims = {}
             /\ verdict = [r \in Requests |-> "open"]

Claimed(k) == \E q \in Requests : <<k, q>> \in claims
Holds(r)   == \E k \in Keys : <<k, r>> \in claims

Claim(r, k) == /\ verdict[r] = "open"
               /\ ~Claimed(k)
               /\ ~Holds(r)
               /\ claims' = claims \union {<<k, r>>}
               /\ UNCHANGED verdict

Accept(r) == /\ verdict[r] = "open"
             /\ Holds(r)
             /\ verdict' = [verdict EXCEPT ![r] = "accepted"]
             /\ UNCHANGED claims

Refuse(r) == /\ verdict[r] = "open"
             /\ verdict' = [verdict EXCEPT ![r] = "refused"]
             /\ UNCHANGED claims

Restart(L) == /\ \A r \in L : verdict[r] = "open"
              /\ verdict' = [r \in Requests |-> IF r \in L THEN "lost" ELSE verdict[r]]
              /\ claims' = {}

GuardNext == \/ \E r \in Requests : \/ \E k \in Keys : Claim(r, k)
                                    \/ Accept(r)
                                    \/ Refuse(r)
             \/ \E L \in SUBSET Requests : Restart(L)

GuardSpec == GuardInit /\ [][GuardNext]_gvars

=============================================================================
