--------------------------- MODULE VehicleRegistry ---------------------------
(***************************************************************************)
(* What the ITS contract promises: a vehicle id has one owner for good, an *)
(* owner one vehicle, and a message or an alert is posted under its id     *)
(* once, for the vehicle of a registered owner.  ITSRegistry implements    *)
(* this specification for all ids but the empty one.                       *)
(***************************************************************************)

CONSTANTS Owners,    \* who may own a vehicle
          Names,     \* the ids of vehicles, messages and alerts
          Contents,  \* what a post may hold
          Nothing    \* what an id nobody took holds

VARIABLES owner,     \* the owner of each vehicle
          messages,  \* the post under each message id
          alerts     \* the post under each alert id

rvars == <<owner, messages, alerts>>

RegistryInit == /\ owner = [n \in Names |-> Nothing]
                /\ messages = [n \in Names |-> Nothing]
                /\ alerts = [n \in Names |-> Nothing]

(* o takes vehicle n, its first. *)
Enroll(o, n) == /\ owner[n] = Nothing
                /\ \A x \in Names : owner[x] # o
                /\ owner' = [owner EXCEPT ![n] = o]
                /\ UNCHANGED <<messages, alerts>>

Post(v, content) == [vehicle |-> v, content |-> content]

(* Vehicle v, which has an owner, takes message id or alert id n.          *)
PostMessage(v, n, content) ==
  /\ owner[v] # Nothing
  /\ messages[n] = Nothing
  /\ messages' = [messages EXCEPT ![n] = Post(v, content)]
  /\ UNCHANGED <<owner, alerts>>

PostAlert(v, n, content) ==
  /\ owner[v] # Nothing
  /\ alerts[n] = Nothing
  /\ alerts' = [alerts EXCEPT ![n] = Post(v, content)]
  /\ UNCHANGED <<owner, messages>>

RegistryNext ==
  \/ \E o \in Owners, n \in Names : Enroll(o, n)
  \/ \E v, n \in Names, content \in Contents :
       PostMessage(v, n, content) \/ PostAlert(v, n, content)

RegistrySpec == RegistryInit /\ [][RegistryNext]_rvars

=============================================================================
