------------------------------- MODULE SlotPool -------------------------------
(***************************************************************************)
(* What a door that limits how much each client holds open promises: a     *)
(* request is let in while its client holds fewer than Limit and turned    *)
(* away only when it holds Limit, and what is let in gives its slot back.  *)
(***************************************************************************)
EXTENDS FiniteSets, Naturals

CONSTANTS Clients, Requests, ClientOf, Limit

VARIABLES
    held,  \* the requests each client holds open
    turned \* the requests turned away

Init ==
    /\ held = [a \in Clients |-> {}]
    /\ turned = {}

Take(r) ==
    /\ r \notin held[ClientOf[r]]
    /\ Cardinality(held[ClientOf[r]]) < Limit
    /\ held' = [held EXCEPT ![ClientOf[r]] = @ \cup {r}]
    /\ UNCHANGED turned

TurnAway(r) ==
    /\ r \notin held[ClientOf[r]]
    /\ Cardinality(held[ClientOf[r]]) = Limit
    /\ turned' = turned \cup {r}
    /\ UNCHANGED held

GiveBack(r) ==
    /\ r \in held[ClientOf[r]]
    /\ held' = [held EXCEPT ![ClientOf[r]] = @ \ {r}]
    /\ UNCHANGED turned

\* The process ends and its sockets with it; what the next one turns away is its own.
NewProcess ==
    /\ held' = [a \in Clients |-> {}]
    /\ turned' \in SUBSET Requests

Next == NewProcess \/ \E r \in Requests : Take(r) \/ TurnAway(r) \/ GiveBack(r)

Spec == Init /\ [][Next]_<<held, turned>>
=============================================================================
