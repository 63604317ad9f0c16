---------------------------- MODULE SerialPerKey ----------------------------
(***************************************************************************)
(* What KeyedSerial promises (core/src/realtime/keyedSerial.ts:1): "one    *)
(* task at a time per key, any number across keys", in the order of the    *)
(* calls, a failure never blocking the next.                               *)
(***************************************************************************)
CONSTANTS Tasks, Keys, KeyOf

VARIABLES
    state,   \* each task: not handed over, waiting, running or settled
    earlier  \* the tasks handed over for the same key before this one

vars == <<state, earlier>>

Init ==
    /\ state = [t \in Tasks |-> "new"]
    /\ earlier = [t \in Tasks |-> {}]

Submit(t) ==
    /\ state[t] = "new"
    /\ state' = [state EXCEPT ![t] = "waiting"]
    /\ earlier' = [earlier EXCEPT ![t] =
                     {u \in Tasks : KeyOf[u] = KeyOf[t] /\ state[u] # "new"}]

Start(t) ==
    /\ state[t] = "waiting"
    /\ \A u \in earlier[t] : state[u] = "settled"
    /\ state' = [state EXCEPT ![t] = "running"]
    /\ UNCHANGED earlier

Settle(t) ==
    /\ state[t] = "running"
    /\ state' = [state EXCEPT ![t] = "settled"]
    /\ UNCHANGED earlier

Next == \E t \in Tasks : Submit(t) \/ Start(t) \/ Settle(t)

Spec == Init /\ [][Next]_vars
=============================================================================
