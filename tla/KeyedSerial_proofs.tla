------------------------- MODULE KeyedSerial_proofs -------------------------
(* KeyedSerial serialises the calls of each key, for any tasks and keys. *)
EXTENDS KeyedSerial, TLAPS

USE KeyAssumption, NoneAssumption

\* Every variable keeps its shape.
LEMMA TypeStep == TypeOK /\ [Next]_vars => TypeOK'
<1> SUFFICES ASSUME TypeOK, [Next]_vars PROVE TypeOK'
  OBVIOUS
<1> USE DEF TypeOK
<1>1. ASSUME NEW t \in Tasks, Run(t) PROVE TypeOK'
  BY <1>1 DEF Run
<1>2. ASSUME NEW t \in Tasks, Start(t) PROVE TypeOK'
  BY <1>2 DEF Start
<1>3. ASSUME NEW t \in Tasks, Settle(t) PROVE TypeOK'
  BY <1>3 DEF Settle
<1>4. ASSUME NEW t \in Tasks, CleanUp(t) PROVE TypeOK'
  BY <1>4 DEF CleanUp
<1>5. CASE UNCHANGED vars
  BY <1>5 DEF vars
<1>6. QED
  BY <1>1, <1>2, <1>3, <1>4, <1>5 DEF Next, Idle

THEOREM TypeCorrect == Spec => []TypeOK
<1>1. Init => TypeOK
  BY DEF Init, TypeOK
<1>2. QED
  BY <1>1, TypeStep, PTL DEF Spec

-----------------------------------------------------------------------------
(* The chain of promises *)

\* What makes the order hold: a task is chained on the last task handed over before it for its key,
\* or on nothing when every earlier task has settled; the key's tail is the last task handed over,
\* and a key with no tail has only settled tasks.
ChainInv ==
    /\ \A t \in Tasks : \A u \in earlier[t] :
          u # t /\ KeyOf[u] = KeyOf[t] /\ state[u] # "new" /\ state[t] # "new"
    /\ \A t \in Tasks : after[t] = None /\ state[t] # "new" =>
          \A u \in earlier[t] : state[u] = "settled"
    /\ \A t \in Tasks : after[t] # None =>
          after[t] \in earlier[t] /\ earlier[t] \subseteq earlier[after[t]] \cup {after[t]}
    /\ \A k \in Keys : tails[k] # None =>
          /\ KeyOf[tails[k]] = k /\ state[tails[k]] # "new"
          /\ \A t \in Tasks : KeyOf[t] = k /\ state[t] # "new" =>
                t \in earlier[tails[k]] \cup {tails[k]}
    /\ \A k \in Keys : tails[k] = None =>
          \A t \in Tasks : KeyOf[t] = k => state[t] \in {"new", "settled"}
    /\ \A t \in Tasks : \A u \in Tasks :
          KeyOf[t] = KeyOf[u] /\ t # u /\ state[t] # "new" /\ state[u] # "new" =>
             t \in earlier[u] \/ u \in earlier[t]
    /\ InOrder

\* When a task may start, every task handed over before it for its key has settled.
LEMMA StartsInOrder ==
    ASSUME TypeOK, ChainInv, NEW t \in Tasks, Start(t)
    PROVE  \A u \in earlier[t] : state[u] = "settled"
<1>1. CASE after[t] = None
  BY <1>1 DEF ChainInv, Start
<1>2. CASE after[t] # None
  <2>1. after[t] \in Tasks /\ state[after[t]] = "settled"
    BY <1>2 DEF TypeOK, Start
  <2>2. \A u \in earlier[after[t]] : state[u] = "settled"
    BY <2>1 DEF ChainInv, InOrder
  <2>3. QED
    BY <1>2, <2>1, <2>2 DEF ChainInv
<1>3. QED
  BY <1>1, <1>2

\* When a task has settled and is still the tail, the whole key has settled.
LEMMA TailSettled ==
    ASSUME TypeOK, ChainInv, NEW t \in Tasks, state[t] = "settled", tails[KeyOf[t]] = t
    PROVE  \A u \in Tasks : KeyOf[u] = KeyOf[t] => state[u] \in {"new", "settled"}
<1>1. KeyOf[t] \in Keys /\ tails[KeyOf[t]] # None
  OBVIOUS
<1>2. \A u \in Tasks : KeyOf[u] = KeyOf[t] /\ state[u] # "new" => u \in earlier[t] \cup {t}
  BY <1>1 DEF ChainInv
<1>3. \A u \in earlier[t] : state[u] = "settled"
  BY DEF ChainInv, InOrder
<1>4. QED
  BY <1>2, <1>3

LEMMA ChainStep == TypeOK /\ ChainInv /\ [Next]_vars => ChainInv'
<1> SUFFICES ASSUME TypeOK, ChainInv, [Next]_vars PROVE ChainInv'
  OBVIOUS
<1>1. ASSUME NEW t \in Tasks, Run(t) PROVE ChainInv'
  BY <1>1 DEF Run, TypeOK, ChainInv, InOrder
<1>2. ASSUME NEW t \in Tasks, Start(t) PROVE ChainInv'
  BY <1>2, StartsInOrder DEF Start, TypeOK, ChainInv, InOrder
<1>3. ASSUME NEW t \in Tasks, Settle(t) PROVE ChainInv'
  BY <1>3 DEF Settle, TypeOK, ChainInv, InOrder
<1>4. ASSUME NEW t \in Tasks, CleanUp(t) PROVE ChainInv'
  BY <1>4, TailSettled DEF CleanUp, TypeOK, ChainInv, InOrder
<1>5. CASE UNCHANGED vars
  BY <1>5 DEF vars, ChainInv, InOrder
<1>6. QED
  BY <1>1, <1>2, <1>3, <1>4, <1>5 DEF Next, Idle

LEMMA ChainHolds == Spec => [](TypeOK /\ ChainInv)
<1>1. Init => TypeOK /\ ChainInv
  BY DEF Init, TypeOK, ChainInv, InOrder
<1>2. QED
  BY <1>1, TypeStep, ChainStep, PTL DEF Spec

-----------------------------------------------------------------------------
(* What follows *)

\* Two calls for one key never run at the same time, so two sends of one wallet never resolve the
\* same pending nonce.
THEOREM NeverTwoAtOnce == Spec => []OneAtATime
<1>1. TypeOK /\ ChainInv => OneAtATime
  BY DEF TypeOK, ChainInv, InOrder, OneAtATime
<1>2. QED
  BY <1>1, ChainHolds, PTL

\* The chain of promises implements one queue per key: every step is a step of the queue or
\* invisible to it.
THEOREM ImplementsQueue == Spec => QueueSpec
<1>1. Init => Queue!Init
  BY DEF Init, Queue!Init
<1>2. TypeOK /\ ChainInv /\ [Next]_vars => [Queue!Next]_(Queue!vars)
  <2> SUFFICES ASSUME TypeOK, ChainInv, [Next]_vars PROVE [Queue!Next]_(Queue!vars)
    OBVIOUS
  <2>1. ASSUME NEW t \in Tasks, Run(t) PROVE Queue!Submit(t)
    BY <2>1 DEF Run, Queue!Submit
  <2>2. ASSUME NEW t \in Tasks, Start(t) PROVE Queue!Start(t)
    BY <2>2, StartsInOrder DEF Start, Queue!Start
  <2>3. ASSUME NEW t \in Tasks, Settle(t) PROVE Queue!Settle(t)
    BY <2>3 DEF Settle, Queue!Settle
  <2>4. ASSUME NEW t \in Tasks, CleanUp(t) PROVE UNCHANGED Queue!vars
    BY <2>4 DEF CleanUp, Queue!vars
  <2>5. CASE UNCHANGED vars
    BY <2>5 DEF vars, Queue!vars
  <2>6. QED
    BY <2>1, <2>2, <2>3, <2>4, <2>5 DEF Next, Idle, Queue!Next
<1>3. QED
  BY <1>1, <1>2, ChainHolds, PTL DEF Spec, QueueSpec, Queue!Spec
=============================================================================
