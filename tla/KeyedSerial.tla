----------------------------- MODULE KeyedSerial -----------------------------
(***************************************************************************)
(* KeyedSerial (core/src/realtime/keyedSerial.ts): a promise chain per     *)
(* key.  A task starts when the tail it was chained on has settled; the    *)
(* tail of a key is forgotten a turn after it settled, unless a newer one  *)
(* took its place.                                                         *)
(***************************************************************************)
CONSTANTS
    Tasks, \* the calls of run()
    Keys,
    KeyOf, \* the key of each call
    None   \* no tail: this.tails has no entry for the key

ASSUME KeyAssumption == KeyOf \in [Tasks -> Keys]

ASSUME NoneAssumption == None \notin Tasks

VARIABLES
    state,   \* each task: not handed over, waiting, running or settled
    tails,   \* this.tails: the task whose settling the next one waits for
    after,   \* the tail each task was chained on, None when the key had none
    failed,  \* the settled tasks whose promise rejected
    cleaned, \* the tasks whose deferred clean-up has run
    earlier  \* history: the tasks handed over for the same key before each task

vars == <<state, tails, after, failed, cleaned, earlier>>

Init ==
    /\ state = [t \in Tasks |-> "new"]
    /\ tails = [k \in Keys |-> None]
    /\ after = [t \in Tasks |-> None]
    /\ failed = {}
    /\ cleaned = {}
    /\ earlier = [t \in Tasks |-> {}]

\* Mutant: the new tail is not put in place, so the next call chains on the old one.
RunKeepsTail(t) ==
    /\ state[t] = "new"
    /\ state' = [state EXCEPT ![t] = "waiting"]
    /\ after' = [after EXCEPT ![t] = tails[KeyOf[t]]]
    /\ tails' = IF tails[KeyOf[t]] = None THEN [tails EXCEPT ![KeyOf[t]] = t] ELSE tails
    /\ earlier' = [earlier EXCEPT ![t] =
                     {u \in Tasks : KeyOf[u] = KeyOf[t] /\ state[u] # "new"}]
    /\ UNCHANGED <<failed, cleaned>>

\* run(): chain on the key's tail and become it.
Run(t) ==
    /\ state[t] = "new"
    /\ state' = [state EXCEPT ![t] = "waiting"]
    /\ after' = [after EXCEPT ![t] = tails[KeyOf[t]]]
    /\ tails' = [tails EXCEPT ![KeyOf[t]] = t]
    /\ earlier' = [earlier EXCEPT ![t] =
                     {u \in Tasks : KeyOf[u] = KeyOf[t] /\ state[u] # "new"}]
    /\ UNCHANGED <<failed, cleaned>>

\* Mutant: the tail rejects with its task, so the next task's then() never runs it.
StartUnlessFailed(t) ==
    /\ state[t] = "waiting"
    /\ after[t] # None => state[after[t]] = "settled" /\ after[t] \notin failed
    /\ state' = [state EXCEPT ![t] = "running"]
    /\ UNCHANGED <<tails, after, failed, cleaned, earlier>>

\* previous.then(task): whatever the outcome of the task before it.
Start(t) ==
    /\ state[t] = "waiting"
    /\ after[t] # None => state[after[t]] = "settled"
    /\ state' = [state EXCEPT ![t] = "running"]
    /\ UNCHANGED <<tails, after, failed, cleaned, earlier>>

\* The task's promise resolves or rejects; its tail resolves either way.
Settle(t) ==
    /\ state[t] = "running"
    /\ state' = [state EXCEPT ![t] = "settled"]
    /\ failed' \in {failed, failed \cup {t}}
    /\ UNCHANGED <<tails, after, cleaned, earlier>>

\* Mutant: the clean-up deletes whatever tail the key has.
CleanAnyTail(t) ==
    /\ state[t] = "settled"
    /\ t \notin cleaned
    /\ cleaned' = cleaned \cup {t}
    /\ tails' = [tails EXCEPT ![KeyOf[t]] = None]
    /\ UNCHANGED <<state, after, failed, earlier>>

\* The clean-up chained on the tail, a turn later: only the current tail is deleted.
CleanUp(t) ==
    /\ state[t] = "settled"
    /\ t \notin cleaned
    /\ cleaned' = cleaned \cup {t}
    /\ tails' = IF tails[KeyOf[t]] = t THEN [tails EXCEPT ![KeyOf[t]] = None] ELSE tails
    /\ UNCHANGED <<state, after, failed, earlier>>

Idle == cleaned = Tasks /\ UNCHANGED vars

Next ==
    \/ \E t \in Tasks : Run(t) \/ Start(t) \/ Settle(t) \/ CleanUp(t)
    \/ Idle

Spec == Init /\ [][Next]_vars

\* Promise callbacks run, and every task settles.
FairSpec ==
    Spec /\ \A t \in Tasks : WF_vars(Start(t)) /\ WF_vars(Settle(t)) /\ WF_vars(CleanUp(t))

-----------------------------------------------------------------------------
(* Properties *)

\* Every variable has its shape.
TypeOK ==
    /\ state \in [Tasks -> {"new", "waiting", "running", "settled"}]
    /\ tails \in [Keys -> Tasks \cup {None}]
    /\ after \in [Tasks -> Tasks \cup {None}]
    /\ failed \subseteq Tasks
    /\ cleaned \subseteq Tasks
    /\ earlier \in [Tasks -> SUBSET Tasks]

\* Two sends from one wallet never overlap, so they never resolve the same pending nonce
\* (keyedSerial.ts:3-9, issue #148).
OneAtATime ==
    \A t, u \in Tasks :
        t # u /\ KeyOf[t] = KeyOf[u] => ~(state[t] = "running" /\ state[u] = "running")

\* A task runs only after every task handed over before it for its key has settled, though the key's
\* tail may be forgotten in between (keyedSerial.ts:13).
InOrder ==
    \A t \in Tasks :
        state[t] \in {"running", "settled"} => \A u \in earlier[t] : state[u] = "settled"

\* The promise chain implements the per-key queue.
Queue == INSTANCE SerialPerKey WITH state <- state, earlier <- earlier
QueueSpec == Queue!Spec

\* A task handed over runs and settles, however the ones before it ended (keyedSerial.ts:13).
EveryTaskSettles == \A t \in Tasks : state[t] = "waiting" ~> state[t] = "settled"
=============================================================================
