------------------------------ MODULE FlowRelay ------------------------------
(***************************************************************************)
(* FlowRelay (core/src/realtime/flowRelay.ts): the background bot's orders *)
(* of each block, sent wallet by wallet.  A wallet has one send in flight; *)
(* the newest block handed over meanwhile waits, replacing an older one;   *)
(* an order more than MaxAge blocks behind the head is dropped.            *)
(*                                                                         *)
(* An order is counted, not named: a wallet's batch is the block it was    *)
(* made for and how many orders are left of it.  The counters of the code  *)
(* are the sums over the wallets of those kept here.                       *)
(***************************************************************************)
EXTENDS Integers

CONSTANTS
    Wallets,   \* the flow wallets
    MaxAge,    \* maxAgeBlocks
    MaxItems,  \* bound: a wallet's orders in one batch
    MaxHead,   \* bound: blocks
    MaxPushes, \* bound: batches handed over
    MaxDrains, \* bound: calls of drainStats
    Stuck      \* the wallets whose sends need not settle (live runs)

ASSUME AgeAssumption == MaxAge \in Nat

ASSUME BoundAssumption == MaxItems \in Nat /\ MaxHead \in Nat /\ MaxPushes \in Nat /\ MaxDrains \in Nat

VARIABLES
    head,     \* sendHeadBlock, 0 before the first block
    lanes,    \* per wallet: the batch being sent (the order in flight included), the waiting one
    stats,    \* per wallet: the counters since drainStats
    asked,    \* a caller of idle() waits
    lastRound,\* the bot answers its blocks in order
    pushes,   \* history: batches handed over
    newest,   \* history, per wallet: the number of the last batch with orders of it
    handedAt, \* history, per wallet: the head when the order in flight was handed to send
    pushed,   \* history, per wallet: orders handed over
    reported, \* history, per wallet: orders in the counters drainStats has returned
    drains    \* history: calls of drainStats

history == <<pushes, newest, pushed, reported, drains>>
vars == <<head, lanes, stats, asked, lastRound, history, handedAt>>

\* The round of a bot line that names none.
Unknown == 0

\* No batch: no orders of no block.
Nothing == [id |-> 0, round |-> Unknown, items |-> 0]

Batches == [id : Nat, round : Nat, items : Nat]

NoStats == [sent |-> 0, superseded |-> 0, stale |-> 0, failed |-> 0]

Init ==
    /\ head = 0
    /\ lanes = [w \in Wallets |-> [now |-> Nothing, next |-> Nothing]]
    /\ stats = [w \in Wallets |-> NoStats]
    /\ asked = FALSE
    /\ lastRound = 0
    /\ pushes = 0
    /\ newest = [w \in Wallets |-> 0]
    /\ handedAt = [w \in Wallets |-> 0]
    /\ pushed = [w \in Wallets |-> 0]
    /\ reported = [w \in Wallets |-> 0]
    /\ drains = 0

\* The lane exists: a send is in flight.
Busy(w) == lanes[w].now.items > 0

\* An order of the batch would go out too late; a batch of an unknown block never does.
Stale(batch) == batch.round # Unknown /\ head - batch.round > MaxAge

-----------------------------------------------------------------------------
(* drain(): every order up to the next one handed to send *)

\* Mutant: the age is checked when a batch is taken, not for each of its orders.
DrainedPerBatch(batch, next) ==
    IF batch.items > 0
    THEN [now |-> batch, next |-> next, dropped |-> 0]
    ELSE IF next.items > 0 /\ ~Stale(next)
    THEN [now |-> next, next |-> Nothing, dropped |-> 0]
    ELSE [now |-> Nothing, next |-> Nothing, dropped |-> next.items]

\* Mutant: a block being sent is given up for a newer one that waits.
DrainedNewestFirst(batch, next) ==
    IF batch.items > 0 /\ next.items = 0 /\ ~Stale(batch)
    THEN [now |-> batch, next |-> next, dropped |-> 0]
    ELSE IF next.items > 0 /\ ~Stale(next)
    THEN [now |-> next, next |-> Nothing, dropped |-> batch.items]
    ELSE [now |-> Nothing, next |-> Nothing, dropped |-> batch.items + next.items]

\* Mutant: the rest of a batch that has become stale is not counted.
DrainedUncounted(batch, next) ==
    IF batch.items > 0 /\ ~Stale(batch)
    THEN [now |-> batch, next |-> next, dropped |-> 0]
    ELSE IF next.items > 0 /\ ~Stale(next)
    THEN [now |-> next, next |-> Nothing, dropped |-> 0]
    ELSE [now |-> Nothing, next |-> Nothing, dropped |-> next.items]

\* The rest of the batch goes first, then the one waiting; what has become stale is dropped.
Drained(batch, next) ==
    IF batch.items > 0 /\ ~Stale(batch)
    THEN [now |-> batch, next |-> next, dropped |-> 0]
    ELSE IF next.items > 0 /\ ~Stale(next)
    THEN [now |-> next, next |-> Nothing, dropped |-> batch.items]
    ELSE [now |-> Nothing, next |-> Nothing, dropped |-> batch.items + next.items]

\* idle() resolves when the last lane is gone.
AnswerIdle == asked' = (asked /\ \E w \in Wallets : lanes'[w].now.items > 0)

-----------------------------------------------------------------------------
(* Operations *)

\* The coordinator learns of a newer block.
NewHead ==
    /\ head < MaxHead
    /\ head' = head + 1
    /\ UNCHANGED <<lanes, stats, asked, lastRound, history, handedAt>>

\* Mutant: a batch that arrives while another wallet sends waits for the relay to be free.
TakenWhenFree(w, batch) ==
    IF \E v \in Wallets : Busy(v)
    THEN [now |-> lanes[w].now, next |-> batch, dropped |-> 0]
    ELSE Drained(Nothing, batch)

\* Mutant: a batch that waits is kept, the newer one is the one superseded.
TakenOldest(w, batch) ==
    IF Busy(w) /\ lanes[w].next.items > 0
    THEN [now |-> lanes[w].now, next |-> [lanes[w].next EXCEPT !.items = batch.items], dropped |-> 0]
    ELSE IF Busy(w)
    THEN [now |-> lanes[w].now, next |-> batch, dropped |-> 0]
    ELSE Drained(Nothing, batch)

\* What push() leaves a wallet with: its batch waits behind the one being sent, or starts at once.
Taken(w, batch) ==
    IF Busy(w)
    THEN [now |-> lanes[w].now, next |-> batch, dropped |-> 0]
    ELSE Drained(Nothing, batch)

\* push(): the bot's answer for a block, each wallet's orders to its own lane.
Push(round, count) ==
    LET batch(w) == [id |-> pushes + 1, round |-> round, items |-> count[w]]
        took(w) == Taken(w, batch(w))
    IN  /\ lanes' = [w \in Wallets |->
                       IF count[w] = 0 THEN lanes[w]
                       ELSE [now |-> took(w).now, next |-> took(w).next]]
        /\ stats' = [w \in Wallets |->
                       IF count[w] = 0 THEN stats[w]
                       ELSE [stats[w] EXCEPT !.superseded = @ + lanes[w].next.items,
                                             !.stale = @ + took(w).dropped]]
        /\ handedAt' = [w \in Wallets |->
                          IF lanes'[w].now.id # lanes[w].now.id THEN head ELSE handedAt[w]]
        /\ pushes' = pushes + 1
        /\ newest' = [w \in Wallets |-> IF count[w] = 0 THEN newest[w] ELSE pushes + 1]
        /\ pushed' = [w \in Wallets |-> pushed[w] + count[w]]
        /\ AnswerIdle
        /\ UNCHANGED <<head, reported, drains>>

\* The bot's lines come in the order of the blocks it was asked about, none of them ahead of the head.
BotAnswers ==
    /\ pushes < MaxPushes
    /\ head > 0
    /\ \E round \in {Unknown} \cup (lastRound + 1)..head, count \in [Wallets -> 0..MaxItems] :
          /\ Push(round, count)
          /\ lastRound' = IF round = Unknown THEN lastRound ELSE round

\* A send settles, well or not, and the lane goes on to its next order.
Settle(w, outcome) ==
    LET took == Drained([lanes[w].now EXCEPT !.items = @ - 1], lanes[w].next)
    IN  /\ Busy(w)
        /\ lanes' = [lanes EXCEPT ![w] = [now |-> took.now, next |-> took.next]]
        /\ stats' = [stats EXCEPT ![w].sent = IF outcome = "sent" THEN @ + 1 ELSE @,
                                  ![w].failed = IF outcome = "failed" THEN @ + 1 ELSE @,
                                  ![w].stale = @ + took.dropped]
        /\ handedAt' = [handedAt EXCEPT ![w] = IF took.now.items > 0 THEN head ELSE @]
        /\ AnswerIdle
        /\ UNCHANGED <<head, lastRound, history>>

Counted(s) == s.sent + s.superseded + s.stale + s.failed

\* drainStats(): the counts are handed to the caller and start again from zero.
DrainStats ==
    /\ drains < MaxDrains
    /\ drains' = drains + 1
    /\ reported' = [w \in Wallets |-> reported[w] + Counted(stats[w])]
    /\ stats' = [w \in Wallets |-> NoStats]
    /\ UNCHANGED <<head, lanes, asked, lastRound, pushes, newest, pushed, handedAt>>

\* idle(): resolved at once when no lane is busy, else when the last one is gone.
AskIdle ==
    /\ asked' = \E w \in Wallets : Busy(w)
    /\ UNCHANGED <<head, lanes, stats, lastRound, history, handedAt>>

Next ==
    \/ NewHead
    \/ BotAnswers
    \/ \E w \in Wallets, outcome \in {"sent", "failed"} : Settle(w, outcome)
    \/ DrainStats
    \/ AskIdle

Spec == Init /\ [][Next]_vars

\* A send settles, except those of the wallets in Stuck.
FairSpec ==
    Spec /\ \A w \in Wallets \ Stuck : WF_vars(\E outcome \in {"sent", "failed"} : Settle(w, outcome))

-----------------------------------------------------------------------------
(* Properties *)

\* Every variable has its shape.
TypeOK ==
    /\ head \in Nat /\ lastRound \in Nat /\ pushes \in Nat /\ drains \in Nat /\ asked \in BOOLEAN
    /\ lanes \in [Wallets -> [now : Batches, next : Batches]]
    /\ stats \in [Wallets -> [sent : Nat, superseded : Nat, stale : Nat, failed : Nat]]
    /\ newest \in [Wallets -> Nat] /\ handedAt \in [Wallets -> Nat]
    /\ pushed \in [Wallets -> Nat] /\ reported \in [Wallets -> Nat]

\* Every order the bot handed over is sent, failed, replaced, dropped as too old, in flight or
\* waiting, and the counters say so across drainStats: "a relay that cannot keep up says so"
\* (flowRelay.ts:20, flowRelay.test.ts:160).
EveryOrderAccountedFor ==
    \A w \in Wallets :
        pushed[w] = reported[w] + Counted(stats[w]) + lanes[w].now.items + lanes[w].next.items

\* An order goes out at most MaxAge blocks behind the head, a block's later legs included
\* (flowRelay.ts:18-19, 125-126).
FreshWhenHandedOver ==
    \A w \in Wallets :
        Busy(w) /\ lanes[w].now.round # Unknown => handedAt[w] - lanes[w].now.round <= MaxAge

\* A batch waits only behind a send in flight, whose settling takes it up: no order is stranded in
\* the lane of a wallet nobody drains.
NothingStranded == \A w \in Wallets : lanes[w].next.items > 0 => Busy(w)

\* A wallet never starts sending a block when it has been handed a newer one (flowRelay.ts:16-17).
StartsOnlyTheNewest ==
    [][\A w \in Wallets :
          lanes'[w].now.id \notin {lanes[w].now.id, 0} => lanes'[w].now.id = newest'[w]]_vars

\* A block that has started sending is finished unless its orders have become stale: a wallet's WETH
\* leg does not cost it the later ones (flowRelay.ts:22-29, flowRelay.test.ts:132).
LegsGoTogether ==
    [][\A w \in Wallets :
          lanes'[w].now.id # lanes[w].now.id /\ lanes[w].now.items > 1 => Stale(lanes[w].now)]_vars

\* A waiting batch is taken up or replaced, whatever the other wallets' sends do
\* (flowRelay.ts:15, flowRelay.test.ts:192).
WaitingTakenUp ==
    \A w \in Wallets \ Stuck, i \in 1..MaxPushes : lanes[w].next.id = i ~> lanes[w].next.id # i
=============================================================================
