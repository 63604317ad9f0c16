----------------------------- MODULE GatedMiner -----------------------------
(***************************************************************************)
(* The environment's miner under `economicGas`                             *)
(* (core/src/realtime/gatedMiner.ts) and the dev node it drives.           *)
(*                                                                         *)
(* A block pass for block b hands over a stage: the storage writes that    *)
(* price block b + 1, one per oracle slot.  Every tick the miner waits for *)
(* the stage of the head block, writes it, and mines.  The node serves a   *)
(* request one write at a time, can refuse it, lose part of it or its      *)
(* answer, and can serve it after the miner has given up waiting.          *)
(*                                                                         *)
(* A price set is named by the block whose pass computed it.  Wall-clock   *)
(* time is left out: a deadline may fire whenever its wait is not over.    *)
(***************************************************************************)
EXTENDS Integers, FiniteSets

CONSTANTS
    Slots,        \* the oracle slots of one price set (PriceFeed, Aave, GMX, ...)
    StartHead,    \* GatedMinerOptions.startHead
    MaxHead,      \* bound: no tick starts once the chain is this high
    MaxHeldTicks, \* MAX_HELD_TICKS
    BatchCommit,  \* the node serves a batch in order, so a stage carries `commit`
    PassesFail,   \* a block pass may fail before it planned its writes
    MayFail,      \* kinds of call the node may answer with an error
    Partial,      \* such an error may leave part of the call's work done
    MaxLate       \* bound: calls given up on by a deadline that may still land

CallKinds == {"read", "commit", "apply", "mine"}

ASSUME SlotsAssumption == IsFiniteSet(Slots) /\ Slots # {}
ASSUME BoundsAssumption ==
    /\ StartHead \in Nat \ {0}
    /\ MaxHead \in Nat
    /\ MaxHeldTicks \in Nat \ {0}
    /\ MaxLate \in Nat
ASSUME FaultsAssumption ==
    /\ BatchCommit \in BOOLEAN
    /\ Partial \in BOOLEAN
    /\ PassesFail \in BOOLEAN
    /\ MayFail \subseteq CallKinds

VARIABLES
    pc,        \* where run() or stop() is waiting
    head,      \* this.head
    staged,    \* this.staged
    trying,    \* the stage a commit or an applyStaged() captured
    heldTicks, \* this.heldTicks
    gate,      \* how this tick's gate was passed
    stopped,   \* this.stopped
    closing,   \* stop() was called, not only halt()
    call,      \* the request the miner is waiting for
    late,      \* what is left of the requests it gave up on
    abandoned, \* how many requests it has given up on
    chainHead, \* the node's head block
    storage,   \* the oracle slots in the node's latest state
    blocks,    \* every block mined: the prices it was built on, and the gate
    sent,      \* history: the blocks whose stages were sent to the node
    haltHead   \* history: the node's head when the miner was told to stop

minerVars == <<pc, head, staged, trying, heldTicks, gate, stopped, closing>>
nodeVars == <<call, late, abandoned, chainHead, storage, blocks>>
history == <<sent, haltHead>>
vars == <<minerVars, nodeVars, history>>

-----------------------------------------------------------------------------
(* Stages and requests *)

Stages == [forBlock : Nat, writes : SUBSET Slots, commit : BOOLEAN, applied : BOOLEAN]

\* The placeholder the constructor stages: nothing to write, already applied.
NoStage == [forBlock |-> StartHead - 1, writes |-> {}, commit |-> FALSE, applied |-> TRUE]

\* `bad` records that part of the work was dropped, `answer` what the miner was told.
Calls == [kind : CallKinds \cup {"none"}, price : Nat, todo : SUBSET Slots,
          mines : BOOLEAN, bad : BOOLEAN, touched : BOOLEAN,
          answer : {"none", "open", "ok", "failed"}]

NoCall == [kind |-> "none", price |-> 0, todo |-> {}, mines |-> FALSE,
           bad |-> FALSE, touched |-> FALSE, answer |-> "none"]

Request(kind, stage) ==
    [kind |-> kind, price |-> stage.forBlock,
     todo |-> IF kind = "mine" THEN {} ELSE stage.writes,
     mines |-> kind # "apply", bad |-> FALSE, touched |-> FALSE, answer |-> "open"]

Larger(a, b) == IF a >= b THEN a ELSE b

\* What a block number read after a mine may say: the new head, or the one before it.
ReadBack == {chainHead - 1, chainHead}

\* Mutant: a stage for any block opens the gate.
ReadyForAnyBlock == ~staged.applied

\* ready(): the head's prices are staged and not yet written.
Ready == staged.forBlock >= head /\ ~staged.applied

Waiting == call.answer = "open"

\* An apply with nothing to write returns without asking the node.
ReachesNode == call.kind # "apply" \/ call.touched \/ call.todo # {}

\* A deadline passed, or the node answered with an error.
Unanswered == Waiting /\ ReachesNode /\ abandoned < MaxLate
CallFailed == call.answer = "failed" \/ Unanswered
CallOk == call.answer = "ok"

\* What the node still has to do for a request the miner no longer waits for.
Leftover == IF Waiting /\ (call.todo # {} \/ call.mines)
            THEN {[id |-> abandoned, price |-> call.price,
                   todo |-> call.todo, mines |-> call.mines]}
            ELSE {}

\* Giving up on a request that is still open leaves it with the node.
GiveUpOnCall ==
    /\ late' = late \cup Leftover
    /\ abandoned' = IF Waiting THEN abandoned + 1 ELSE abandoned

-----------------------------------------------------------------------------
Init ==
    /\ pc = "tick"
    /\ head = StartHead
    /\ staged = NoStage
    /\ trying = NoStage
    /\ heldTicks = 0
    /\ gate = "none"
    /\ stopped = FALSE
    /\ closing = FALSE
    /\ call = NoCall
    /\ late = {}
    /\ abandoned = 0
    /\ chainHead = StartHead
    /\ storage = [s \in Slots |-> StartHead - 1]
    /\ blocks = [b \in {} |-> {}]
    /\ sent = {}
    /\ haltHead = 0

(* What the rest of the coordinator does to the miner *)

\* A pass that failed before its oracle task has nothing to write.
StagedWrites == IF PassesFail THEN {{}, Slots} ELSE {Slots}

\* stage(): an older stage never replaces a newer one.
Stage(b, writes) ==
    /\ b >= staged.forBlock
    /\ staged' = [forBlock |-> b, writes |-> writes,
                  commit |-> BatchCommit /\ writes # {}, applied |-> FALSE]
    /\ UNCHANGED <<pc, head, trying, heldTicks, gate, stopped, closing, nodeVars, history>>

\* halt() and stop() both stop the loop; stop() then waits for it and flushes.
NoteHalt == haltHead' = IF stopped THEN haltHead ELSE chainHead

Halt ==
    /\ stopped' = TRUE
    /\ NoteHalt
    /\ UNCHANGED <<pc, head, staged, trying, heldTicks, gate, closing, nodeVars, sent>>

Stop ==
    /\ stopped' = TRUE
    /\ closing' = TRUE
    /\ NoteHalt
    /\ UNCHANGED <<pc, head, staged, trying, heldTicks, gate, nodeVars, sent>>

-----------------------------------------------------------------------------
(* run() *)

\* Sleep until the slot, then read the chain's head; a failed read keeps the one it knows.
BeginTick ==
    /\ pc = "tick"
    /\ ~stopped
    /\ chainHead < MaxHead
    /\ \/ head' = Larger(head, chainHead)
       \/ "read" \in MayFail /\ head' = head
    /\ pc' = "gate"
    /\ UNCHANGED <<staged, trying, heldTicks, gate, stopped, closing, nodeVars, history>>

SendMine ==
    /\ pc' = "mine"
    /\ call' = Request("mine", staged)
    /\ heldTicks' = 0
    /\ UNCHANGED <<trying, sent>>

\* applyStaged(): captures the stage of this moment, whatever the gate saw.
SendApply(next) ==
    /\ pc' = next
    /\ call' = Request("apply", staged)
    /\ trying' = staged
    /\ sent' = sent \cup {staged.forBlock}
    /\ UNCHANGED heldTicks

SendCommit ==
    /\ pc' = "commit"
    /\ call' = Request("commit", staged)
    /\ trying' = staged
    /\ sent' = sent \cup {staged.forBlock}
    /\ UNCHANGED heldTicks

\* One request for the writes and the block if the stage has it, else writes, then the block.
PassGate ==
    /\ pc = "gate"
    /\ ~stopped
    /\ \/ Ready /\ gate' = IF staged.writes = {} THEN "nothing" ELSE "open"
       \/ ~Ready /\ gate' = "timedOut"
    /\ \/ ~staged.applied /\ staged.commit /\ SendCommit
       \/ ~staged.applied /\ ~staged.commit /\ SendApply("apply1")
       \/ staged.applied /\ SendMine
    /\ UNCHANGED <<head, staged, stopped, closing, late, abandoned,
                   chainHead, storage, blocks, haltHead>>

\* `staged.applied = true` on the captured object: a newer stage stays unapplied.
MarkCaptured ==
    staged' = IF staged.forBlock = trying.forBlock
              THEN [staged EXCEPT !.applied = TRUE] ELSE staged

\* The head moves by at least one, whatever the block number read says.
MoveHead == \E r \in ReadBack : head' = Larger(head + 1, r)

CommitOk ==
    /\ pc = "commit"
    /\ CallOk
    /\ MarkCaptured
    /\ MoveHead
    /\ heldTicks' = 0
    /\ pc' = "tick"
    /\ call' = NoCall
    /\ UNCHANGED <<trying, gate, stopped, closing, late, abandoned,
                   chainHead, storage, blocks, history>>

\* A failed commit falls back to the two steps, with no look at `stopped` in between.
CommitFails ==
    /\ pc = "commit"
    /\ CallFailed
    /\ GiveUpOnCall
    /\ \/ ~staged.applied /\ SendApply("apply1")
       \/ staged.applied /\ SendMine
    /\ UNCHANGED <<head, staged, gate, stopped, closing,
                   chainHead, storage, blocks, haltHead>>

\* Mutant: applyStaged() reports success after an error.
ApplyErrorSwallowed ==
    /\ pc \in {"apply1", "apply2"}
    /\ CallOk \/ CallFailed
    /\ GiveUpOnCall
    /\ MarkCaptured
    /\ SendMine
    /\ UNCHANGED <<head, gate, stopped, closing, chainHead, storage, blocks, haltHead>>

ApplyOk ==
    /\ pc \in {"apply1", "apply2"}
    /\ CallOk
    /\ MarkCaptured
    /\ SendMine
    /\ UNCHANGED <<head, gate, stopped, closing, late, abandoned,
                   chainHead, storage, blocks, haltHead>>

\* The one retry sends the captured stage again.
ApplyRetry ==
    /\ pc \in {"apply1", "stop1"}
    /\ CallFailed
    /\ GiveUpOnCall
    /\ call' = Request("apply", trying)
    /\ pc' = IF pc = "apply1" THEN "apply2" ELSE "stop2"
    /\ UNCHANGED <<head, staged, trying, heldTicks, gate, stopped, closing,
                   chainHead, storage, blocks, history>>

\* Both tries failed: the block is held for this tick.
ApplyHeld ==
    /\ pc = "apply2"
    /\ CallFailed
    /\ heldTicks + 1 < MaxHeldTicks
    /\ GiveUpOnCall
    /\ heldTicks' = heldTicks + 1
    /\ pc' = "tick"
    /\ call' = NoCall
    /\ UNCHANGED <<head, staged, trying, gate, stopped, closing,
                   chainHead, storage, blocks, history>>

\* Mutant: the held ticks are never given up.
ApplyNeverGivenUp ==
    /\ pc = "apply2"
    /\ CallFailed
    /\ heldTicks + 1 >= MaxHeldTicks
    /\ GiveUpOnCall
    /\ pc' = "tick"
    /\ call' = NoCall
    /\ UNCHANGED <<head, staged, trying, heldTicks, gate, stopped, closing,
                   chainHead, storage, blocks, history>>

\* ... or, held often enough, mined on what storage holds.  `this.staged` is marked, which by
\* now may be a newer stage than the one that failed.
ApplyGivenUp ==
    /\ pc = "apply2"
    /\ CallFailed
    /\ heldTicks + 1 >= MaxHeldTicks
    /\ GiveUpOnCall
    /\ staged' = [staged EXCEPT !.applied = TRUE]
    /\ gate' = "gaveUp"
    /\ SendMine
    /\ UNCHANGED <<head, stopped, closing, chainHead, storage, blocks, haltHead>>

\* Mutant: a confirmed mine goes on to the next one without a look at `stopped`.
MineOkMinesOn ==
    /\ pc = "mine"
    /\ CallOk
    /\ MoveHead
    /\ SendMine
    /\ UNCHANGED <<staged, gate, stopped, closing, late, abandoned,
                   chainHead, storage, blocks, haltHead>>

MineOk ==
    /\ pc = "mine"
    /\ CallOk
    /\ MoveHead
    /\ pc' = "tick"
    /\ call' = NoCall
    /\ UNCHANGED <<staged, trying, heldTicks, gate, stopped, closing, late, abandoned,
                   chainHead, storage, blocks, history>>

\* Mutant: a mine that was not confirmed still moves the head.
MineFailsButMoves ==
    /\ pc = "mine"
    /\ CallFailed
    /\ GiveUpOnCall
    /\ head' = head + 1
    /\ pc' = "tick"
    /\ call' = NoCall
    /\ UNCHANGED <<staged, trying, heldTicks, gate, stopped, closing,
                   chainHead, storage, blocks, history>>

MineFails ==
    /\ pc = "mine"
    /\ CallFailed
    /\ GiveUpOnCall
    /\ pc' = "tick"
    /\ call' = NoCall
    /\ UNCHANGED <<head, staged, trying, heldTicks, gate, stopped, closing,
                   chainHead, storage, blocks, history>>

\* Mutant: the gate's wait does not look at `stopped`.
LeaveLoopAtTick ==
    /\ pc = "tick"
    /\ stopped
    /\ pc' = "exited"
    /\ UNCHANGED <<head, staged, trying, heldTicks, gate, stopped, closing, nodeVars, history>>

\* The loop looks at `stopped` only where it sleeps.
LeaveLoop ==
    /\ pc \in {"tick", "gate"}
    /\ stopped
    /\ pc' = "exited"
    /\ UNCHANGED <<head, staged, trying, heldTicks, gate, stopped, closing, nodeVars, history>>

-----------------------------------------------------------------------------
(* stop(), once the loop has ended *)

StopFlush ==
    /\ pc = "exited"
    /\ closing
    /\ \/ /\ ~staged.applied
          /\ SendApply("stop1")
       \/ /\ staged.applied
          /\ pc' = "done"
          /\ UNCHANGED <<call, trying, heldTicks, sent>>
    /\ UNCHANGED <<head, staged, gate, stopped, closing, late, abandoned,
                   chainHead, storage, blocks, haltHead>>

StopOk ==
    /\ pc \in {"stop1", "stop2"}
    /\ CallOk
    /\ MarkCaptured
    /\ pc' = "done"
    /\ call' = NoCall
    /\ UNCHANGED <<head, trying, heldTicks, gate, stopped, closing, late, abandoned,
                   chainHead, storage, blocks, history>>

StopFails ==
    /\ pc = "stop2"
    /\ CallFailed
    /\ GiveUpOnCall
    /\ pc' = "done"
    /\ call' = NoCall
    /\ UNCHANGED <<head, staged, trying, heldTicks, gate, stopped, closing,
                   chainHead, storage, blocks, history>>

-----------------------------------------------------------------------------
(* The node *)

AddBlock(how) ==
    /\ chainHead' = chainHead + 1
    /\ blocks' = [b \in (StartHead + 1)..(chainHead + 1) |->
                    IF b = chainHead + 1 THEN [prices |-> storage, gate |-> how]
                                         ELSE blocks[b]]

NodeWrites ==
    /\ Waiting
    /\ \E s \in call.todo :
         /\ storage' = [storage EXCEPT ![s] = call.price]
         /\ call' = [call EXCEPT !.todo = @ \ {s}, !.touched = TRUE]
    /\ UNCHANGED <<minerVars, late, abandoned, chainHead, blocks, history>>

\* A batch is served in order (batchServedInOrder): its writes come before its mine.
NodeMines ==
    /\ Waiting
    /\ call.todo = {}
    /\ call.mines
    /\ AddBlock(gate)
    /\ call' = [call EXCEPT !.mines = FALSE, !.touched = TRUE]
    /\ UNCHANGED <<minerVars, late, abandoned, storage, history>>

NodeAnswers ==
    /\ Waiting
    /\ call.todo = {}
    /\ ~call.mines
    /\ call' = [call EXCEPT !.answer = IF call.bad THEN "failed" ELSE "ok"]
    /\ UNCHANGED <<minerVars, late, abandoned, chainHead, storage, blocks, history>>

\* The whole request is refused before any of it is done.
NodeRefuses ==
    /\ Waiting
    /\ call.kind \in MayFail
    /\ ReachesNode
    /\ ~call.touched
    /\ call' = [call EXCEPT !.answer = "failed"]
    /\ UNCHANGED <<minerVars, late, abandoned, chainHead, storage, blocks, history>>

\* One member of the batch fails, or the block number read after a mine does.
NodeDrops ==
    /\ Partial
    /\ Waiting
    /\ call.kind \in MayFail
    /\ \/ \E s \in call.todo :
            call' = [call EXCEPT !.todo = @ \ {s}, !.bad = TRUE, !.touched = TRUE]
       \/ /\ call.todo = {}
          /\ call.mines
          /\ call' = [call EXCEPT !.mines = FALSE, !.bad = TRUE, !.touched = TRUE]
       \/ /\ call.todo = {}
          /\ ~call.mines
          /\ call.kind # "apply"
          /\ call' = [call EXCEPT !.answer = "failed"]
    /\ UNCHANGED <<minerVars, late, abandoned, chainHead, storage, blocks, history>>

LateWrites ==
    /\ \E r \in late : \E s \in r.todo :
         /\ storage' = [storage EXCEPT ![s] = r.price]
         /\ late' = (late \ {r}) \cup
                    (IF r.todo = {s} /\ ~r.mines THEN {}
                     ELSE {[r EXCEPT !.todo = @ \ {s}]})
    /\ UNCHANGED <<minerVars, call, abandoned, chainHead, blocks, history>>

LateMines ==
    /\ \E r \in late :
         /\ r.todo = {}
         /\ r.mines
         /\ late' = late \ {r}
    /\ AddBlock("late")
    /\ UNCHANGED <<minerVars, call, abandoned, storage, history>>

-----------------------------------------------------------------------------
Miner ==
    \/ BeginTick \/ PassGate \/ CommitOk \/ CommitFails
    \/ ApplyOk \/ ApplyRetry \/ ApplyHeld \/ ApplyGivenUp
    \/ MineOk \/ MineFails \/ LeaveLoop \/ StopFlush \/ StopOk \/ StopFails

NodeServes == NodeWrites \/ NodeMines \/ NodeAnswers

Node == NodeServes \/ NodeRefuses \/ NodeDrops \/ LateWrites \/ LateMines

\* A block pass stages once for a block that exists, passes in block order.
Coordinator ==
    \/ \E b \in (staged.forBlock + 1)..chainHead : \E w \in StagedWrites : Stage(b, w)
    \/ ~stopped /\ Halt
    \/ ~closing /\ Stop

\* stop() has returned and nothing is left in flight.
Finished ==
    /\ pc = "done"
    /\ late = {}
    /\ UNCHANGED vars

Next == Miner \/ Node \/ Coordinator \/ Finished

Spec == Init /\ [][Next]_vars

\* The miner's own steps are timers and promise callbacks; the node serves the request waited for.
FairSpec == Spec /\ WF_vars(Miner) /\ WF_vars(NodeServes)

-----------------------------------------------------------------------------
(* Properties *)

\* Every variable has its shape.
TypeOK ==
    /\ pc \in {"tick", "gate", "commit", "apply1", "apply2", "mine",
               "exited", "stop1", "stop2", "done"}
    /\ head \in Nat
    /\ staged \in Stages
    /\ trying \in Stages
    /\ heldTicks \in 0..(MaxHeldTicks - 1)
    /\ gate \in {"none", "open", "nothing", "timedOut", "gaveUp"}
    /\ stopped \in BOOLEAN
    /\ closing \in BOOLEAN
    /\ call \in Calls
    /\ late \in SUBSET [id : Nat, price : Nat, todo : SUBSET Slots, mines : BOOLEAN]
    /\ abandoned \in 0..MaxLate
    /\ chainHead \in Nat /\ chainHead >= StartHead
    /\ storage \in [Slots -> Nat]
    /\ blocks \in [(StartHead + 1)..chainHead ->
                    [prices : [Slots -> Nat],
                     gate : {"none", "open", "nothing", "timedOut", "gaveUp", "late"}]]
    /\ sent \subseteq Nat
    /\ haltHead \in Nat

Mixed(b) == \E s, t \in Slots : blocks[b].prices[s] # blocks[b].prices[t]

\* A block mined through an open gate carries, in every slot, the price set computed by the pass
\* for its parent: the gate neither lets a block go out on the previous block's set nor ahead of
\* the pass for the real head (gatedMiner.ts:30-33, 258-261).
PricedByItsPass ==
    \A b \in DOMAIN blocks :
        blocks[b].gate = "open" => \A s \in Slots : blocks[b].prices[s] = b - 1

RepeatsParent(b) == b - 1 \in DOMAIN blocks /\ blocks[b].prices = blocks[b - 1].prices

\* "Mining on a mix of new and old prices ... is what the gate exists to prevent"
\* (gatedMiner.ts:185-187): a block is built on a half-written set only when the miner has held it
\* and given up (gatedMiner.ts:75-77), or when it repeats the prices of such a block.
MixedOnlyAfterGiveUp ==
    \A b \in DOMAIN blocks :
        Mixed(b) => blocks[b].gate = "gaveUp" \/ RepeatsParent(b)

\* The miner never believes in a block the node does not have, however many mines time out, fail
\* after mining or report a stale head: a head ahead of the chain would wait for a pass that cannot
\* run (gatedMiner.ts:293-294, 329-330).
HeadExists == head <= chainHead

\* A stage is written off as applied only if its own writes were sent to the node: giving up on a
\* set that cannot be written does not drop a newer one (gatedMiner.ts:323, "Give up on this stage").
WrittenOffOnlyIfTried ==
    staged.applied /\ staged.forBlock >= StartHead => staged.forBlock \in sent

\* A block goes out as a gate miss only if the head's prices were not staged in time; a mine that
\* failed is tried again at the next slot, on the same prices (gatedMiner.ts:22, 334-335).
TimedOutOnlyUnpriced ==
    \A b \in DOMAIN blocks :
        blocks[b].gate = "timedOut" => \E s \in Slots : blocks[b].prices[s] # b - 1

\* Once told to stop, the miner adds at most the block it was already working on: everything later
\* would be a gate timeout on a market that has ended (gatedMiner.ts:136-140).
OneBlockAfterHalt == stopped => chainHead <= haltHead + 1

\* The chain goes on whatever the block passes do and however often the price writes fail: neither
\* a pass that never stages nor a set that cannot be written stops it (gatedMiner.ts:17-19, 75-77).
ChainAdvances ==
    \A h \in StartHead..(MaxHead - 1) : chainHead = h ~> chainHead > h \/ stopped

\* stop() returns: a gate, a hung request or a failing apply never holds the teardown
\* (gatedMiner.ts:35-37, 142-149).
StopReturns == closing ~> pc = "done"
=============================================================================
