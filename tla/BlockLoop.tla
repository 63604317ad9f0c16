------------------------------ MODULE BlockLoop ------------------------------
(***************************************************************************)
(* The coordinator's block loop (core/src/realtime/coordinator.ts:4763 on) *)
(* and the miner it paces: every block reported to onBlock() may start a   *)
(* pass, a pass stages the prices of the next block, and the miner mines   *)
(* on that stage and reports the block back.                               *)
(*                                                                         *)
(* A pass is three awaits long: it reads its block ("reading"), stages,    *)
(* and works on history and artifacts ("after").  What it computes is      *)
(* abstracted to the blocks it covers.                                     *)
(***************************************************************************)
EXTENDS GatedMiner

CONSTANTS
    EndBlock,  \* endBlock: the epoch's last block (epochEndBlock)
    WallClock, \* the run also has a time limit (effectiveRunSeconds > 0)
    Period     \* a practice period: SIGTERM stops the process between awaits

ASSUME LoopAssumption ==
    /\ EndBlock \in Nat /\ EndBlock > StartHead
    /\ WallClock \in BOOLEAN
    /\ Period \in BOOLEAN

VARIABLES
    sendHead,    \* sendHeadBlock: the newest head reported
    watched,     \* the watcher's last report, 0 before its first
    last,        \* lastProcessedBlock
    passStarted, \* passStarted
    finished,    \* finished
    pass,        \* the pass in progress (`processing`, `step`, `passStaged`)
    soon,        \* heads handed to setImmediate(onBlock)
    checkpoint,  \* the block of the last checkpoint written
    teardown,    \* how far the end of the run got
    covered,     \* history: how many passes covered each block
    steps,       \* history: how many passes ran at each block (price walk steps)
    sealed       \* history: the state each block was left in

loopVars == <<sendHead, watched, last, passStarted, finished, pass, soon, checkpoint, teardown>>
loopHistory == <<covered, steps, sealed>>
allVars == <<vars, loopVars, loopHistory>>

Blocks == StartHead..(MaxHead + 2 + MaxLate)

NoPass == [phase |-> "idle", bn |-> StartHead, final |-> FALSE]

LoopInit ==
    /\ Init
    /\ sendHead = 0
    /\ watched = 0
    /\ last = StartHead
    /\ passStarted = FALSE
    /\ finished = FALSE
    /\ pass = NoPass
    /\ soon = {}
    /\ checkpoint = 0
    /\ teardown = "running"
    /\ covered = [b \in Blocks |-> 0]
    /\ steps = [b \in Blocks |-> 0]
    /\ sealed = [b \in {} |-> {}]

-----------------------------------------------------------------------------
Lesser(a, b) == IF a <= b THEN a ELSE b

\* loopStep(): the notified head, never past the end.
StepBlock(n) == Lesser(n, EndBlock)
StepFinal(n) == StepBlock(n) >= EndBlock

\* Mutant: a pass runs for a block already processed.
StartsPassAgain(n) == pass.phase = "idle" /\ ~finished

\* The early returns of onBlock(): a pass is running or the run is over, or the block was processed.
StartsPass(n) ==
    /\ pass.phase = "idle"
    /\ ~finished
    /\ passStarted => n > last

\* Mutant: a pass starts at the last block of the one before it.
BeginPassFromLast(n) ==
    LET bn == StepBlock(n) IN
    /\ passStarted' = TRUE
    /\ pass' = [phase |-> "reading", bn |-> bn, final |-> StepFinal(n)]
    /\ last' = Larger(last, bn)
    /\ covered' = [b \in Blocks |-> IF last <= b /\ b <= bn THEN covered[b] + 1 ELSE covered[b]]
    /\ steps' = [steps EXCEPT ![bn] = @ + 1]

BeginPass(n) ==
    LET bn == StepBlock(n) IN
    /\ passStarted' = TRUE
    /\ pass' = [phase |-> "reading", bn |-> bn, final |-> StepFinal(n)]
    /\ last' = Larger(last, bn)
    /\ covered' = [b \in Blocks |-> IF last < b /\ b <= bn THEN covered[b] + 1 ELSE covered[b]]
    /\ steps' = [steps EXCEPT ![bn] = @ + 1]

\* onBlock(n) up to its first await: the head counts even when the notification is dropped.
OnBlock(n) ==
    /\ sendHead' = Larger(sendHead, n)
    /\ \/ StartsPass(n) /\ BeginPass(n)
       \/ ~StartsPass(n) /\ UNCHANGED <<passStarted, pass, last, covered, steps>>

\* The process is still there.
Running == teardown \notin {"closed", "exited"}

\* Blocks keep the state they have when the next one is mined.
Seal == sealed' = [b \in StartHead..(chainHead' - 1) |->
                      IF b \in DOMAIN sealed THEN sealed[b] ELSE storage]

-----------------------------------------------------------------------------
(* The miner and the node, inside the loop *)

\* A block mined by the miner is reported at once (onMined), in the miner's own turn.
MinerReports ==
    /\ Running
    /\ CommitOk \/ MineOk
    /\ OnBlock(head')
    /\ UNCHANGED <<watched, finished, soon, checkpoint, teardown, sealed>>

MinerWorks ==
    /\ Running
    /\ \/ BeginTick \/ PassGate \/ CommitFails \/ ApplyOk \/ ApplyRetry
       \/ ApplyHeld \/ ApplyGivenUp \/ MineFails \/ LeaveLoop
       \/ StopFlush \/ StopOk \/ StopFails
    /\ UNCHANGED <<loopVars, loopHistory>>

NodeWorks ==
    /\ Running
    /\ Node
    /\ Seal
    /\ UNCHANGED <<loopVars, covered, steps>>

\* watchBlockNumber: each report is a later block than its last and may be of a block the miner has
\* reported, or of an older one; the first may be the block the run started from.
Watcher ==
    /\ Running
    /\ ~finished
    /\ \E n \in Larger(watched + 1, StartHead)..chainHead : OnBlock(n) /\ watched' = n
    /\ UNCHANGED <<vars, finished, soon, checkpoint, teardown, sealed>>

Immediate ==
    /\ Running
    /\ \E n \in soon : soon' = soon \ {n} /\ OnBlock(n)
    /\ UNCHANGED <<vars, watched, finished, checkpoint, teardown, sealed>>

-----------------------------------------------------------------------------
(* A pass *)

\* Mutant: the pass stages while it still reads its block.
StageAtOnce ==
    /\ Running
    /\ pass.phase = "reading"
    /\ Stage(pass.bn, Slots)
    /\ staged.forBlock < pass.bn
    /\ UNCHANGED <<loopVars, loopHistory>>

\* Everything that reads the block as the head is done: stagePass().
PassStages ==
    /\ Running
    /\ pass.phase = "reading"
    /\ Stage(pass.bn, Slots)
    /\ pass' = [pass EXCEPT !.phase = "after"]
    /\ UNCHANGED <<sendHead, watched, last, passStarted, finished, soon, checkpoint, teardown,
                   loopHistory>>

\* finish(): once, by the final pass or the time limit; the miner stops without being waited for.
Finish ==
    /\ finished' = TRUE
    /\ IF finished THEN UNCHANGED vars ELSE Halt

\* Mutant: the heads dropped while the pass ran are not picked up.
PickUpNothing == UNCHANGED soon

\* A head reported while the pass ran was dropped; no further one may come until a pass stages.
PickUp == soon' = IF sendHead > last THEN soon \cup {sendHead} ELSE soon

\* The pass settles.  Its checkpoint is its last act, and only a pass that got there writes one.
PassEnds ==
    /\ Running
    /\ pass.phase = "after"
    /\ pass' = NoPass
    /\ checkpoint' \in {checkpoint, pass.bn}
    /\ \/ pass.final /\ Finish /\ UNCHANGED soon
       \/ ~pass.final /\ PickUp /\ UNCHANGED <<vars, finished>>
    /\ UNCHANGED <<sendHead, watched, last, passStarted, teardown, loopHistory>>

\* A pass that throws while reading still stages (nothing, before its oracle task ran) and settles;
\* a final one that failed ends the run all the same.
PassThrows ==
    /\ Running
    /\ pass.phase = "reading"
    /\ pass' = NoPass
    /\ \E w \in StagedWrites : staged' = [forBlock |-> pass.bn, writes |-> w,
                                         commit |-> BatchCommit /\ w # {}, applied |-> FALSE]
    /\ \/ /\ pass.final
          /\ finished' = TRUE
          /\ stopped' = TRUE
          /\ NoteHalt
          /\ UNCHANGED soon
       \/ /\ ~pass.final
          /\ PickUp
          /\ UNCHANGED <<finished, stopped, haltHead>>
    /\ UNCHANGED <<pc, head, trying, heldTicks, gate, closing, nodeVars, sent,
                   sendHead, watched, last, passStarted, checkpoint, teardown, loopHistory>>

-----------------------------------------------------------------------------
(* The end of the run *)

TimeLimit ==
    /\ Running
    /\ WallClock
    /\ ~finished
    /\ Finish
    /\ UNCHANGED <<sendHead, watched, last, passStarted, pass, soon,
                   checkpoint, teardown, loopHistory>>

\* Mutant: the run's end does not wait for the pass in flight.
BeginTeardownEarly ==
    /\ teardown = "running"
    /\ finished
    /\ Stop
    /\ teardown' = "stopping"
    /\ UNCHANGED <<sendHead, watched, last, passStarted, finished, pass, soon,
                   checkpoint, loopHistory>>

\* The pass in flight is awaited, then the miner is stopped.
BeginTeardown ==
    /\ teardown = "running"
    /\ finished
    /\ pass.phase = "idle"
    /\ Stop
    /\ teardown' = "stopping"
    /\ UNCHANGED <<sendHead, watched, last, passStarted, finished, pass, soon,
                   checkpoint, loopHistory>>

\* miner.stop() returned: the final block is read and scored.
CloseRun ==
    /\ teardown = "stopping"
    /\ pc = "done"
    /\ teardown' = "closed"
    /\ UNCHANGED <<vars, sendHead, watched, last, passStarted, finished, pass, soon,
                   checkpoint, loopHistory>>

\* A period's stop: the miner is stopped under the passes, which go on until the process exits.
\* What the run's own teardown would still do before that is left out.
Sigterm ==
    /\ Period
    /\ teardown = "running"
    /\ Stop
    /\ teardown' = "leaving"
    /\ UNCHANGED <<sendHead, watched, last, passStarted, finished, pass, soon,
                   checkpoint, loopHistory>>

\* process.exit() once the miner's stop and the node's have answered, or after 3 s without them.
Exit ==
    /\ teardown = "leaving"
    /\ teardown' = "exited"
    /\ UNCHANGED <<vars, sendHead, watched, last, passStarted, finished, pass, soon,
                   checkpoint, loopHistory>>

RunOver ==
    /\ teardown \in {"closed", "exited"}
    /\ UNCHANGED allVars

-----------------------------------------------------------------------------
PassWorks == PassStages \/ PassEnds \/ PassThrows

LoopNext ==
    \/ MinerReports \/ MinerWorks \/ NodeWorks
    \/ Watcher \/ Immediate \/ PassWorks
    \/ TimeLimit \/ BeginTeardown \/ CloseRun
    \/ Sigterm \/ Exit \/ RunOver

LoopSpec == LoopInit /\ [][LoopNext]_allVars

\* Timers and promise callbacks run, the node answers, and the awaits of a pass settle.  The
\* watcher, a poll over RPC, is given no fairness.
FairLoopSpec ==
    /\ LoopSpec
    /\ WF_allVars(MinerReports \/ MinerWorks)
    /\ WF_allVars(NodeServes /\ NodeWorks)
    /\ WF_allVars(PassWorks)
    /\ WF_allVars(Immediate)
    /\ WF_allVars(BeginTeardown \/ CloseRun \/ Exit)

-----------------------------------------------------------------------------
(* Properties *)

\* Every variable of the loop has its shape; no pass is for a block after the bell, though the miner
\* mines on until it is stopped (epochExtent.ts:48-56).
LoopTypeOK ==
    /\ TypeOK
    /\ sendHead \in 0..chainHead
    /\ watched \in 0..chainHead
    /\ last \in StartHead..EndBlock
    /\ passStarted \in BOOLEAN
    /\ finished \in BOOLEAN
    /\ pass \in [phase : {"idle", "reading", "after"}, bn : StartHead..EndBlock, final : BOOLEAN]
    /\ soon \subseteq 1..chainHead
    /\ checkpoint \in 0..EndBlock
    /\ teardown \in {"running", "stopping", "closed", "leaving", "exited"}

\* Every block from the run's first to the last processed is covered by exactly one pass, however
\* notifications are dropped, repeated or late (coordinator.ts:4798-4803).
EachBlockCoveredOnce ==
    \A b \in Blocks : covered[b] = IF StartHead < b /\ b <= last THEN 1 ELSE 0

\* No block is passed twice, though the miner, the watcher and the pick-up of a dropped head all
\* report it: a second pass would advance the price walk again (coordinator.ts:4786-4790).
OneWalkStepPerBlock == \A b \in Blocks : steps[b] <= 1

\* A head reported while a pass ran is never forgotten: with no pass running, either it was
\* processed or a call of onBlock for it is on its way (coordinator.ts:5817-5827).
NoLostHead ==
    pass.phase = "idle" /\ ~finished /\ soon = {} => sendHead <= last

\* While a pass reads the head block, the node's latest state holds the prices that block was mined
\* on: the next block's prices are not written under it (coordinator.ts:5182-5184).  A tick whose
\* gate timed out writes the stage it finds, which a late pass may have left.
ReadsOwnPrices ==
    pass.phase = "reading" /\ chainHead = pass.bn /\ pass.bn \in DOMAIN blocks
        => storage = blocks[pass.bn].prices \/ gate = "timedOut"

\* The state of the final block does not depend on where the miner's loop was when the run ended:
\* closed, it carries the prices its own pass wrote for the block after it, whether the loop mined
\* that block or stop() flushed the stage (gatedMiner.ts:142-149).  Only a block the gate let through
\* before the pass staged has already sealed it.
FinalState == IF last \in DOMAIN sealed THEN sealed[last] ELSE storage

MinedUnpriced(b) == b \in DOMAIN blocks /\ blocks[b].gate = "timedOut"

FinalBlockCarriesItsStage ==
    (/\ teardown = "closed"
     /\ staged.writes # {}
     /\ last = staged.forBlock
     /\ ~MinedUnpriced(last + 1))
        => \A s \in Slots : FinalState[s] = last

\* The run ends: the final block is processed, the miner stopped and the run closed, with no help
\* from the watcher (coordinator.ts:5816-5827, 5842-5846), unless a SIGTERM ended the process.
RunCloses == <>(teardown \in {"closed", "exited"})
=============================================================================
