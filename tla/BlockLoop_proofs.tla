-------------------------- MODULE BlockLoop_proofs --------------------------
(* Theorems about BlockLoop, for every end block, every bound and any number of slots. *)
EXTENDS BlockLoop, GatedMiner_proofs

USE SlotsAssumption, BoundsAssumption, FaultsAssumption, LoopAssumption

-----------------------------------------------------------------------------
(* The loop drives the miner as a coordinator does *)

\* The heads the loop works with are blocks of the chain.
HeadsExist ==
    /\ head >= StartHead
    /\ soon \subseteq StartHead..chainHead
    /\ pass.phase # "idle" => passStarted /\ pass.bn = last /\ last <= chainHead

\* A stage is never for a block whose pass has not run: it follows the passes, in block order.
StageFollowsPass ==
    /\ passStarted => staged.forBlock <= last
    /\ ~passStarted => staged.forBlock < StartHead /\ last = StartHead
    /\ pass.phase = "reading" => staged.forBlock < pass.bn

\* The end block's pass is the last: while it runs no other starts, and then the run is over.
LastPassEnds == last = EndBlock => finished \/ (pass.phase # "idle" /\ pass.final)

LoopGround == LoopTypeOK /\ HeadInv /\ HeadsExist /\ StageFollowsPass /\ LastPassEnds

LEMMA IdleIsSteers == UNCHANGED vars => Steers
BY DEF vars, minerVars, history, Steers

LEMMA HaltIsSteers == Halt => Steers
BY DEF Halt, Steers

LEMMA StopIsSteers == Stop => Steers
BY DEF Stop, Steers

LEMMA FinishIsSteers == Finish => Steers
BY IdleIsSteers, HaltIsSteers DEF Finish

\* A pass stages the block it is for, which is on the chain and newer than any block staged before.
LEMMA PassStagesNewer ==
    ASSUME LoopGround, pass.phase = "reading"
    PROVE  pass.bn \in (staged.forBlock + 1)..chainHead
BY DEF LoopGround, LoopTypeOK, TypeOK, Stages, HeadsExist, StageFollowsPass

\* Every step of the loop is a step of the miner, of the node, or of a coordinator steering them.
LEMMA LoopIsGated ==
    ASSUME LoopGround, [LoopNext]_allVars PROVE GatedStep
<1>1. CASE MinerReports \/ MinerWorks
  BY <1>1 DEF MinerReports, MinerWorks, GatedStep, Miner
<1>2. CASE NodeWorks
  BY <1>2 DEF NodeWorks, GatedStep
<1>3. CASE Watcher \/ Immediate \/ CloseRun \/ Exit \/ RunOver \/ UNCHANGED allVars
  BY <1>3, IdleIsSteers DEF Watcher, Immediate, CloseRun, Exit, RunOver, allVars, GatedStep
<1>4. CASE PassStages
  <2>1. Stage(pass.bn, Slots) /\ pass.bn \in (staged.forBlock + 1)..chainHead
    BY <1>4, PassStagesNewer DEF PassStages
  <2>2. Slots \in StagedWrites
    BY DEF StagedWrites
  <2>3. QED
    BY <2>1, <2>2 DEF Stage, history, Steers, GatedStep
<1>5. CASE PassEnds
  BY <1>5, IdleIsSteers, FinishIsSteers DEF PassEnds, GatedStep
<1>6. CASE PassThrows
  <2>1. pass.bn \in (staged.forBlock + 1)..chainHead
    BY <1>6, PassStagesNewer DEF PassThrows
  <2>2. \E w \in StagedWrites : staged' = [forBlock |-> pass.bn, writes |-> w,
                                           commit |-> BatchCommit /\ w # {}, applied |-> FALSE]
    BY <1>6 DEF PassThrows
  <2>3. \/ UNCHANGED <<stopped, haltHead>>
        \/ stopped' = TRUE /\ NoteHalt
    BY <1>6 DEF PassThrows
  <2>4. UNCHANGED <<pc, head, trying, heldTicks, gate, closing, nodeVars, sent>>
    BY <1>6 DEF PassThrows
  <2>5. QED
    BY <2>1, <2>2, <2>3, <2>4 DEF Steers, GatedStep
<1>7. CASE TimeLimit
  BY <1>7, FinishIsSteers DEF TimeLimit, GatedStep
<1>8. CASE BeginTeardown \/ Sigterm
  BY <1>8, StopIsSteers DEF BeginTeardown, Sigterm, GatedStep
<1>9. QED
  BY <1>1, <1>2, <1>3, <1>4, <1>5, <1>6, <1>7, <1>8 DEF LoopNext, PassWorks

-----------------------------------------------------------------------------
(* What a step does to the loop's own state *)

\* A report of a block that exists.
Reports ==
    /\ staged'.forBlock = staged.forBlock
    /\ finished' = finished
    /\ \E n \in StartHead..chainHead :
         OnBlock(n) /\ soon' \subseteq soon /\ soon \subseteq soon' \cup {n}

\* A pass that ends picks up the head it has not processed, or ends the run.
PassCloses ==
    /\ pass.phase # "idle"
    /\ pass' = NoPass
    /\ staged'.forBlock \in {staged.forBlock, pass.bn}
    /\ UNCHANGED <<sendHead, last, passStarted, covered, steps>>
    /\ \/ pass.final /\ finished' = TRUE /\ soon' = soon
       \/ ~pass.final /\ PickUp /\ finished' = finished

\* Anything else leaves the passes and the heads as they are, but for a pass moving on.
PassGoesOn ==
    /\ \/ pass' = pass /\ staged'.forBlock = staged.forBlock
       \/ pass.phase = "reading" /\ pass' = [pass EXCEPT !.phase = "after"] /\ staged'.forBlock = pass.bn
    /\ UNCHANGED <<sendHead, last, passStarted, soon, covered, steps>>
    /\ finished' = finished \/ finished' = TRUE

\* The miner and the node never change which block is staged.
LEMMA StageBlockKept ==
    ASSUME TypeOK, Miner \/ Node PROVE staged'.forBlock = staged.forBlock
<1>1. CASE CommitOk \/ ApplyOk \/ StopOk
  BY <1>1, MarkEffect DEF CommitOk, ApplyOk, StopOk
<1>2. CASE ApplyGivenUp
  BY <1>2 DEF ApplyGivenUp, TypeOK, Stages
<1>3. CASE Node
  BY <1>3 DEF Node, NodeServes, NodeWrites, NodeMines, NodeAnswers, NodeRefuses, NodeDrops, LateWrites, LateMines, minerVars
<1>4. CASE Miner /\ ~CommitOk /\ ~ApplyOk /\ ~StopOk /\ ~ApplyGivenUp
  BY <1>4 DEF Miner, BeginTick, PassGate, CommitFails, ApplyRetry, ApplyHeld, MineOk, MineFails, LeaveLoop, StopFlush, StopFails
<1>5. QED
  BY <1>1, <1>2, <1>3, <1>4

\* Neither the chain's head nor the miner's goes back.
LEMMA HeadsGrow ==
    ASSUME TypeOK, GatedStep PROVE chainHead' >= chainHead /\ head' >= head
<1>1. CASE NodeMines \/ LateMines
  BY <1>1 DEF NodeMines, LateMines, AddBlock, TypeOK, minerVars
<1>2. CASE ~NodeMines /\ ~LateMines
  <2>1. chainHead' = chainHead
    BY <1>2, OnlyMinesAddBlocks
  <2>2. head' >= head
    <3>1. CASE Node
      <4>1. head' = head
        BY <3>1 DEF Node, NodeServes, NodeWrites, NodeMines, NodeAnswers, NodeRefuses, NodeDrops, LateWrites, LateMines, minerVars
      <4>2. QED
        BY <4>1 DEF TypeOK
    <3>2. CASE Steers
      BY <3>2, SteersEffect DEF TypeOK
    <3>3. CASE BeginTick \/ CommitOk \/ MineOk
      BY <3>3 DEF BeginTick, CommitOk, MineOk, MoveHead, ReadBack, Larger, TypeOK
    <3>4. CASE Miner /\ ~BeginTick /\ ~CommitOk /\ ~MineOk
      BY <3>4 DEF Miner, PassGate, CommitFails, ApplyOk, ApplyRetry, ApplyHeld, ApplyGivenUp, MineFails, LeaveLoop, StopFlush, StopOk, StopFails, TypeOK
    <3>5. QED
      BY <3>1, <3>2, <3>3, <3>4 DEF GatedStep
  <2>3. QED
    BY <2>1, <2>2 DEF TypeOK
<1>3. QED
  BY <1>1, <1>2

LEMMA LoopSteps ==
    ASSUME LoopGround, HeadInv', [LoopNext]_allVars
    PROVE  Reports \/ PassCloses \/ PassGoesOn
<1>1. CASE MinerReports
  <2>1. head' \in StartHead..chainHead
    <3>1. head' <= chainHead'
      BY DEF HeadInv, HeadExists
    <3>2. chainHead' = chainHead /\ MoveHead
      BY <1>1 DEF MinerReports, CommitOk, MineOk
    <3>3. head' >= StartHead /\ head' \in Int
      BY <3>2 DEF MoveHead, ReadBack, Larger, LoopGround, LoopTypeOK, TypeOK, HeadsExist
    <3>4. QED
      BY <3>1, <3>2, <3>3 DEF LoopGround, LoopTypeOK, TypeOK
  <2>2. OnBlock(head') /\ UNCHANGED <<finished, soon>> /\ staged'.forBlock = staged.forBlock
    BY <1>1, StageBlockKept DEF MinerReports, Miner, LoopGround, LoopTypeOK
  <2>3. QED
    BY <2>1, <2>2 DEF Reports
<1>2. CASE MinerWorks \/ NodeWorks \/ CloseRun \/ Exit \/ RunOver \/ UNCHANGED allVars
  <2>1. staged'.forBlock = staged.forBlock
    BY <1>2, StageBlockKept DEF MinerWorks, NodeWorks, CloseRun, Exit, RunOver, allVars, vars, minerVars, Miner, LoopGround, LoopTypeOK
  <2>2. QED
    BY <1>2, <2>1 DEF MinerWorks, NodeWorks, CloseRun, Exit, RunOver, allVars, loopVars, loopHistory, PassGoesOn
<1>3. CASE Watcher
  <2>1. PICK n \in Larger(watched + 1, StartHead)..chainHead : OnBlock(n)
    BY <1>3 DEF Watcher
  <2>2. n \in StartHead..chainHead
    BY <2>1 DEF Larger, LoopGround, LoopTypeOK, TypeOK
  <2>3. QED
    BY <1>3, <2>1, <2>2 DEF Watcher, Reports, vars, minerVars
<1>4. CASE Immediate
  BY <1>4 DEF Immediate, Reports, LoopGround, HeadsExist, vars, minerVars
<1>5. CASE PassStages
  BY <1>5 DEF PassStages, Stage, PassGoesOn, loopHistory
<1>6. CASE PassEnds
  BY <1>6 DEF PassEnds, Finish, Halt, PassCloses, loopHistory, vars, minerVars
<1>7. CASE PassThrows
  BY <1>7 DEF PassThrows, PassCloses, loopHistory
<1>8. CASE TimeLimit
  BY <1>8 DEF TimeLimit, Finish, Halt, PassGoesOn, loopHistory, vars, minerVars
<1>9. CASE BeginTeardown \/ Sigterm
  BY <1>9 DEF BeginTeardown, Sigterm, Stop, PassGoesOn, loopHistory
<1>10. QED
  BY <1>1, <1>2, <1>3, <1>4, <1>5, <1>6, <1>7, <1>8, <1>9 DEF LoopNext, PassWorks

\* A pass that starts covers a block past the last one, or the run's first.
LEMMA PassBegins ==
    ASSUME LoopGround, NEW n \in StartHead..chainHead, StartsPass(n), BeginPass(n)
    PROVE  /\ pass' = [phase |-> "reading", bn |-> last', final |-> last' = EndBlock]
           /\ last' \in StartHead..EndBlock /\ last' <= chainHead /\ last' <= n
           /\ passStarted' = TRUE
           /\ IF passStarted THEN last' > last ELSE last = StartHead
           /\ covered' = [b \in Blocks |-> IF last < b /\ b <= last' THEN covered[b] + 1 ELSE covered[b]]
           /\ steps' = [steps EXCEPT ![last'] = @ + 1]
<1> DEFINE bn == StepBlock(n)
<1>1. /\ last \in StartHead..EndBlock /\ bn \in StartHead..EndBlock /\ bn <= n /\ n \in Int
      /\ bn = n \/ bn = EndBlock
      /\ chainHead \in Nat
  BY DEF LoopGround, LoopTypeOK, TypeOK, StepBlock, Lesser
<1>2. StepFinal(n) <=> bn = EndBlock
  BY <1>1 DEF StepFinal
<1>3. IF passStarted THEN bn > last ELSE last = StartHead
  <2>1. CASE passStarted
    <3>1. n > last /\ last # EndBlock
      BY <2>1 DEF StartsPass, LoopGround, LastPassEnds
    <3>2. QED
      BY <1>1, <2>1, <3>1
  <2>2. CASE ~passStarted
    BY <2>2 DEF LoopGround, StageFollowsPass
  <2>3. QED
    BY <2>1, <2>2
<1>4. last' = bn
  BY <1>1, <1>3 DEF BeginPass, Larger
<1>5. QED
  BY <1>1, <1>2, <1>3, <1>4 DEF BeginPass, StepFinal

-----------------------------------------------------------------------------
(* Type correctness of the loop *)

LEMMA OtherTypes ==
    ASSUME LoopGround, [LoopNext]_allVars
    PROVE  /\ checkpoint' \in 0..EndBlock
           /\ watched' = watched \/ watched' \in 0..chainHead
           /\ teardown' \in {"running", "stopping", "closed", "leaving", "exited"}
<1> USE DEF LoopGround, LoopTypeOK
<1>1. CASE PassEnds
  <2>1. pass.bn \in 0..EndBlock
    OBVIOUS
  <2>2. QED
    BY <1>1, <2>1 DEF PassEnds
<1>2. CASE Watcher
  <2>1. PICK n \in Larger(watched + 1, StartHead)..chainHead : watched' = n
    BY <1>2 DEF Watcher
  <2>2. watched' \in 0..chainHead
    BY <2>1 DEF Larger, TypeOK
  <2>3. QED
    BY <1>2, <2>2 DEF Watcher
<1>3. CASE ~PassEnds /\ ~Watcher
  BY <1>3 DEF LoopNext, MinerReports, MinerWorks, NodeWorks, Immediate, PassWorks, PassStages, PassThrows, TimeLimit, BeginTeardown, CloseRun, Sigterm, Exit, RunOver, allVars, loopVars
<1>4. QED
  BY <1>1, <1>2, <1>3

LEMMA LoopGroundStep ==
    ASSUME LoopGround, [LoopNext]_allVars PROVE LoopGround'
<1>1. GatedStep
  BY LoopIsGated
<1>2. TypeOK' /\ HeadInv'
  BY <1>1, TypeStep, HeadStep DEF LoopGround, LoopTypeOK
<1>3. chainHead' >= chainHead /\ head' >= head /\ chainHead' \in Nat /\ head' \in Nat
  BY <1>1, <1>2, HeadsGrow DEF LoopGround, LoopTypeOK, TypeOK
<1>4. checkpoint' \in 0..EndBlock /\ teardown' \in {"running", "stopping", "closed", "leaving", "exited"}
  BY OtherTypes
<1>t. /\ chainHead \in Nat /\ head \in Nat /\ staged.forBlock \in Nat /\ staged'.forBlock \in Nat
      /\ last \in StartHead..EndBlock /\ sendHead \in 0..chainHead
  BY <1>2 DEF LoopGround, LoopTypeOK, TypeOK, Stages
<1>w. watched' \in 0..chainHead'
  BY <1>3, <1>t, OtherTypes DEF LoopGround, LoopTypeOK
<1>g. LoopTypeOK /\ HeadsExist /\ StageFollowsPass /\ LastPassEnds
  BY DEF LoopGround
<1> USE <1>g
<1>5. CASE Reports
  <2>1. PICK n \in StartHead..chainHead : OnBlock(n) /\ soon' \subseteq soon
    BY <1>5 DEF Reports
  <2>2. staged'.forBlock = staged.forBlock /\ finished' = finished
    BY <1>5 DEF Reports
  <2>3. sendHead' \in 0..chainHead'
    BY <1>3, <1>t, <2>1 DEF OnBlock, Larger
  <2>4. soon' \subseteq StartHead..chainHead'
    BY <1>3, <1>t, <2>1 DEF HeadsExist
  <2>5. CASE StartsPass(n) /\ BeginPass(n)
    <3>1. /\ pass' = [phase |-> "reading", bn |-> last', final |-> last' = EndBlock]
          /\ last' \in StartHead..EndBlock /\ last' <= chainHead
          /\ passStarted' = TRUE
          /\ IF passStarted THEN last' > last ELSE last = StartHead
      BY <2>5, PassBegins
    <3>2. staged.forBlock < last'
      BY <1>t, <3>1 DEF StageFollowsPass
    <3>3. /\ pass' \in [phase : {"idle", "reading", "after"}, bn : StartHead..EndBlock, final : BOOLEAN]
          /\ pass'.phase = "reading" /\ pass'.bn = last' /\ (last' = EndBlock => pass'.final)
      BY <3>1
    <3>4. LoopTypeOK'
      BY <1>2, <1>3, <1>4, <1>w, <1>t, <2>2, <2>3, <2>4, <3>1, <3>3 DEF LoopTypeOK
    <3>5. HeadsExist' /\ StageFollowsPass' /\ LastPassEnds'
      BY <1>3, <1>t, <2>2, <2>4, <3>1, <3>2, <3>3 DEF HeadsExist, StageFollowsPass, LastPassEnds
    <3>6. QED
      BY <1>2, <3>4, <3>5 DEF LoopGround
  <2>6. CASE UNCHANGED <<passStarted, pass, last, covered, steps>>
    <3>1. LoopTypeOK'
      BY <1>2, <1>3, <1>4, <1>w, <1>t, <2>2, <2>3, <2>4, <2>6 DEF LoopTypeOK
    <3>2. HeadsExist' /\ StageFollowsPass' /\ LastPassEnds'
      BY <1>3, <1>t, <2>2, <2>4, <2>6 DEF HeadsExist, StageFollowsPass, LastPassEnds
    <3>3. QED
      BY <1>2, <3>1, <3>2 DEF LoopGround
  <2>7. QED
    BY <2>1, <2>5, <2>6 DEF OnBlock
<1>6. CASE PassCloses
  <2>1. soon' \subseteq StartHead..chainHead'
    <3>1. soon' = soon \/ (sendHead > last /\ soon' = soon \cup {sendHead})
      BY <1>6 DEF PassCloses, PickUp
    <3>2. soon \subseteq StartHead..chainHead' /\ (sendHead > last => sendHead \in StartHead..chainHead')
      BY <1>3, <1>t DEF HeadsExist
    <3>3. QED
      BY <3>1, <3>2
  <2>2. UNCHANGED <<sendHead, last, passStarted>> /\ pass' = NoPass /\ finished' \in BOOLEAN
        /\ pass.bn = last /\ passStarted /\ staged'.forBlock <= last
    <3>1. pass.bn = last /\ passStarted
      BY <1>6 DEF PassCloses, HeadsExist
    <3>2. staged'.forBlock <= last
      BY <1>6, <1>t, <3>1 DEF PassCloses, StageFollowsPass
    <3>3. finished' \in BOOLEAN
      BY <1>6 DEF PassCloses, LoopTypeOK
    <3>4. QED
      BY <1>6, <3>1, <3>2, <3>3 DEF PassCloses
  <2>3. NoPass \in [phase : {"idle", "reading", "after"}, bn : StartHead..EndBlock, final : BOOLEAN]
    BY DEF NoPass
  <2>4. soon' \subseteq 1..chainHead' /\ sendHead' \in 0..chainHead'
    BY <1>3, <1>t, <2>1, <2>2
  <2>5. LoopTypeOK'
    BY <1>2, <1>4, <1>w, <1>t, <2>2, <2>3, <2>4 DEF LoopTypeOK
  <2>6. HeadsExist' /\ StageFollowsPass'
    BY <1>3, <1>t, <2>1, <2>2 DEF HeadsExist, StageFollowsPass, NoPass
  <2>7. LastPassEnds'
    BY <1>6, <2>2 DEF LastPassEnds, PassCloses
  <2>8. QED
    BY <1>2, <2>5, <2>6, <2>7 DEF LoopGround
<1>7. CASE PassGoesOn
  <2>1. /\ pass' \in [phase : {"idle", "reading", "after"}, bn : StartHead..EndBlock, final : BOOLEAN]
        /\ pass'.bn = pass.bn /\ pass'.final = pass.final
        /\ pass'.phase = "idle" <=> pass.phase = "idle"
        /\ \/ pass'.phase = pass.phase /\ staged'.forBlock = staged.forBlock
           \/ pass'.phase = "after" /\ staged'.forBlock = pass.bn
    BY <1>7 DEF PassGoesOn, LoopTypeOK
  <2>2. UNCHANGED <<sendHead, last, passStarted, soon>> /\ (finished' = finished \/ finished' = TRUE)
    BY <1>7 DEF PassGoesOn
  <2>3. LoopTypeOK'
    <3>1. sendHead' \in 0..chainHead' /\ soon' \subseteq 1..chainHead' /\ last' \in StartHead..EndBlock
      BY <1>3, <1>t, <2>2 DEF HeadsExist
    <3>2. passStarted' \in BOOLEAN /\ finished' \in BOOLEAN
      BY <2>2 DEF LoopTypeOK
    <3>3. QED
      BY <1>2, <1>4, <1>w, <2>1, <3>1, <3>2 DEF LoopTypeOK
  <2>4. HeadsExist'
    BY <1>3, <1>t, <2>1, <2>2 DEF HeadsExist
  <2>5. StageFollowsPass'
    BY <1>t, <2>1, <2>2 DEF StageFollowsPass, HeadsExist
  <2>6. LastPassEnds'
    BY <2>1, <2>2 DEF LastPassEnds
  <2>7. QED
    BY <1>2, <2>3, <2>4, <2>5, <2>6 DEF LoopGround
<1>8. QED
  BY <1>2, <1>5, <1>6, <1>7, LoopSteps

LEMMA LoopGroundStart == LoopInit => LoopGround
<1> SUFFICES ASSUME LoopInit PROVE LoopGround
  OBVIOUS
<1>1. TypeOK /\ HeadInv
  BY TypeStart, HeadStart DEF LoopInit
<1>2. head = StartHead /\ chainHead = StartHead /\ staged = NoStage
  BY DEF LoopInit, Init
<1>3. QED
  <2>1. LoopTypeOK
    <3>1. pass \in [phase : {"idle", "reading", "after"}, bn : StartHead..EndBlock, final : BOOLEAN]
      BY DEF LoopInit, NoPass
    <3>2. sendHead \in 0..chainHead /\ watched \in 0..chainHead /\ last \in StartHead..EndBlock
          /\ checkpoint \in 0..EndBlock
      BY <1>2 DEF LoopInit
    <3>3. soon \subseteq 1..chainHead /\ passStarted \in BOOLEAN /\ finished \in BOOLEAN
          /\ teardown = "running"
      BY DEF LoopInit
    <3>4. QED
      BY <1>1, <3>1, <3>2, <3>3 DEF LoopTypeOK
  <2>2. HeadsExist /\ StageFollowsPass /\ LastPassEnds
    BY <1>2 DEF LoopInit, HeadsExist, StageFollowsPass, LastPassEnds, NoPass, NoStage
  <2>3. QED
    BY <1>1, <2>1, <2>2 DEF LoopGround

LEMMA LoopGroundHolds == LoopSpec => []LoopGround
BY LoopGroundStart, LoopGroundStep, PTL DEF LoopSpec

\* The loop's variables always have their shapes: no pass is for a block past the bell.
THEOREM LoopTypeCorrect == LoopSpec => []LoopTypeOK
<1>1. LoopGround => LoopTypeOK
  BY DEF LoopGround
<1>2. QED
  BY <1>1, LoopGroundHolds, PTL

-----------------------------------------------------------------------------
(* The passes cover the chain *)

\* Every block up to the last processed is covered by one pass, for every order of reports.
THEOREM CoveredOnce == LoopSpec => []EachBlockCoveredOnce
<1>1. LoopInit => EachBlockCoveredOnce
  BY DEF LoopInit, EachBlockCoveredOnce
<1>2. LoopGround /\ LoopGround' /\ EachBlockCoveredOnce /\ [LoopNext]_allVars => EachBlockCoveredOnce'
  <2> SUFFICES ASSUME LoopGround, LoopGround', EachBlockCoveredOnce, [LoopNext]_allVars
               PROVE  EachBlockCoveredOnce'
    OBVIOUS
  <2>1. CASE \E n \in StartHead..chainHead : StartsPass(n) /\ BeginPass(n)
    <3>0. last \in StartHead..EndBlock
      BY DEF LoopGround, LoopTypeOK
    <3>1. /\ last' \in StartHead..EndBlock
          /\ IF passStarted THEN last' > last ELSE last = StartHead
          /\ covered' = [b \in Blocks |-> IF last < b /\ b <= last' THEN covered[b] + 1 ELSE covered[b]]
      BY <2>1, PassBegins
    <3>2. Blocks \subseteq Int
      BY DEF Blocks
    <3>3. QED
      BY <3>0, <3>1, <3>2 DEF EachBlockCoveredOnce
  <2>2. CASE UNCHANGED <<covered, last>>
    BY <2>2 DEF EachBlockCoveredOnce
  <2>3. QED
    BY <2>1, <2>2, LoopSteps DEF Reports, OnBlock, PassCloses, PassGoesOn, LoopGround
<1>3. QED
  BY <1>1, <1>2, LoopGroundHolds, PTL DEF LoopSpec

\* A block past the last processed has had no pass, nor has the run's first before one started.
StepsTaken ==
    /\ steps \in [Blocks -> Nat]
    /\ \A b \in Blocks :
         steps[b] <= IF b <= last /\ (b > StartHead \/ passStarted) THEN 1 ELSE 0

\* No block has two passes, so the price walk takes one step a block.
THEOREM NeverPassedTwice == LoopSpec => []OneWalkStepPerBlock
<1>1. LoopInit => StepsTaken
  BY DEF LoopInit, StepsTaken
<1>2. LoopGround /\ LoopGround' /\ StepsTaken /\ [LoopNext]_allVars => StepsTaken'
  <2> SUFFICES ASSUME LoopGround, LoopGround', StepsTaken, [LoopNext]_allVars
               PROVE  StepsTaken'
    OBVIOUS
  <2>1. CASE \E n \in StartHead..chainHead : StartsPass(n) /\ BeginPass(n)
    <3>1. /\ last \in StartHead..EndBlock /\ last' \in StartHead..EndBlock
          /\ IF passStarted THEN last' > last ELSE last = StartHead
          /\ passStarted' = TRUE
          /\ steps' = [steps EXCEPT ![last'] = @ + 1]
      BY <2>1, PassBegins DEF LoopGround, LoopTypeOK
    <3>2. Blocks \subseteq Int
      BY DEF Blocks
    <3>3. steps' \in [Blocks -> Nat]
      <4>1. steps \in [Blocks -> Nat]
        BY DEF StepsTaken
      <4>2. last' \in Blocks => steps[last'] + 1 \in Nat
        BY <4>1
      <4>3. QED
        BY <3>1, <4>1, <4>2
    <3>4. ASSUME NEW b \in Blocks
          PROVE  steps'[b] <= IF b <= last' /\ (b > StartHead \/ passStarted') THEN 1 ELSE 0
      <4>1. steps[b] \in Nat /\ steps[b] <= IF b <= last /\ (b > StartHead \/ passStarted) THEN 1 ELSE 0
        BY DEF StepsTaken
      <4>2. steps'[b] = IF b = last' THEN steps[b] + 1 ELSE steps[b]
        BY <3>1 DEF StepsTaken
      <4>3. QED
        BY <3>1, <3>2, <4>1, <4>2
    <3>5. QED
      BY <3>3, <3>4 DEF StepsTaken
  <2>2. CASE UNCHANGED <<steps, last, passStarted>>
    BY <2>2 DEF StepsTaken
  <2>3. QED
    BY <2>1, <2>2, LoopSteps DEF Reports, OnBlock, PassCloses, PassGoesOn, LoopGround
<1>3. LoopGround /\ StepsTaken => OneWalkStepPerBlock
  BY DEF StepsTaken, OneWalkStepPerBlock
<1>4. QED
  BY <1>1, <1>2, <1>3, LoopGroundHolds, PTL DEF LoopSpec

\* Between passes the newest head was processed, or a call of onBlock is on its way for it.
HeadPending == pass.phase = "idle" /\ ~finished => sendHead <= last \/ sendHead \in soon

\* No head reported while a pass ran is forgotten.
THEOREM HeadsAreKept == LoopSpec => []NoLostHead
<1>1. LoopInit => HeadPending
  BY DEF LoopInit, HeadPending
<1>2. LoopGround /\ LoopGround' /\ HeadPending /\ [LoopNext]_allVars => HeadPending'
  <2> SUFFICES ASSUME LoopGround, LoopGround', HeadPending, [LoopNext]_allVars,
                      pass'.phase = "idle", ~finished'
               PROVE  sendHead' <= last' \/ sendHead' \in soon'
    BY DEF HeadPending
  <2>t. last \in Int /\ sendHead \in Int /\ (last = StartHead => sendHead \in Int)
    BY DEF LoopGround, LoopTypeOK, TypeOK
  <2>1. CASE Reports
    <3>1. PICK n \in StartHead..chainHead : OnBlock(n) /\ soon' \subseteq soon /\ soon \subseteq soon' \cup {n}
      BY <2>1 DEF Reports
    <3>2. ~(StartsPass(n) /\ BeginPass(n))
      BY DEF BeginPass
    <3>3. UNCHANGED <<passStarted, pass, last>> /\ ~StartsPass(n) /\ finished' = finished
      BY <2>1, <3>1, <3>2 DEF OnBlock, Reports
    <3>4. n <= last /\ n \in Int
      BY <2>t, <3>3 DEF StartsPass
    <3>5. sendHead <= last \/ sendHead \in soon
      BY <3>3 DEF HeadPending
    <3>6. QED
      BY <2>t, <3>1, <3>3, <3>4, <3>5 DEF OnBlock, Larger
  <2>2. CASE PassCloses
    BY <2>2, <2>t DEF PassCloses, PickUp
  <2>3. CASE PassGoesOn
    <3>1. UNCHANGED <<sendHead, last, soon>> /\ pass.phase = "idle" /\ ~finished
      BY <2>3 DEF PassGoesOn, LoopGround, LoopTypeOK
    <3>2. QED
      BY <3>1 DEF HeadPending
  <2>4. QED
    BY <2>1, <2>2, <2>3, LoopSteps DEF LoopGround
<1>3. HeadPending => NoLostHead
  BY DEF HeadPending, NoLostHead
<1>4. QED
  BY <1>1, <1>2, <1>3, LoopGroundHolds, PTL DEF LoopSpec

-----------------------------------------------------------------------------
(* While the price writes land *)

\* No deadline passes and no write is refused or lost, so no set is given up on.  A read, a commit or
\* a mine may still be refused.
WritesLand == MaxLate = 0 /\ ~Partial /\ "apply" \notin MayFail

\* No apply fails, so none is tried twice and none is given up on.
NoApplyFails ==
    /\ pc \notin {"apply2", "stop2"}
    /\ gate # "gaveUp"
    /\ gate = "none" => pc \notin {"commit", "apply1", "mine"}
    /\ ~call.bad
    /\ call.answer = "failed" => call.kind # "apply"

Writing == pc \in {"commit", "apply1", "stop1"}

\* The stage being written is unapplied until it is marked, a newer stage is for another block, and
\* what the node has done of it is in the state.
StageUnderWrite ==
    Writing =>
        /\ ~staged.applied
        /\ trying.forBlock <= staged.forBlock
        /\ trying.forBlock = staged.forBlock => trying.writes = staged.writes
        /\ call.price = trying.forBlock
        /\ \A s \in trying.writes \ call.todo : storage[s] = trying.forBlock

\* A whole stage of the head that was applied is what the state holds.
AppliedIsStored ==
    staged.forBlock = chainHead /\ staged.applied /\ staged.writes = Slots
        => \A s \in Slots : storage[s] = chainHead

\* While no gate has timed out the miner works on the head's stage: nothing older is still to be
\* written, but the stage a batch has just mined.
InTime ==
    gate # "timedOut" =>
        /\ staged.forBlock >= chainHead - 1
        /\ pc \in {"commit", "apply1", "mine"} /\ ~Mined =>
             /\ staged.forBlock = chainHead
             /\ pc # "mine" => trying.forBlock = chainHead
             /\ pc = "mine" => staged.applied
             /\ gate = "nothing" => staged.writes = {}
        /\ pc = "stop1" => staged.forBlock = chainHead
        /\ ~staged.applied /\ staged.forBlock < chainHead =>
             pc = "commit" /\ Mined /\ trying.forBlock = staged.forBlock
        /\ staged.forBlock < chainHead /\ chainHead \in DOMAIN blocks =>
             storage = blocks[chainHead].prices

\* Every block went out in one of three ways, and one that had nothing to write has an empty stage.
GatesSeen ==
    \A b \in DOMAIN blocks :
        /\ blocks[b].gate \in {"open", "nothing", "timedOut"}
        /\ blocks[b].gate = "nothing" =>
             staged.forBlock >= b - 1 /\ (staged.forBlock = b - 1 => staged.writes = {})

LandInv == NoApplyFails /\ StageUnderWrite /\ AppliedIsStored /\ InTime /\ GatesSeen

LEMMA LandedMinesConfirmed == WritesLand => ConfirmedMines
BY DEF WritesLand, ConfirmedMines

\* What is left of a step when no apply fails and nothing is late.
LandedMiner ==
    \/ BeginTick \/ PassGate \/ CommitOk \/ CommitFails \/ ApplyOk
    \/ MineOk \/ MineFails \/ LeaveLoop \/ StopFlush \/ StopOk

LEMMA LandedSteps ==
    ASSUME WritesLand, GroundInv, NoApplyFails, GatedStep
    PROVE  LandedMiner \/ NodeWrites \/ NodeMines \/ NodeAnswers \/ NodeRefuses \/ Steers
<1> USE DEF GroundInv
<1>1. CASE ApplyRetry \/ ApplyHeld \/ ApplyGivenUp \/ StopFails
  <2>1. CallFailed /\ pc \in {"apply1", "apply2", "stop1", "stop2"}
    BY <1>1 DEF ApplyRetry, ApplyHeld, ApplyGivenUp, StopFails
  <2>2. call.answer = "failed" /\ call.kind = "apply"
    BY <2>1, SureFailure, LandedMinesConfirmed DEF SureInv, WaitIsForCall
  <2>3. QED
    BY <2>2 DEF NoApplyFails
<1>2. CASE NodeDrops \/ LateWrites \/ LateMines
  BY <1>2 DEF NodeDrops, LateWrites, LateMines, SureInv, SureHead, WritesLand
<1>3. QED
  BY <1>1, <1>2 DEF GatedStep, Miner, Node, NodeServes, LandedMiner

\* An answer changes nothing else of the call.
LEMMA AnswerOnly ==
    ASSUME TypeOK, NodeAnswers \/ NodeRefuses
    PROVE  /\ UNCHANGED <<pc, head, staged, trying, gate, stopped, closing>>
           /\ UNCHANGED <<chainHead, storage, blocks>>
           /\ call.answer = "open"
           /\ call'.kind = call.kind /\ call'.price = call.price /\ call'.mines = call.mines
           /\ call'.bad = call.bad /\ call'.todo = call.todo
<1>1. CASE NodeAnswers
  BY <1>1, AnswersEffect, CallFields DEF minerVars, TypeOK
<1>2. CASE NodeRefuses
  BY <1>2, RefusesEffect DEF minerVars
<1>3. QED
  BY <1>1, <1>2

LEMMA NoApplyFailsStep ==
    ASSUME WritesLand, GroundInv, NoApplyFails, GatedStep PROVE NoApplyFails'
<1> USE DEF NoApplyFails, GroundInv
<1>1. CASE PassGate \/ CommitFails \/ ApplyOk \/ StopFlush
  <2>1. call' = call \/ (~call'.bad /\ call'.answer = "open")
    BY <1>1, MineSent, CommitSent, ApplySent DEF PassGate, CommitFails, ApplyOk, StopFlush, JustSent
  <2>2. CASE PassGate
    BY <2>1, <2>2, MineSent, CommitSent, ApplySent DEF PassGate
  <2>3. CASE CommitFails \/ ApplyOk
    BY <2>1, <2>3, MineSent, ApplySent DEF CommitFails, ApplyOk
  <2>4. CASE StopFlush
    BY <2>1, <2>4, ApplySent DEF StopFlush
  <2>5. QED
    BY <1>1, <2>2, <2>3, <2>4
<1>2. CASE BeginTick \/ CommitOk \/ MineOk \/ MineFails \/ LeaveLoop \/ StopOk
  BY <1>2, NoCallFields DEF BeginTick, CommitOk, MineOk, MineFails, LeaveLoop, StopOk, nodeVars
<1>3. CASE NodeWrites
  BY <1>3, WritesEffect DEF minerVars
<1>4. CASE NodeMines
  BY <1>4, MinesEffect DEF minerVars
<1>5. CASE NodeAnswers
  BY <1>5, AnswersEffect DEF minerVars
<1>6. CASE NodeRefuses
  BY <1>6, RefusesEffect DEF minerVars, WritesLand
<1>7. CASE Steers
  BY <1>7, SteersEffect
<1>8. QED
  BY <1>1, <1>2, <1>3, <1>4, <1>5, <1>6, <1>7, LandedSteps DEF LandedMiner

\* A set of writes just sent is the stage of that moment, with nothing written of it yet.
LEMMA WriteBegins ==
    ASSUME TypeOK, ~staged.applied, UNCHANGED <<staged, storage>>,
           SendCommit \/ (\E next \in {"apply1", "stop1"} : SendApply(next))
    PROVE  StageUnderWrite'
<1>1. call'.price = staged.forBlock /\ call'.todo = staged.writes /\ trying' = staged
  BY CommitSent, ApplySent DEF JustSent
<1>2. staged.forBlock \in Nat
  BY DEF TypeOK, Stages
<1>3. QED
  BY <1>1, <1>2 DEF StageUnderWrite

LEMMA UnderWriteStep ==
    ASSUME WritesLand, GroundInv, NoApplyFails, StageUnderWrite, GatedStep PROVE StageUnderWrite'
<1> USE DEF GroundInv
<1>1. CASE PassGate \/ CommitFails \/ StopFlush
  <2>1. UNCHANGED <<staged, storage>>
    BY <1>1 DEF PassGate, CommitFails, StopFlush
  <2>2. CASE SendMine \/ pc' = "done"
    BY <2>2, MineSent DEF StageUnderWrite, Writing
  <2>3. CASE ~staged.applied /\ (SendCommit \/ SendApply("apply1") \/ SendApply("stop1"))
    BY <2>1, <2>3, WriteBegins
  <2>4. QED
    BY <1>1, <2>2, <2>3 DEF PassGate, CommitFails, StopFlush
<1>2. CASE BeginTick \/ CommitOk \/ ApplyOk \/ MineOk \/ MineFails \/ LeaveLoop \/ StopOk
  <2>1. pc' \in {"gate", "tick", "mine", "exited", "done"}
    BY <1>2, MineSent DEF BeginTick, CommitOk, ApplyOk, MineOk, MineFails, LeaveLoop, StopOk
  <2>2. QED
    BY <2>1 DEF StageUnderWrite, Writing
<1>3. CASE NodeWrites
  <2>1. PICK s \in call.todo \cap Slots :
            /\ storage' = [storage EXCEPT ![s] = call.price]
            /\ call'.todo = call.todo \ {s}
    BY <1>3, WritesEffect
  <2>2. UNCHANGED <<pc, staged, trying>> /\ call'.price = call.price
    BY <1>3, WritesEffect DEF minerVars
  <2>3. storage \in [Slots -> Nat]
    BY DEF TypeOK
  <2>4. QED
    BY <2>1, <2>2, <2>3 DEF StageUnderWrite, Writing
<1>4. CASE NodeMines
  BY <1>4, MinesEffect DEF minerVars, StageUnderWrite, Writing
<1>5. CASE NodeAnswers \/ NodeRefuses
  BY <1>5, AnswerOnly DEF StageUnderWrite, Writing
<1>6. CASE Steers
  <2>1. UNCHANGED <<pc, trying, call, storage>>
    BY <1>6, SteersEffect
  <2>2. staged' = staged \/ (staged'.forBlock > staged.forBlock /\ ~staged'.applied)
    BY <1>6, SteersEffect DEF TypeOK, Stages
  <2>3. staged.forBlock \in Nat /\ staged'.forBlock \in Int /\ trying.forBlock \in Nat
    BY <1>6, SteersEffect DEF TypeOK, Stages
  <2>4. QED
    BY <2>1, <2>2, <2>3 DEF StageUnderWrite, Writing
<1>7. QED
  BY <1>1, <1>2, <1>3, <1>4, <1>5, <1>6, LandedSteps DEF LandedMiner

LEMMA StoredStep ==
    ASSUME WritesLand, GroundInv, NoApplyFails, StageUnderWrite, AppliedIsStored, GatedStep
    PROVE  AppliedIsStored'
<1> USE DEF GroundInv
<1>1. CASE CommitOk \/ ApplyOk \/ StopOk
  <2>1. Writing /\ call.todo = {} /\ MarkCaptured /\ UNCHANGED <<chainHead, storage>>
    BY <1>1 DEF CommitOk, ApplyOk, StopOk, CallOk, Writing, SureInv, SureCall, NoApplyFails
  <2>2. staged'.forBlock = staged.forBlock /\ staged'.writes = staged.writes
        /\ staged'.applied = (staged.applied \/ staged.forBlock = trying.forBlock)
    BY <2>1, MarkEffect
  <2>3. QED
    BY <2>1, <2>2 DEF StageUnderWrite, AppliedIsStored
<1>2. CASE BeginTick \/ PassGate \/ CommitFails \/ MineOk \/ MineFails \/ LeaveLoop \/ StopFlush
  <2>1. UNCHANGED <<staged, chainHead, storage>>
    BY <1>2 DEF BeginTick, PassGate, CommitFails, MineOk, MineFails, LeaveLoop, StopFlush, nodeVars
  <2>2. QED
    BY <2>1 DEF AppliedIsStored
<1>3. CASE NodeWrites
  <2>1. Writing
    BY <1>3, WritesWhen DEF HeadInv, Writing, NoApplyFails
  <2>2. staged' = staged
    BY <1>3, WritesEffect DEF minerVars
  <2>3. QED
    BY <2>1, <2>2 DEF StageUnderWrite, AppliedIsStored
<1>4. CASE NodeMines
  <2>1. chainHead' = chainHead + 1 /\ staged' = staged
    BY <1>4, MinesEffect DEF minerVars, AddBlock
  <2>2. staged.forBlock # chainHead'
    BY <2>1 DEF SureInv, SureHead, TypeOK, Stages
  <2>3. QED
    BY <2>1, <2>2 DEF AppliedIsStored
<1>5. CASE NodeAnswers \/ NodeRefuses
  BY <1>5, AnswerOnly DEF AppliedIsStored
<1>6. CASE Steers
  BY <1>6, SteersEffect DEF AppliedIsStored
<1>7. QED
  BY <1>1, <1>2, <1>3, <1>4, <1>5, <1>6, LandedSteps DEF LandedMiner

\* The miner's clauses of InTime, and the clause about the state, when the gate has not timed out.
LEMMA InTimeStep ==
    ASSUME WritesLand, GroundInv, WholeStage, NoApplyFails, StageUnderWrite, InTime, GatedStep
    PROVE  InTime'
<1> USE DEF GroundInv
<1>a. SUFFICES ASSUME gate' # "timedOut"
               PROVE  InTime'
  BY DEF InTime
<1>t. chainHead \in Nat /\ staged.forBlock \in Nat /\ trying.forBlock \in Nat /\ staged.forBlock <= chainHead
  BY DEF TypeOK, Stages, SureInv, SureHead
<1>1. CASE PassGate
  <2>1. pc = "gate" /\ UNCHANGED <<staged, chainHead, storage, blocks>> /\ chainHead = head
    BY <1>1 DEF PassGate, SureInv, SureHead, Mined
  <2>2. Ready /\ (gate' = "nothing" => staged.writes = {})
    BY <1>1, <1>a DEF PassGate
  <2>3. staged.forBlock = chainHead /\ ~staged.applied
    BY <1>t, <2>1, <2>2 DEF Ready
  <2>4. /\ trying' = staged
        /\ (pc' = "commit" /\ call'.mines) \/ pc' = "apply1"
    BY <1>1, <2>3, CommitSent, ApplySent DEF PassGate
  <2>5. QED
    BY <1>t, <2>1, <2>2, <2>3, <2>4 DEF InTime, Mined
<1>2. CASE CommitFails
  <2>1. pc = "commit" /\ ~Mined /\ UNCHANGED <<staged, chainHead, storage, blocks, gate>>
    BY <1>2, SureFailure, LandedMinesConfirmed DEF CommitFails
  <2>2. staged.forBlock = chainHead /\ ~staged.applied
    BY <2>1, <1>a DEF InTime, StageUnderWrite, Writing
  <2>3. pc' = "apply1" /\ trying' = staged
    BY <1>2, <2>2, ApplySent DEF CommitFails
  <2>4. QED
    BY <1>a, <1>t, <2>1, <2>2, <2>3 DEF InTime, Mined
<1>3. CASE ApplyOk
  <2>1. pc = "apply1" /\ UNCHANGED <<chainHead, storage, blocks, gate>> /\ pc' = "mine" /\ MarkCaptured
    BY <1>3, MineSent DEF ApplyOk, NoApplyFails
  <2>2. /\ staged'.forBlock = staged.forBlock /\ staged'.writes = staged.writes
        /\ staged'.applied = (staged.applied \/ staged.forBlock = trying.forBlock)
    BY <2>1, MarkEffect
  <2>3. staged.forBlock = chainHead /\ trying.forBlock = chainHead /\ (gate = "nothing" => staged.writes = {})
    BY <1>a, <2>1 DEF InTime, Mined
  <2>4. QED
    BY <1>a, <1>t, <2>1, <2>2, <2>3 DEF InTime
<1>4. CASE CommitOk
  <2>1. pc = "commit" /\ pc' = "tick" /\ UNCHANGED <<chainHead, storage, blocks, gate>> /\ MarkCaptured
    BY <1>4 DEF CommitOk
  <2>2. /\ staged'.forBlock = staged.forBlock
        /\ staged'.applied = (staged.applied \/ staged.forBlock = trying.forBlock)
    BY <2>1, MarkEffect
  <2>3. QED
    BY <1>a, <1>t, <2>1, <2>2 DEF InTime, Mined
<1>5. CASE StopOk
  <2>1. pc = "stop1" /\ pc' = "done" /\ UNCHANGED <<chainHead, storage, blocks, gate>> /\ MarkCaptured
    BY <1>5 DEF StopOk, NoApplyFails
  <2>2. staged'.forBlock = staged.forBlock
    BY <2>1, MarkEffect
  <2>3. staged.forBlock = chainHead
    BY <1>a, <2>1 DEF InTime
  <2>4. QED
    BY <1>a, <1>t, <2>1, <2>2, <2>3 DEF InTime
<1>6. CASE BeginTick \/ MineOk \/ MineFails \/ LeaveLoop
  <2>1. /\ UNCHANGED <<staged, chainHead, storage, blocks, gate>> /\ pc' \in {"gate", "tick", "exited"}
        /\ pc # "commit"
    BY <1>6 DEF BeginTick, MineOk, MineFails, LeaveLoop, nodeVars
  <2>2. QED
    BY <1>a, <2>1 DEF InTime
<1>7. CASE StopFlush
  <2>1. /\ pc = "exited" /\ UNCHANGED <<staged, chainHead, storage, blocks, gate>>
        /\ (pc' = "stop1" /\ ~staged.applied) \/ pc' = "done"
    BY <1>7, ApplySent DEF StopFlush
  <2>2. QED
    BY <1>a, <1>t, <2>1 DEF InTime
<1>8. CASE NodeWrites
  <2>1. UNCHANGED <<pc, staged, trying, gate, chainHead, blocks>> /\ call'.mines = call.mines
    BY <1>8, WritesEffect DEF minerVars
  <2>2. pc \in {"commit", "apply1", "stop1"} /\ ~Mined
    BY <1>8, WritesWhen DEF HeadInv, NoApplyFails
  <2>3. staged.forBlock = chainHead
    BY <1>a, <2>1, <2>2 DEF InTime
  <2>4. QED
    BY <1>a, <1>t, <2>1, <2>2, <2>3 DEF InTime, Mined
<1>9. CASE NodeMines
  <2>1. /\ AddBlock(gate) /\ UNCHANGED <<pc, staged, trying, gate, storage>> /\ call.mines /\ ~call'.mines
    BY <1>9, MinesEffect DEF minerVars
  <2>2. /\ chainHead' = chainHead + 1 /\ blocks'[chainHead + 1] = [prices |-> storage, gate |-> gate]
    BY <2>1, AddBlockEffect
  <2>3. pc \in {"commit", "mine"} /\ ~Mined /\ Mined'
    BY <2>1 DEF SureInv, SureCall, WaitIsForCall, Mined, TypeOK
  <2>4. staged.forBlock = chainHead /\ (pc = "commit" => trying.forBlock = chainHead)
        /\ (pc = "mine" => staged.applied)
    BY <1>a, <2>1, <2>3 DEF InTime
  <2>5. QED
    BY <1>a, <1>t, <2>1, <2>2, <2>3, <2>4 DEF InTime
<1>10. CASE NodeAnswers \/ NodeRefuses
  <2>1. UNCHANGED <<pc, staged, trying, gate, chainHead, storage, blocks>> /\ call'.mines = call.mines
    BY <1>10, AnswerOnly
  <2>2. QED
    BY <1>a, <2>1 DEF InTime, Mined
<1>11. CASE Steers
  <2>1. UNCHANGED <<pc, trying, gate, call, chainHead, storage, blocks>>
    BY <1>11, SteersEffect
  <2>2. staged' = staged \/ staged'.forBlock \in (staged.forBlock + 1)..chainHead
    BY <1>11, SteersEffect
  <2>3. CASE staged' = staged
    BY <1>a, <2>1, <2>3 DEF InTime, Mined
  <2>4. CASE staged'.forBlock \in (staged.forBlock + 1)..chainHead
    <3>1. staged.forBlock = chainHead - 1 /\ staged'.forBlock = chainHead
      BY <1>a, <1>t, <2>1, <2>4 DEF InTime
    <3>2. pc \in {"commit", "apply1", "mine"} => Mined
      BY <1>a, <1>t, <2>1, <3>1 DEF InTime
    <3>3. QED
      BY <1>a, <1>t, <2>1, <3>1, <3>2 DEF InTime, Mined
  <2>5. QED
    BY <2>2, <2>3, <2>4
<1>12. QED
  BY <1>1, <1>2, <1>3, <1>4, <1>5, <1>6, <1>7, <1>8, <1>9, <1>10, <1>11, LandedSteps DEF LandedMiner

LEMMA GatesStep ==
    ASSUME WritesLand, GroundInv, NoApplyFails, InTime, GatesSeen, GatedStep
    PROVE  GatesSeen'
<1> USE DEF GroundInv
<1>t. chainHead \in Nat /\ staged.forBlock \in Nat
  BY DEF TypeOK, Stages
<1>1. CASE NodeMines
  <2>1. AddBlock(gate) /\ UNCHANGED <<pc, staged, gate>> /\ call.mines
    BY <1>1, MinesEffect DEF minerVars
  <2>2. /\ DOMAIN blocks' = (StartHead + 1)..(chainHead + 1)
        /\ DOMAIN blocks = (StartHead + 1)..chainHead
        /\ blocks'[chainHead + 1] = [prices |-> storage, gate |-> gate]
        /\ \A c \in DOMAIN blocks : blocks'[c] = blocks[c]
    BY <2>1, AddBlockEffect
  <2>3. pc \in {"commit", "mine"} /\ ~Mined
    BY <2>1 DEF SureInv, SureCall, WaitIsForCall, Mined, TypeOK
  <2>4. gate \in {"open", "nothing", "timedOut"}
    BY <2>3 DEF NoApplyFails, TypeOK
  <2>5. gate = "nothing" => staged.forBlock = chainHead /\ staged.writes = {}
    BY <2>3 DEF InTime
  <2>6. QED
    BY <1>t, <2>1, <2>2, <2>4, <2>5 DEF GatesSeen
<1>2. CASE ~NodeMines
  <2>1. blocks' = blocks
    BY <1>2, OnlyMinesAddBlocks DEF LateMines, SureInv, SureHead
  <2>2. DOMAIN blocks \subseteq Int
    BY DEF TypeOK
  <2>3. \/ staged'.forBlock = staged.forBlock /\ staged'.writes = staged.writes
        \/ staged'.forBlock \in Int /\ staged'.forBlock > staged.forBlock
    <3>1. CASE Steers
      BY <3>1, <1>t, SteersEffect
    <3>2. CASE CommitOk \/ ApplyOk \/ StopOk
      BY <3>2, MarkEffect DEF CommitOk, ApplyOk, StopOk
    <3>3. CASE NodeWrites \/ NodeAnswers \/ NodeRefuses
      BY <3>3 DEF NodeWrites, NodeAnswers, NodeRefuses, minerVars
    <3>4. CASE BeginTick \/ PassGate \/ CommitFails \/ MineOk \/ MineFails \/ LeaveLoop \/ StopFlush
      BY <3>4 DEF BeginTick, PassGate, CommitFails, MineOk, MineFails, LeaveLoop, StopFlush
    <3>5. QED
      BY <1>2, <3>1, <3>2, <3>3, <3>4, LandedSteps DEF LandedMiner
  <2>4. QED
    BY <1>t, <2>1, <2>2, <2>3 DEF GatesSeen
<1>3. QED
  BY <1>1, <1>2

\* The loop's ground with what the miner's own theorems say of it.
LandGround == LoopGround /\ SureInv /\ PricedInv /\ LandInv

LEMMA LandGroundStep ==
    ASSUME WritesLand, LandGround, [LoopNext]_allVars PROVE LandGround'
<1>1. GatedStep /\ ConfirmedMines /\ GroundInv /\ CallMatchesWait /\ WholeStage
  BY LoopIsGated, LandedMinesConfirmed DEF LandGround, GroundInv, LoopGround, LoopTypeOK, HeadInv, PricedInv
<1>2. LoopGround' /\ SureInv' /\ PricedInv'
  BY <1>1, LoopGroundStep, SureStep, PricedStep DEF LandGround, GroundInv
<1>3. LandInv'
  BY <1>1, NoApplyFailsStep, UnderWriteStep, StoredStep, InTimeStep, GatesStep DEF LandGround, LandInv
<1>4. QED
  BY <1>2, <1>3 DEF LandGround

LEMMA LandGroundStart == LoopInit => LandGround
<1> SUFFICES ASSUME LoopInit PROVE LandGround
  OBVIOUS
<1>1. Init
  BY DEF LoopInit
<1>2. LoopGround /\ SureInv /\ PricedInv
  BY <1>1, LoopGroundStart, SureStart, PricedStart
<1>3. NoApplyFails /\ StageUnderWrite
  BY <1>1, NoCallFields DEF Init, NoApplyFails, StageUnderWrite, Writing
<1>4. AppliedIsStored /\ GatesSeen
  BY <1>1 DEF Init, AppliedIsStored, NoStage, GatesSeen
<1>5. InTime
  BY <1>1 DEF Init, InTime, NoStage
<1>6. QED
  BY <1>2, <1>3, <1>4, <1>5 DEF LandGround, LandInv

\* A pass that reads the head block sees the state that block was built on, unless the gate timed out.
THEOREM PassReadsItsBlock == ASSUME WritesLand PROVE LoopSpec => []ReadsOwnPrices
<1>1. LandGround => ReadsOwnPrices
  <2> SUFFICES ASSUME LandGround, pass.phase = "reading", chainHead = pass.bn,
                      pass.bn \in DOMAIN blocks, gate # "timedOut"
               PROVE  storage = blocks[pass.bn].prices
    BY DEF ReadsOwnPrices
  <2>1. staged.forBlock < chainHead
    BY DEF LandGround, LoopGround, StageFollowsPass
  <2>2. QED
    BY <2>1 DEF LandGround, LandInv, InTime
<1>2. QED
  BY <1>1, LandGroundStart, LandGroundStep, PTL DEF LoopSpec

-----------------------------------------------------------------------------
(* The state of the final block *)

\* Each block was left in the state its child was built on.
SealedStates ==
    /\ DOMAIN sealed = StartHead..(chainHead - 1)
    /\ \A b \in DOMAIN sealed : sealed[b] = blocks[b + 1].prices

\* The teardown begins with no pass left to run, so the stage it flushes is the last.
TeardownFlushes ==
    /\ closing => teardown # "running"
    /\ pc \in {"stop1", "stop2", "done"} => closing
    /\ teardown \in {"stopping", "closed"} =>
         /\ finished /\ pass.phase = "idle"
         /\ pc = "stop1" => trying.forBlock = staged.forBlock
         /\ pc = "done" => staged.applied
    /\ teardown = "closed" => pc = "done"

LEMMA SealedStep ==
    ASSUME LandGround, SealedStates, [LoopNext]_allVars PROVE SealedStates'
<1>t. TypeOK /\ chainHead \in Nat
  BY DEF LandGround, LoopGround, LoopTypeOK, TypeOK
<1>1. CASE NodeWorks
  <2>1. sealed' = [b \in StartHead..(chainHead' - 1) |->
                      IF b \in DOMAIN sealed THEN sealed[b] ELSE storage]
    BY <1>1 DEF NodeWorks, Seal
  <2>2. CASE NodeMines
    <3>1. AddBlock(gate)
      BY <1>t, <2>2, MinesEffect
    <3>2. /\ chainHead' = chainHead + 1
          /\ DOMAIN blocks = (StartHead + 1)..chainHead
          /\ blocks'[chainHead + 1] = [prices |-> storage, gate |-> gate]
          /\ \A c \in DOMAIN blocks : blocks'[c] = blocks[c]
      BY <1>t, <3>1, AddBlockEffect
    <3>3. QED
      BY <1>t, <2>1, <3>2 DEF SealedStates
  <2>3. CASE ~NodeMines
    <3>1. ~LateMines /\ GatedStep
      BY <1>1 DEF LateMines, NodeWorks, GatedStep, LandGround, SureInv, SureHead
    <3>2. UNCHANGED <<chainHead, blocks>>
      BY <2>3, <3>1, OnlyMinesAddBlocks
    <3>3. QED
      BY <1>t, <2>1, <3>2 DEF SealedStates
  <2>4. QED
    BY <2>2, <2>3
<1>2. CASE ~NodeWorks
  <2>1. UNCHANGED <<sealed, chainHead, blocks>>
    <3>1. CASE MinerReports
      BY <3>1 DEF MinerReports, CommitOk, MineOk
    <3>2. CASE MinerWorks
      BY <3>2 DEF MinerWorks, loopHistory, BeginTick, PassGate, CommitFails, ApplyOk, ApplyRetry, ApplyHeld, ApplyGivenUp, MineFails, LeaveLoop, StopFlush, StopOk, StopFails, nodeVars
    <3>3. CASE Watcher \/ Immediate \/ CloseRun \/ Exit \/ RunOver \/ UNCHANGED allVars
      BY <3>3 DEF Watcher, Immediate, CloseRun, Exit, RunOver, allVars, loopHistory, vars, nodeVars
    <3>4. CASE PassWorks \/ TimeLimit
      BY <3>4 DEF PassWorks, PassStages, PassEnds, PassThrows, TimeLimit, Finish, Stage, Halt, loopHistory, vars, nodeVars
    <3>5. CASE BeginTeardown \/ Sigterm
      BY <3>5 DEF BeginTeardown, Sigterm, Stop, loopHistory, nodeVars
    <3>6. QED
      BY <1>2, <3>1, <3>2, <3>3, <3>4, <3>5 DEF LoopNext
  <2>2. QED
    BY <2>1 DEF SealedStates
<1>3. QED
  BY <1>1, <1>2

\* A finished run starts no pass.
LEMMA NoPassOnceFinished ==
    ASSUME NEW n, OnBlock(n), finished PROVE pass' = pass
BY DEF OnBlock, StartsPass

LEMMA TeardownStep ==
    ASSUME WritesLand, LandGround, TeardownFlushes, [LoopNext]_allVars PROVE TeardownFlushes'
<1> USE DEF TeardownFlushes
<1>t. TypeOK /\ GroundInv /\ NoApplyFails
  BY DEF LandGround, LoopGround, LoopTypeOK, GroundInv, LandInv
<1>1. CASE MinerReports
  <2>1. /\ Running /\ UNCHANGED <<finished, teardown, closing>> /\ pc' = "tick"
        /\ OnBlock(head')
    BY <1>1 DEF MinerReports, CommitOk, MineOk
  <2>2. QED
    BY <2>1, NoPassOnceFinished DEF Running
<1>2. CASE MinerWorks
  <2>1. Running /\ UNCHANGED <<finished, teardown, pass>>
    BY <1>2 DEF MinerWorks, loopVars
  <2>2. CASE BeginTick \/ PassGate \/ CommitFails \/ ApplyOk \/ MineFails \/ LeaveLoop
    <3>1. closing' = closing /\ pc' \in {"gate", "mine", "commit", "apply1", "tick", "exited"}
      BY <2>2, MineSent, CommitSent, ApplySent DEF BeginTick, PassGate, CommitFails, ApplyOk, MineFails, LeaveLoop
    <3>2. QED
      BY <2>1, <3>1 DEF Running
  <2>3. CASE StopFlush
    <3>1. /\ closing /\ closing' = closing /\ staged' = staged
          /\ (pc' = "stop1" /\ trying' = staged) \/ (pc' = "done" /\ staged.applied)
      BY <2>3, ApplySent DEF StopFlush
    <3>2. QED
      BY <2>1, <3>1 DEF Running
  <2>4. CASE StopOk
    <3>1. pc = "stop1" /\ closing' = closing /\ pc' = "done" /\ MarkCaptured
      BY <1>t, <2>4 DEF StopOk, NoApplyFails
    <3>2. staged'.applied = (staged.applied \/ staged.forBlock = trying.forBlock)
      BY <1>t, <3>1, MarkEffect
    <3>3. QED
      BY <2>1, <3>1, <3>2 DEF Running
  <2>5. CASE ApplyRetry \/ ApplyHeld \/ ApplyGivenUp \/ StopFails
    <3>1. CallFailed /\ pc \in {"apply1", "apply2", "stop1", "stop2"}
      BY <2>5 DEF ApplyRetry, ApplyHeld, ApplyGivenUp, StopFails
    <3>2. call.answer = "failed" /\ call.kind = "apply"
      BY <1>t, <3>1, SureFailure, LandedMinesConfirmed DEF GroundInv, SureInv, WaitIsForCall
    <3>3. QED
      BY <1>t, <3>2 DEF NoApplyFails
  <2>6. QED
    BY <1>2, <2>2, <2>3, <2>4, <2>5 DEF MinerWorks
<1>3. CASE NodeWorks
  <2>1. UNCHANGED minerVars /\ UNCHANGED <<finished, teardown, pass>>
    BY <1>3 DEF NodeWorks, loopVars, Node, NodeServes, NodeWrites, NodeMines, NodeAnswers, NodeRefuses, NodeDrops, LateWrites, LateMines
  <2>2. QED
    BY <2>1 DEF minerVars
<1>4. CASE Watcher \/ Immediate
  <2>1. UNCHANGED vars /\ UNCHANGED <<finished, teardown>> /\ \E n : OnBlock(n)
    BY <1>4 DEF Watcher, Immediate
  <2>2. QED
    BY <2>1, NoPassOnceFinished DEF vars, minerVars
<1>5. CASE PassWorks
  <2>1. /\ pass.phase # "idle" /\ UNCHANGED <<pc, closing, teardown>>
    BY <1>5 DEF PassWorks, PassStages, PassEnds, PassThrows, Finish, Stage, Halt, vars, minerVars
  <2>2. QED
    BY <2>1
<1>6. CASE TimeLimit
  BY <1>6 DEF TimeLimit, Finish, Halt
<1>7. CASE BeginTeardown \/ Sigterm
  BY <1>7 DEF BeginTeardown, Sigterm, Stop
<1>8. CASE CloseRun \/ Exit \/ RunOver \/ UNCHANGED allVars
  BY <1>8 DEF CloseRun, Exit, RunOver, allVars, loopVars, vars, minerVars
<1>9. QED
  BY <1>1, <1>2, <1>3, <1>4, <1>5, <1>6, <1>7, <1>8 DEF LoopNext

\* Closed, the run leaves its last block on the prices its own pass wrote for the block after it,
\* whether the miner's loop mined them or stop() flushed them.
THEOREM FinalStateIsSettled == ASSUME WritesLand PROVE LoopSpec => []FinalBlockCarriesItsStage
<1>1. LoopInit => SealedStates /\ TeardownFlushes
  BY DEF LoopInit, Init, SealedStates, TeardownFlushes
<1>2. LandGround /\ SealedStates /\ [LoopNext]_allVars => SealedStates'
  BY SealedStep
<1>3. LandGround /\ TeardownFlushes /\ [LoopNext]_allVars => TeardownFlushes'
  BY TeardownStep
<1>4. LandGround /\ SealedStates /\ TeardownFlushes => FinalBlockCarriesItsStage
  <2> SUFFICES ASSUME LandGround, SealedStates, TeardownFlushes, teardown = "closed",
                      staged.writes # {}, last = staged.forBlock, ~MinedUnpriced(last + 1),
                      NEW s \in Slots
               PROVE  FinalState[s] = last
    BY DEF FinalBlockCarriesItsStage
  <2>1. /\ last \in Nat /\ last >= StartHead /\ chainHead \in Nat /\ last <= chainHead
        /\ DOMAIN blocks = (StartHead + 1)..chainHead
    BY DEF LandGround, LoopGround, LoopTypeOK, TypeOK, SureInv, SureHead
  <2>2. staged.writes = Slots /\ staged.applied
    BY DEF TeardownFlushes, LandGround, PricedInv, WholeStage
  <2>3. CASE last \in DOMAIN sealed
    <3>1. last + 1 \in DOMAIN blocks /\ FinalState = blocks[last + 1].prices /\ last + 1 - 1 = last
      BY <2>1, <2>3 DEF SealedStates, FinalState
    <3>2. blocks[last + 1].gate = "open"
      BY <2>1, <2>2, <3>1 DEF MinedUnpriced, LandGround, LandInv, GatesSeen
    <3>3. QED
      BY <2>1, <3>1, <3>2 DEF LandGround, PricedInv, PricedByItsPass
  <2>4. CASE last \notin DOMAIN sealed
    <3>1. last = chainHead
      BY <2>1, <2>4 DEF SealedStates
    <3>2. QED
      BY <2>2, <2>4, <3>1 DEF FinalState, LandGround, LandInv, AppliedIsStored
  <2>5. QED
    BY <2>3, <2>4
<1>5. QED
  BY <1>1, <1>2, <1>3, <1>4, LandGroundStart, LandGroundStep, PTL DEF LoopSpec

=============================================================================
