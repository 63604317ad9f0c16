# eris-agent-simulator in TLA+

Specifications of the real-time core of the simulator: the coordinator that mines an anvil devnet
block by block, prices each block, relays the environment's order flow, takes participants in as they
register, and keeps a practice period alive across crashes; the proxy between the agents and their
models; and the lending market the agents trade on. The TLA+ is translated from the TypeScript and
Solidity under `src/`, mostly `src/core/src/realtime/`; `PROJECT.json` maps every definition to the
lines it stands for.

Contents: [1 the system](#1-the-system) · [2 the modules](#2-the-modules) ·
[3 the runs](#3-the-runs) · [4 the proofs](#4-the-proofs) ·
[5 what disagreed](#5-what-disagreed) · [6 not modelled](#6-not-modelled) · [7 plan](#7-plan)

Run one check with `tlc -workers 2 -config MCGatedMiner_gate.cfg MCGatedMiner`, one proof module with
`tlapm GatedMiner_proofs.tla`.

## 1 The system

One Node.js process, the coordinator, drives one anvil node. It is single-threaded: its concurrency
is between promises (miner loop, block pass, relay, watcher, timers, signals), with the node, the
flow bot's child process and the agents' processes on the other side of RPC or pipes. Between two
`await`s nothing else runs, so an action of the models is the code from one await to the next.

```
            stage(b, writes)                     onBlockMined(n)
  block pass ---------------> GatedMiner ----------------------> onBlock -> block pass
      |  ^                        | setStorageAt / batch / mine      ^
      |  | reads                  v                                  | poll
      |  +---------------------- anvil <------------------------- watcher
      |                           ^ transactions
      |-- flow bot -> FlowRelay -> KeyedSerial (one queue per wallet)
      |-- registrations file -> fundAddress -> roster, LiveScorer
      +-- LiveScorer -> SegmentedRun -> CheckpointWriter   (disk: the period)

  agents --HTTP--> inference proxy --> model providers      (a process of its own)
  agents, bots --transactions--> SimpleLending              (a contract on the node)
```

| Component | State | Operations | What is hard | What makes it correct |
|---|---|---|---|---|
| **Gated miner** `realtime/gatedMiner.ts` | head, the staged price set, held ticks, stopped | `stage`, `halt`, `stop`, the tick: gate, write (one batch or set by set), retry, hold, give up, mine | a stage arriving during an await; an RPC deadline racing the request it gave up on; half-applied batches; a block mined whose answer is lost | a block is mined on its parent's pass's prices; no mix of two sets; the head is never ahead of the chain; the chain goes on; `stop()` returns |
| **Block loop** `realtime/coordinator.ts`, `epochExtent.ts` | last processed block, `processing`, finished, checkpoint, teardown | `onBlock` from the miner, the watcher and the pick-up of a dropped head; end of pass; end block; wall clock; teardown; SIGTERM | heads reported twice, late, during a pass; the bell ringing inside a pass; teardown racing the pass and the miner | each block covered once, one step of the price walk per block, no head lost, the final block carries its own stage, the run ends |
| **KeyedSerial** `realtime/keyedSerial.ts` | map from wallet to the tail of its promise chain | `run`, clean-up of a settled tail | the clean-up running after a later call has chained | a first-come queue per wallet, and nothing kept of an idle wallet |
| **Flow relay** `realtime/flowRelay.ts` | per wallet: the batch being sent, the newest waiting batch; counters; the head | `push`, drain, `idle`, `drainStats` | a send that takes blocks or never answers; counters swapped while sends are in flight | orders are fresh when sent, legs of a trade go together, every order is counted once, wallets do not block each other |
| **Period resume** `realtime/periodResume.ts`, `liveScoring.ts`, `segments.ts`, `intervalSeries.ts` | memory: boundaries read, segment, logger; disk: `state.json`, `history/`, `intervals.jsonl`, `matrix.json`, `summary.json` | boundary reads, segment roll, checkpoint, history thinning; at a start: choose a checkpoint, cut the artifacts, reopen, restore | a crash between any two writes, also of the start itself; a node restarted from an older dump, which reuses block numbers; a read of the chain that fails at a start | the resumed series is the files', on the present chain; each interval scored once; a start whose reads are answered never throws, nor is refused while a checkpoint is on the chain |
| **Registrations** `realtime/registrations.ts`, `coordinator.ts` | the file's mtime last seen, block of the last poll, the roster, what each address was granted | read at the start, poll, diff, fund, enrol, checkpoint, resume | an edit at any moment; a funding made of several writes while the miner cuts the next block; a crash between funding, enrolment and checkpoint | an address is one agent; every entry is taken up in time; an agent with a score is never lost; it is valued only when funded |
| **Inference proxy** `inference/proxy.ts` | open requests, the times of the last minute's calls, call numbers, recorded bytes, one file per agent | admit, refuse, number, forward, relay a stream, stop by timer or by the client, record, replay | two calls open at once; aborts, stalls and slow readers; appends that fail; caps met half way; a restart | a call is recorded once, however it ends; limits and caps hold; slots are given back; every call ends; a record replays |
| **Lending market** `contracts/SimpleLending.sol` | totals, positions, the debtor list | supply, withdraw, post and take collateral, borrow, repay, liquidate | rounding in every conversion; swap-and-pop; bad debt; interest and price between calls | books balance; the list is the debtors; no bare debt; a share keeps its worth |
| **Small ledgers and timers** `submittedLedger.ts`, `nonceFloor.ts`, `longTimeout.ts`, `stateClock.ts` | maps, a counter, a timer chain | record/take/sweep, floor, chain/cancel | sweep against a lagging flush; the clock going back; 2^31-1 ms | nothing swept before it is flushed, nonces never reused |
| **Agent processes** `agentProcess.ts`, `agentsReady.ts`, `agentStop.ts`, `dockerCli.ts` | process or container handles | start, await ready, stop | ready line, exit and deadline in any order | an agent counted once; the wait is bounded |
| **Matrix, competition and backtest runners** `coordinator.ts`, `competition/`, `backtest/` | done epochs, artifacts | next epoch, skip done, stop | resume by artifact after a crash | an epoch is run once |
| **Prices, stress events, flow sizing, scoring** | numeric state | | arithmetic | |
| **Node client** `sdk/src/chain.ts` | none | mining, storage batches, reads | a batch applied in part | an error never hides a partial write |
| **Other contracts, deployer, SDKs, gateway, infra, dashboard, agents** | | | | see `PROJECT.json` |

`PROJECT.json` lists every component with its status, and under `hazards` each place where this code
can go wrong in a way a unit test would hardly reach, with the properties that watch it.

## 2 The modules

```
 GatedMiner <----extends---- BlockLoop         SerialPerKey <--INSTANCE-- KeyedSerial
     ^   ^                    ^    ^                                        ^     ^
     |   MCGatedMiner  MCBlockLoop |                                  _proofs   MCKeyedSerial
     |                             |
 GatedMiner_proofs <---- BlockLoop_proofs

 FlowRelay <-- FlowRelay_proofs, MCFlowRelay   PeriodResume <-- PeriodResume_proofs (runs as it is)

 SlotPool <--INSTANCE-- InferenceProxy <-- InferenceProxy_proofs, MCInferenceProxy
 Registrations <-- Registrations_proofs, MCRegistrations
 SimpleLending <-- SimpleLending_proofs, MCSimpleLending
```

A definition that is a deliberately broken variant (`ApplyErrorSwallowed`, `CleanAnyTail`, ...) stands
just before the definition it varies and is marked `Mutant`. It is used by no specification: put in
place of its neighbour it must break the property `PROJECT.json` names, which shows that the property
depends on the code being right.

### GatedMiner

`pc` is the await `run()` or `stop()` is suspended at; `head`, `staged`, `heldTicks`, `stopped` are the
fields of the class; `trying` is the stage an `applyStaged()` or a commit captured before its awaits.
The node is external: `chainHead`, `storage` and `blocks`, and a request (`call`) that is served one
write at a time. A request may be refused, lose some of its writes or its mine, mine and lose its answer, or
be given up on at its deadline and be served later (`late`).

| Code | Action |
|---|---|
| `stage()` | `Stage` |
| `halt()`, `stop()` | `Halt`, `Stop` (sets `closing`, then the loop must be left) |
| the tick up to its first await past the gate | `BeginTick`, `PassGate` (open, nothing to write, or timed out) |
| `commit` of a stage and its fallback | `CommitOk`, `CommitFails` |
| `applyStaged()`: two attempts, hold, give up | `ApplyOk`, `ApplyRetry`, `ApplyHeld`, `ApplyGivenUp` |
| `mine()` | `MineOk`, `MineFails` |
| leaving the loop; `stop()`'s flush | `LeaveLoop`, `StopFlush`, `StopOk`, `StopFails` |

Abstracted: a price set is named by the block whose pass computed it; an oracle is a slot; time is the
ticks, and any wait with a deadline may end by it. Passes stage in block order, at most once per block
(that is what BlockLoop shows of the coordinator).

### BlockLoop

GatedMiner composed with the coordinator's block loop. `StartsPass`/`BeginPass` are `onBlock`'s early
returns and the stretch a pass covers (`(last, min(bn, EndBlock)]`, `epochExtent.ts`); `MinerReports`,
`Watcher` and `Immediate` are its three callers; `PassStages`, `PassEnds` and `PassThrows` are the end
of a pass (`finally`, with the pick-up of a head that was dropped meanwhile). The watcher (viem's
`watchBlockNumber`) reports ever later blocks (`watched`), each at any time after it is mined: one the miner has
reported already, or one older than the head. `TimeLimit`,
`BeginTeardown`, `CloseRun`, `Sigterm`, `Exit` are the ways out. What a pass does in between (quotes,
stress, keepers, scoring) is one step: it changes none of this state. `covered` and `steps` are
history variables: passes per block and steps of the price walk per block.

### SerialPerKey and KeyedSerial

`SerialPerKey` is what the callers rely on: per key, tasks run one at a time, in call order.
`KeyedSerial` is the code: `run(key, task)` chains on the map's tail and stores the new tail; when a tail
settles, a callback deletes the map entry *if it is still this tail*. `QueueSpec` says that each
step of the second is a step or a stutter of the first, under the mapping by name.

### FlowRelay

A lane holds the batch being sent (`now`) and the newest waiting one (`next`). `Push` is `push()` with
the orders of a block for a choice of wallets; `Settle` is a send that resolved or rejected, followed, as
in the code, by everything the drain does before its next await: the staleness check of the following orders, the
next batch, the answer to `idle()`. `handedAt` is a history variable: the head when the order in
flight was handed over. A batch of unknown round (`Unknown`) has no age, as in the code.

### PeriodResume

The disk is variables of its own (`state`, `history`, `rows`, `summaries`, `index`), memory another
group that `Crash` forgets. Each write is a step: `Summarise`, `CloseIndexEntry`, `OpenSegment`,
`WriteIndex` (a roll), `WriteState`, `WriteHistory`, `PruneHistory` (a checkpoint); `Choose`,
`MoveSegment`, `MoveSummary`, `TruncateRows`, `DropHistory`, `ReopenSegment`, `Restore` (a start). A crash
may come between any two, and `Rewind` may take the node back to its last dump while the coordinator is
down. A block is a number and an `era` (the node's life it was mined in), which is what its hash tells
apart; a value read at a boundary is the block it was read at.

Two ways the code's error handling loses track are options, since what follows from them is a disagreement
(section 5). `ReadsFail`: `hashAt` answers null for any error of the RPC, so a read that fails is a block the chain does not
have. `Choose` is a start whose reads are answered; `ChoosePastFailures` is one that skips a checkpoint the chain
holds (`misread`), takes an older one or is refused, and cuts the artifacts and the history back all the same. A
start that threw is made again by the service manager (`StartAgain`). `DiskFull`: a new segment's directory or files
cannot be made (`OpenSegment`), or the row of a boundary cannot be appended (`ReadBoundary`), which is by then in the series.

Simplifications: a node restarted under a coordinator that survives it is left out (operators are told to
restart both); a row is appended whole or not at all; a dump is taken as a block is mined; blocks are mined
between passes only, since a pass
reads at blocks already fixed. `DumpAssumption` says the history reaches back further than the last
dump: 40 files 30 blocks apart against a dump every five minutes.

### SlotPool and InferenceProxy

`SlotPool` is what the proxy's door promises each client: in while it holds fewer than the limit, turned
away only at the limit, and a slot comes back once. `InferenceProxy` is the handler, one action per
stretch between awaits; `stage` says where each request is. A call is numbered (`Forward`) when its body
is in and recorded when it ends (`EndCall`), and everything in between may happen to it: an answer, a
stream that is relayed, stalls or is too long, a timer (`TimerFires` sets the reason and aborts), a client
that leaves (`Close`), which frees the slot while the call is still under way. `Record` is the choice
between a full line, a note and a stub at a cap, and a stub after it; each append may fail. `Restart`
loses the calls and the counters, not the files. `StartReplay` and `Replay` are a second proxy that
serves the file to the same calls made again, under the same rate limit and the same clock.

Abstracted: a body is a size, an append writes a whole line or none, a stream a number of chunks, the minute a
few ticks; the list of recent
calls is the set of its (call, time) pairs, and the replay's queue of an agent the set of its lines not
yet served, taken in the order of the file (`NextLine`). `order`, `at`, `lost` and `overlapped` are
history variables.

### Registrations

The file is a list of (id, address), missing or malformed, and every edit is a new mtime. `StartRoster`
is the reading at the start of a run; `Poll`, `Grant`, `Enrol`, `RegistrationFails` are the poll of a
pass: a due check of the file, which leaves the new entries by their place in the file (`pass.todo`), the
endowment in `Grants` awaited writes, and the enrolment in one step.
A pass is `StartPass`, `StagePass`, `ReadBoundaries`, the poll, `PassEnds` (the checkpoint), in the order of
the code, so that the miner (`Mine`) may cut the next block anywhere after the stage. `held` is what
each address has in the head's state, and a block keeps the state it had when the next was mined; a
boundary is read at its own block, one block behind. `Restart` resumes from the checkpoint's roster and
rows on a node that lived on (PeriodResume has the node that did not).

### SimpleLending

One market, one action per external function, with the contract's own fixed-point conversions over small
integers. A call that reverts is a step not taken; so is one that would go below zero. The rate model
answers any of `Rates` (0 when its call fails), the oracle's price moves by itself. Tokens do what an
ERC-20 says. The sum of a position over the users is the number of its units (`SumOf`), a cardinality.

## 3 The runs

State counts are the distinct states TLC finds.

| Run | States | What it asks |
|---|---|---|
| `miner_gate` | 870 k | Set-by-set writes that fail half way, are retried, held and given up. `PricedByItsPass`, `MixedOnlyAfterGiveUp`, `OneBlockAfterHalt`. |
| `miner_live` | 469 k | One-batch writes, failures, a request that lands after its deadline, passes that fail. `HeadExists`; under fairness `ChainAdvances`, `StopReturns`. |
| `loop` | 666 k | Miner and block loop together, with watcher, wall clock, failing passes and SIGTERM. `EachBlockCoveredOnce`, `OneWalkStepPerBlock`, `NoLostHead`, `ReadsOwnPrices`, `FinalBlockCarriesItsStage`; under fairness `RunCloses`. |
| `serial` | 11 k | Three calls for one wallet, one for another, any may fail. `OneAtATime`, the refinement `QueueSpec`; under fairness `EveryTaskSettles`. |
| `flow_lane` | 533 k | One wallet, four batches of up to two orders, a head that moves three blocks, counters read in between. `EveryOrderAccountedFor`, `FreshWhenHandedOver`, `LegsGoTogether`, `StartsOnlyTheNewest`. |
| `flow_live` | 173 k | Two wallets, one of which never gets an answer. `NothingStranded`; under fairness `WaitingTakenUp`. |
| `resume` | 2.9 M | Three boundaries, three segments, two faults anywhere, one rewind of the node. `RowsAreOnTheChain`, `SeriesIsTheFiles`, `EachIntervalInOneSegment`, `NeverStuck`. |
| `choose` | 5.4 M | Three faults, among them starts that misread the chain, one rewind, two segments. `RefusedOnlyIfLost`, `ResumesClose`. |
| `proxy` | 587 k | Two calls of one agent, one of them a stream, and one of another; aborts, timers, one failed append or restart, then the replay of them all as the clock runs. `OneLinePerCall`, `CapsHold`, `RateHolds`, `SerialRunReplays`, the refinement `SlotSpec`; under fairness `EveryCallEnds`. |
| `lending` | 297 k | Two users, amounts of one or two units, a price that moves, interest that accrues. `BooksBalance`, `DebtorsListed`, `NoDebtWithoutCollateral`, `SharesKeepTheirWorth`. |
| `register` | 4.3 M | Six blocks, two edits among seven states of the file, one fault (funding, pass or coordinator), one gate timeout. `OneAgentPerAddress`, `TakenUpInTime`, `NoAgentLost`. |
| `register_early` | | Finds one disagreement of section 5. |

Ten more configurations are kept for the other disagreements of section 5, each with one invariant that
TLC finds violated within seconds: `MCGatedMiner_giveup`, `_retry`, `_second`, `_held`,
`MCInferenceProxy_replay`, `MCRegistrations_twice`, `PeriodResume_roll`, `_append`, `_misread`, `_stuck`.

**Bounds.** The miner's defects need one block that goes wrong and the one after it, so a chain of four
blocks past the start (`MaxHead`), two oracle slots (a half-written set), two held ticks before the
give-up (one before, one at the limit) and one abandoned request (`MaxLate`) reach every action. The
slots are interchangeable, so `miner_gate` uses their symmetry; the liveness run does not. The
safety runs on the set-by-set path take `MaxLate = 0`: an abandoned request that lands later can rewind
storage, a known price of requests that cannot be cancelled. `MCGatedMiner_second.cfg` and `_held.cfg`
show what the two gate properties do not survive: a commit whose answer is lost, and a pass that fails after a half-written
hold; `miner_gate` excludes these two (`BatchCommit` and `PassesFail` are FALSE). In `loop` the
miner's faults are off, since the miner's own runs have them, and the block loop's are on; the bell is
two blocks after the start, with room for the miner to mine past it. In `flow_lane` a batch of two orders
with a head that moves further than `MaxAge` between them is the smallest case where a leg
becomes stale. In `resume` boundaries are every second block, reads trail by one, the history keeps two files
two blocks apart: the smallest numbers for which a roll falls on a boundary and off one, the history is
thinned, and a rewind goes past the newest checkpoint. The same run with one more block or one more
fault (about 10 M states each) finds nothing else. In `choose` three faults let a start misread, drop history, and
a pass or a checkpoint fail before the start that is judged, with a crash between; two segments suffice, since
the choice does not
read the files. In `proxy` one open request per agent, one call per
minute and caps of two and three bytes against lines of one or two make each limit bind with two calls; a
client that leaves frees its slot while its call is under way, so two calls of an agent overlap even so. The clock has
room for two calls of one agent a minute apart both in the recording and in the replay, so that two recorded answers
are served one after the other.
In `lending` amounts of one and two against two virtual shares and 40 % interest make each conversion
inexact, and one price move each way makes a position unhealthy and its debt bad; symmetry of the users is
sound, since no liveness is checked. In `register` a poll every second block, boundaries every second
block and an endowment of two writes are the smallest numbers for which passes skip a due poll, a
funding is split by a block, and a restart falls between any two steps; the files repeat an address, move
an agent, name taken addresses. Every bound is a constant commented as one.

**Deadlock** is checked except in the period's runs, where a refused or failed start, or the last
block of the bounds, really is the end, and in `proxy`, `lending` and the registration runs, which end when
the calls are all served or the clock, the blocks and the edits are used up. Other modules have an explicit
stuttering step for "all
done" (`Finished`, `RunOver`, `Idle`) or end in states where the bot or the reader may still act.

**Fairness.** Miner: weak fairness of its own steps (timers and promise callbacks fire) and of the node
serving the request that is waited for; no other call of the coordinator is fair, so passes may never stage. Block
loop: the same, plus the awaits of a pass and the teardown settle; **none** for the watcher (a poll over
RPC that may see nothing) and none for the wall clock or SIGTERM, so `RunCloses` rests on the miner's
reports and the pick-up alone. KeyedSerial: each task starts, settles and is cleaned up. FlowRelay: sends settle
except those of the wallets in `Stuck`. InferenceProxy: the deadline of a body, the timers and the effect of
an abort, which the runtime guarantees; **none** for the upstream, the client's reading or its leaving.
The other modules claim safety only.

## 4 The proofs

TLAPS proves these for every value of the constants that meets the modules' assumptions (finite
non-empty set of slots, natural-number bounds, flags Boolean, a finite set of calls; any tasks, keys,
wallets, files and prices). The third column is what a theorem assumes beyond that.

| Theorem | Proves | Under |
|---|---|---|
| `GatedMiner_proofs!TypeCorrect`, `HeadNeverAhead` | `TypeOK`, `HeadExists` | |
| `...!AtMostOneMore`, `PricedByThePass` | `OneBlockAfterHalt`, `PricedByItsPass` | `ConfirmedMines` |
| `...!NeverMinedOnAMix` | `MixedOnlyAfterGiveUp` | `ConfirmedMines`, `WholeStagesIfPartial` |
| `BlockLoop_proofs!LoopTypeCorrect`, `CoveredOnce`, `NeverPassedTwice`, `HeadsAreKept` | `LoopTypeOK`, `EachBlockCoveredOnce`, `OneWalkStepPerBlock`, `NoLostHead` | |
| `...!PassReadsItsBlock`, `FinalStateIsSettled` | `ReadsOwnPrices`, `FinalBlockCarriesItsStage` | `WritesLand` |
| `KeyedSerial_proofs!TypeCorrect`, `NeverTwoAtOnce`, `ImplementsQueue` | `TypeOK`, `OneAtATime`, the refinement `QueueSpec` | |
| `FlowRelay_proofs!TypeCorrect`, `NoOrderLost`, `NothingStaleIsSent`, `NoLaneIsForgotten` | `TypeOK`, `EveryOrderAccountedFor`, `FreshWhenHandedOver`, `NothingStranded` | |
| `...!NewestFirst`, `LegsFinish` | the action properties `StartsOnlyTheNewest`, `LegsGoTogether` | |
| `InferenceProxy_proofs!OpenIsTrue`, `ImplementsSlotPool` | `SlotInv`, the refinement `SlotSpec` | |
| `...!OneLineEach`, `SerialReplaysExactly`, `RateIsKept`, `CapsAreKept` | `OneLinePerCall`, `SerialRunReplays`, `RateHolds`, `CapsHold` | |
| `SimpleLending_proofs!TypeCorrect`, `ListIsTheDebtors`, `NoBareDebt` | `TypeOK`, `DebtorsListed`, `NoDebtWithoutCollateral` | |
| `...!BooksAreKept`, `WorthIsKept` | `BooksBalance`, the action property `SharesKeepTheirWorth` | |
| `Registrations_proofs!AgentsStay`, `NobodyWaits` | `NoAgentLost`, `TakenUpInTime` | |
| `...!OneAgentEach` | `OneAgentPerAddress` | `ConfigSpellsOut` |
| `PeriodResume_proofs!RefusalMeansLost`, `ResumeIsClose`, `HistoryStaysSmall` | `RefusedOnlyIfLost`, `ResumesClose`, and `HistoryIsBounded` (stated in the proof module), with `DiskFull` and `ReadsFail` at any value | |
| `...!NothingDeadIsKept`, `SeriesFollowsTheFiles`, `NoSeamLosesAnInterval`, `EveryStartResumes` | `RowsAreOnTheChain`, `SeriesIsTheFiles`, `EachIntervalInOneSegment`, `NeverStuck` | `~DiskFull`, `~ReadsFail` |

**The hypotheses** are what separates the passing runs from the counterexamples of section 5, no more.

- `ConfirmedMines`: no request outlives its deadline (`MaxLate = 0`), and if requests can fail half way
  (`Partial`), mines are calls of their own that do not. Without it `MCGatedMiner_second.cfg` mines twice on the same
  prices. Refused writes, half-written sets, retries, holds and give-ups are all within it.
- `WholeStagesIfPartial`: with half-written sets, no pass fails; `MCGatedMiner_held.cfg` is the behaviour it excludes.
- `WritesLand`: no request outlives its deadline and price writes succeed; commits and mines may still be
  refused, passes may fail, gates may time out. A block mined after a give-up is rightly not on its pass's prices.
- `ConfigSpellsOut`: every configured address is spelled out, and no two are equal; `MCRegistrations_twice.cfg` is the
  behaviour it excludes.
- `~DiskFull`: a new segment's directory and files can be made and rows appended; boundaries, passes and checkpoints
  may still fail, and a crash may come anywhere. `PeriodResume_roll.cfg` and `_append.cfg` are the
  behaviours it excludes.
- `~ReadsFail`: the reads of a start are answered; `PeriodResume_stuck.cfg` is the behaviour it excludes. The
two theorems about the
  choice do not need it: they speak of a start whose own reads were answered, after any number that misread.

`miner_gate`, `loop`, `register` and `resume` are instances of them: what these runs check on a small instance is what is
proved for all.

### The arguments

*The head.* `HeadExists` is not inductive: the miner adds one to its head when it is *told* a block
was mined, and nothing in `head <= chainHead` says that the block exists. `HeadInv` adds what a call may
report: a call matches the place the miner waits at (`CallMatchesWait`), a confirmed call has been
served to the end (`ConfirmedMeansServed`), and while a mining request is confirmed the chain
is already above the head (`MinedAboveHead`). Requests that were given up on can only add blocks.
The steps are stated for `GatedStep` (the miner, the node, and a coordinator that stages newer blocks, halts
or stops), so that BlockLoop's proofs use the same lemmas.

*The gate.* `SureInv` ties the miner's head to the chain's: equal between ticks, one behind
exactly while a mine is served and not yet reported. Under it `HaltInv` says that once stopped the chain has
room for the block under way only. `PricedInv` carries a stage from the write to the block: what the miner captured
before its awaits is what the storage holds when the mine is sent. `MixedInv` follows the storage: it is
all of one set, or the head's own, or half-written with a write of *every* slot still to come.

*The loop.* `LoopGround` says which heads exist: a pass is for a block of the chain, the stages follow the passes in
block order, and the end block's pass is the last. Coverage is then inductive, and the count of walk steps
with `StepsTaken`: no step past the last processed block. `NoLostHead` rests on `HeadPending`: between passes the newest
head was processed, or a call of `onBlock` for it is queued. `PassReadsItsBlock` and `FinalStateIsSettled` need
`LandInv` (a stage that is marked applied is what the storage holds; a pass that is reading has staged
nothing since) and, for the end, `SealedStates` with `TeardownFlushes`: the stage that `stop()` flushes is the last.

*The queue.* `OneAtATime` needs the shape of the promise chain: each task waits for exactly the tasks
called before it with its key, and the tail in the map is the last of them (`ChainInv`). The clean-up
preserves it because it deletes only its own tail, when every task of the key has settled. The
refinement then follows from `InOrder`: a task starts only when everything before it has settled.

*The relay.* `RelayInv` is the conjunction of the three properties with the shape of a lane (an order
is waiting only behind one in flight, what waits is the newest batch). The lemma `DrainedKeepsCount`
says that a drain moves orders between the lane and the counters and loses none. The two action properties are
proved of `push()` (`PushStarts`) and of a send that settles (`SettleStarts`) and hold of the rest because it
touches no lane.

*The door.* `SlotInv` says the counter is the cardinality of the requests that hold a slot, and no more than
the limit. Most handlers only move a request between stages that hold one (`KeepsSlots`, one lemma for
all of them); `Admit` and `Close` change the set by one element, and a request that is new has not closed,
which is why a slot is given back once. The refinement needs this invariant for `Take` and `TurnAway`,
whose guards speak of the set where the code compares a number.

*The record.* `RecordInv` accounts for every call: not numbered, in flight with no line, or over with one
line of its own or lost. An append may write nothing, a part or everything, and each is a prefix that names only
this call (`Appended`). `SerialInv` adds, for an agent whose calls never overlapped, that only its last call is in
flight and that its lines lie in the order of its calls (`Aligned`), which is what makes the
replay's next line the call's own: it is given the answer if the line was kept in full, and none if it is a stub.

*The limits.* `RateInv`: a call counted less than a minute ago is still listed, so the list bounds every
window that ends now; older windows were bounded when they ended. `CapsInv` counts per life of the proxy:
bytes in the files are at most the counter's plus a cap for each earlier life.

*The lending market.* `TypeOK` holds because each subtraction is guarded and the incentive factor is
positive, which follows from the bounds on threshold and cursor (`IncentiveIsPositive`). `DebtorsListed` is
inductive with the list's indices injective. `NoDebtWithoutCollateral` rests on the rounding: what a
debtor owes rounds up, so it is at least one unit and no position without collateral is healthy
(`BareDebtIsUnhealthy`); liquidation keeps it because what is left without collateral is written off.
`BooksBalance` follows from `Balanced`: each call moves a total by what it moves the caller's position by, and the
sum, a cardinality, moves by as much. `SharesKeepTheirWorth` is an inequality between products; each conversion is
one quotient with its remainder (`MulDivDown`, `MulDivUp`), and the rest is monotonicity.

*The roster.* `NoAgentLost` is carried with the same statement of the checkpoint (`IInv`): a restart goes
back to a pair of roster and rows that belonged together. Rows are appended naming the whole roster, and
the roster only grows. `RosterInv` adds the entries that wait to be enrolled: with the roster they name no
address and no id twice. `PollInv` dates the knowledge: what was polled is what the file said since the last check
(`PolledIsSeen`), what was seen is on the roster or in the pass (`SeenIsTaken`), and no check is older than
`PollBlocks` when a pass ends.

*The resume.* `KeptInv` says of every completed checkpoint that a history file on the chain is less than `Every`
blocks before it, or that a newer one lies within the node's dump, where no restart of the node can take it off the
chain (`Covered`). Thinning the history turns the first into the second: the oldest of the `Keep` newest files
is at least `(Keep - 1) * Every` blocks behind the head, and by `DumpAssumption` the dump is not. A start cuts
only files newer than
the one it resumes from, and those the chain has lost are the newest ones (`DeadIsNewest`). A start that misread drops
living ones too; what was written after the file it took goes with them, and what was written before is covered by that
file or an older one, which stay. The directory stays small
because all that a completed prune keeps but the oldest is newer than the oldest (`PrunedIsSmall`); a prune that failed
or never ran leaves one file more, which `SizeInv` charges to its fault until the next one removes it.

*The files.* None of the four other properties is inductive, because what a restart finds was written long before,
under another checkpoint. `FilesInv` says of *every* checkpoint that is on the chain, whichever a start may choose, that
the files still hold all it has behind it (`Intact`): the whole series up to it, ascending and read on this chain; closed
segments that lie next to each other from the period's start; and for each a summary that scores just the intervals
that end in it. Of two checkpoints on the chain the older is behind the other (`Behind`), so a cut back to the newest
one spares what every older one needs. In a pass the same holds of the checkpoint it would write next (`Present`), and
the series is what that one records. The steps are then of three kinds: those that leave what is behind a checkpoint
alone (`IntactStays`), a row more (`ReadKeeps`), a segment more (`RollKeeps`). `SliceScores` proves that a slice, with the
boundary carried over from the segment before or without it, scores the intervals between its two blocks;
`OneSummaryEach` that neighbouring segments share none. The facts about the library's concatenation of sequences, a
recursive function, are proved from its defining equation (`JoinsExist`, `FlattenLast`). TLC found `FilesInv` true on the
whole instance of `resume` (2.9 million states) before it was proved.

Cardinalities are reasoned about by changing sets one element at a time; the few inductions needed are over a
set of naturals by its least element (`LeastNatural`), since the library's induction theorems take operators, which
the installed provers cannot instantiate.

**Only model-checked:** all liveness (`ChainAdvances`, `StopReturns`, `RunCloses`, `EveryTaskSettles`,
`WaitingTakenUp`, `EveryCallEnds`), which is out of the prover's reach (fairness and ENABLED).

## 5 What disagreed

Each is in `PROJECT.json` under `findings` with the lines quoted. A name with `.cfg` is a configuration kept
beside the runs.

1. `MCGatedMiner_giveup.cfg`: the give-up marks the *current* stage applied, which may have arrived during the failed
   attempts and never been tried (`gatedMiner.ts:324`, comment at 323).
2. `MCGatedMiner_retry.cfg`: a mine that failed is retried with its stage already applied, so the gate is shut, the
   whole gate timeout is waited out and the block is reported as unpriced (`gatedMiner.ts:333-335`).
3. `MCGatedMiner_second.cfg`: a commit that mined and lost its answer falls back to apply and mine: a second block on the
   same prices (`gatedMiner.ts:277-303`).
4. `MCGatedMiner_held.cfg`: a half-written held stage is replaced by the empty stage of a failed pass, and the next block is
   mined on the mix without a give-up (`gatedMiner.ts:185-187`).
5. `PeriodResume_roll.cfg`: `roll()` numbers the segment before its directory exists; if that fails, later
   checkpoints name a directory that does not exist and every later start throws (`segments.ts:342-354`).
6. `register_early`: a newcomer is funded by several writes after its pass has staged, so the miner may cut
   the next block in between, and the lagged read of the boundary values it at a block its endowment had not
   or not fully reached (`coordinator.ts:5708-5722`, comment at 5715-5719).
7. `MCRegistrations_twice.cfg`: at the start an entry is compared with the addresses the roster spells out
   only; one that names an address an agent's or the environment's key derives joins as a second agent
   (`registrations.ts:174-193`, "an address can only be one agent" at 112-113).
8. `MCInferenceProxy_replay.cfg`: calls are numbered on arrival and written on completion, so with two
   calls open, or a line that could not be written, replay answers a call with another's response
   (`proxy.ts:721`, `:881`, comments at 22-25 and 409-411).
9. `PeriodResume_append.cfg`: a boundary is pushed to the series before its row is appended, so an append that throws leaves
   the series with a boundary the file lacks (`liveScoring.ts:343`, comments at 415-416 and 445-446).
10. `PeriodResume_misread.cfg`: any error of the read of a checkpoint's block at a start counts as a block the
chain does not have, so
    one failed read makes the start resume from an older checkpoint, cutting the artifacts back to it, or refuse the
    period (`coordinator.ts:980-988`, `periodResume.ts:320-325`, "The newest checkpoint" at 297).
11. `PeriodResume_stuck.cfg`: such a start moves the later segments out before state.json is written anew; if it dies in
    between, state.json names a directory that is gone and every start that reads it throws
    (`periodResume.ts:833-846`).

Noticed on the way and left as notes: an abandoned apply that lands late rewinds storage to older
prices (`gatedMiner.ts:116-117`); on SIGTERM the miner's flush races the pass in flight and an exit
that is forced after a few seconds (`coordinator.ts:1449-1450`); a failed registration is retried only
after the file changes again.

## 6 Not modelled

- Inside a pass: reads, quotes, stress plans, keepers, order sizing. Numeric, or contract calls whose
  state is the chain's; the models keep only which pass priced which block.
- A period's end, its closing, superseding and extension, the check that the world matches the
  checkpoint, torn lines of `matrix.json` and `intervals.jsonl`.
- Scoring, valuation, backtests, reconstruction: pure functions over finished logs.
- The proxy's authentication, its read-only endpoints and the loading of keys: no state. A line that `appendFileSync`
  wrote in part (a full disk) spoils the line after it and makes the replay's `JSON.parse` throw
  (`proxy.ts:410-413`); an append is whole
  or lost in the model.
- SimpleLending's `createMarket`, market lists and views, tokens and oracles that misbehave (a call that
  fails reverts), and the truncation to 128 bits: amounts are far below it, and a market in a token of
  such a supply is out of the model's reach.
- The size of the registrations file next to its mtime, and the treasury path of `fundAddress` on an
  external chain.
- Process and container handling, RPC gateway, infrastructure scripts, dashboard, example agents, other
  contracts, the deployer and its vendored artifacts: I/O, data, or not this program. Some are in the plan.

Most of the repository's lines are of these kinds (protocol encoders and readers in `sdk/`, the dashboard,
message catalogues, scoring statistics, event plans), so the mapped lines are a small share of all of them;
they are the ones that hold state two actors share.

## 7 Plan

1. **Proofs of what exists.** A relation between `Registrations` and `GatedMiner` (both have a miner that waits for
   the pass's stage).
2. **Ledgers**: submitted ledger and flush, nonce floor, long timers and the state clock, in one module.
3. **Period end**: close, supersede, new-period marker, torn writes, as options of PeriodResume.
4. **AgentsReady / AgentStop** and the flow child process's request round trip: the ready line, the exit
   and the deadline in any order.
5. **RPC gateway**: requests in flight per client, a second implementation of `SlotPool`.
6. **Runners**: matrix and backtest resume by artifact.

Items 2 to 6 need bounds of two or three actors and one or two faults.
