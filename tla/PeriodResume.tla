---------------------------- MODULE PeriodResume ----------------------------
(***************************************************************************)
(* A practice period that outlives its coordinator                         *)
(* (core/src/realtime/periodResume.ts, liveScoring.ts, core/src/segments.ts *)
(* and the end of a pass and the start of a run in coordinator.ts).        *)
(*                                                                         *)
(* A pass reads the interval boundaries that came due, may roll the        *)
(* artifacts over to a new segment directory, and writes a checkpoint.     *)
(* Every write to disk is a step of its own and the coordinator may crash  *)
(* between any two. While it is down the node may be restarted from its    *)
(* last dump, which takes the chain back. A start picks the newest         *)
(* checkpoint the chain still holds, cuts the artifacts back to it, and    *)
(* rebuilds the series from the files.                                     *)
(*                                                                         *)
(* A block is its number and the era (life of the node) it was mined in:   *)
(* that is what its hash tells apart. A value is the block it was read at. *)
(* The period's end, and a crash before the first checkpoint (which starts *)
(* another period), are outside this module.                               *)
(***************************************************************************)
EXTENDS Integers, Sequences, FiniteSets, TLC, Functions, SequencesExt, FiniteSetsExt

CONSTANTS
    Start,       \* runStartBlock
    Interval,    \* blocks between two boundaries
    Lag,         \* readLagBlocks: 1 under economicGas, else 0
    Every,       \* CHECKPOINT_HISTORY_EVERY_BLOCKS
    Keep,        \* CHECKPOINT_HISTORY_KEEP
    DumpEvery,   \* blocks mined between two dumps of the node, at most
    DiskFull,    \* a new segment's directory or files may fail to be made, a row to be appended
    ReadsFail,   \* a start's reads of the chain's blocks may fail
    MaxHead,     \* bound: the last block mined
    MaxSegments, \* bound: segments opened
    MaxFaults,   \* bound: crashes, passes that throw, reads and checkpoints that fail,
                 \* starts that misread
    MaxRewinds   \* bound: restarts of the node from an older dump

ASSUME PeriodAssumption ==
    /\ {Start, Interval, Every, Keep} \subseteq Nat \ {0}
    /\ Lag \in 0..1
    /\ {DiskFull, ReadsFail} \subseteq BOOLEAN

ASSUME BoundsAssumption == {MaxHead, MaxSegments, MaxFaults, MaxRewinds} \subseteq Nat

\* The history reaches back further than the node's last dump (1200 blocks against five minutes).
ASSUME DumpAssumption == DumpEvery \in Nat /\ DumpEvery <= (Keep - 1) * Every

VARIABLES
    chain,      \* node: the era each block was mined in
    dumped,     \* node: how far the dump on disk reaches
    era,        \* node: its life
    pc,         \* where the coordinator is
    last,       \* lastProcessedBlock
    attempted,  \* LiveScorer.lastAttempted
    series,     \* LiveScorer.boundaries with their values
    seg,        \* SegmentedRun.segment
    segStart,   \* SegmentedRun.segmentStartBlock
    logdir,     \* the directory SegmentedRun.logger appends to
    lastHistory,\* CheckpointWriter.lastHistoryBlock
    from,       \* the checkpoint this start resumes from
    misread,    \* this start went past a checkpoint of the chain whose block it could not read
    state,      \* disk: resume/state.json
    history,    \* disk: resume/history/
    rows,       \* disk: intervals.jsonl, per segment directory
    summaries,  \* disk: the series in summary.json, per segment that has one
    index,      \* disk: matrix.json
    written,    \* history: the checkpoints whose write() returned, less those of a lost chain and
                \* those a start that misread has dropped
    faults, rewinds

node == <<chain, dumped, era>>
scorer == <<attempted, series>>
segments == <<seg, segStart, logdir>>
memory == <<last, scorer, segments, lastHistory>>
saved == <<state, history>>
artifacts == <<rows, summaries, index>>
disk == <<saved, artifacts>>
counters == <<faults, rewinds>>
vars == <<node, pc, memory, from, misread, disk, written, counters>>

NoCheckpoint == [block |-> 0, era |-> 0, attempted |-> 0, seg |-> 0, segStart |-> 0, rows |-> 0]

\* No boundary attempted yet: the first one due is Start.
NoBoundary == Start - Interval

\* No history file: the next checkpoint is kept whatever its block.
NoHistory == Start - Every

\* An entry replaced or added; one added where there is none.
Put(f, key, value) == [k \in DOMAIN f \cup {key} |-> IF k = key THEN value ELSE f[k]]
PutNew(f, key, value) == IF key \in DOMAIN f THEN f ELSE Put(f, key, value)

Running == {"idle", "boundaries", "summarised", "closed", "opened",
            "checkpoint", "history", "prune"}
Starting == {"cut", "truncate", "drop", "open", "restore"}

Forgotten ==
    /\ last' = 0
    /\ attempted' = NoBoundary
    /\ series' = <<>>
    /\ seg' = 0
    /\ segStart' = 0
    /\ logdir' = 0
    /\ lastHistory' = NoHistory

\* The period has been set up: its first segment is open and no block of it is processed.
Init ==
    /\ chain = [b \in 1..(Start - 1) |-> 0]
    /\ dumped = Start - 1
    /\ era = 0
    /\ pc = "idle"
    /\ last = Start - 1
    /\ attempted = NoBoundary
    /\ series = <<>>
    /\ seg = 0
    /\ segStart = Start
    /\ logdir = 0
    /\ lastHistory = NoHistory
    /\ from = NoCheckpoint
    /\ misread = FALSE
    /\ state = NoCheckpoint
    /\ history = {}
    /\ rows = [s \in {0} |-> <<>>]
    /\ summaries = <<>>
    /\ index = [s \in {0} |-> [first |-> Start, final |-> Start, open |-> TRUE]]
    /\ written = {}
    /\ faults = 0
    /\ rewinds = 0

Fault == faults < MaxFaults /\ faults' = faults + 1

-----------------------------------------------------------------------------
(* The node. It mines while the coordinator is up and, between a crash and *)
(* the next start, while it is down; a block mined in the middle of a pass *)
(* is seen at the next, so mining between passes is mining at any time.    *)

ChainHead == Len(chain)

\* The dump of a block is taken, if at all, as it is mined: it is looked at only after a restart.
Mine ==
    /\ pc \in {"idle", "down"}
    /\ ChainHead < MaxHead
    /\ ChainHead < dumped + DumpEvery
    /\ chain' = Append(chain, era)
    /\ dumped' \in {dumped, ChainHead + 1}
    /\ UNCHANGED <<era, pc, memory, from, misread, disk, written, counters>>

\* The node is killed and comes back from its dump.
Rewind ==
    /\ pc = "down"
    /\ rewinds < MaxRewinds
    /\ dumped < ChainHead
    /\ chain' = SubSeq(chain, 1, dumped)
    /\ era' = era + 1
    /\ rewinds' = rewinds + 1
    /\ written' = {cp \in written : cp.block <= dumped}
    /\ UNCHANGED <<dumped, pc, memory, from, misread, disk, faults>>

-----------------------------------------------------------------------------
(* A pass *)

StartPass(block) ==
    /\ pc = "idle"
    /\ block \in (last + 1)..ChainHead
    /\ last' = block
    /\ pc' = "boundaries"
    /\ UNCHANGED <<node, scorer, segments, lastHistory, from, misread, disk, written, counters>>

Pending == attempted + Interval

BoundaryDue == Pending <= last - Lag

\* A boundary is attempted once; one that cannot be read is left out of series and file alike. It is
\* pushed to the series before its row is appended, and stays there when the append throws.
ReadBoundary ==
    /\ pc = "boundaries"
    /\ BoundaryDue
    /\ attempted' = Pending
    /\ LET row == [block |-> Pending, era |-> chain[Pending]]
       IN  \/ /\ series' = Append(series, row)
              /\ \/ rows' = [rows EXCEPT ![logdir] = Append(@, row)]
                 \/ DiskFull /\ UNCHANGED rows
              /\ UNCHANGED faults
           \/ Fault /\ UNCHANGED <<series, rows>>
    /\ UNCHANGED <<node, pc, last, segments, lastHistory, from, misread, saved, summaries, index,
                   written, rewinds>>

\* The pass throws before its end: no roll, no checkpoint, the next block is another pass.
PassThrows ==
    /\ pc = "boundaries"
    /\ Fault
    /\ pc' = "idle"
    /\ UNCHANGED <<node, memory, from, misread, disk, written, rewinds>>

NoRoll ==
    /\ pc = "boundaries"
    /\ ~BoundaryDue
    /\ pc' = "checkpoint"
    /\ UNCHANGED <<node, memory, from, misread, disk, written, counters>>

-----------------------------------------------------------------------------
(* A roll: summary, index entry, new directory, index *)

\* The last block the boundary reads have reached.
RollAt == last - Lag

\* The series at some places of its own: it is in block order, so they are next to each other.
At(places) == IF places = {} THEN <<>> ELSE SubSeq(series, Min(places), Max(places))

\* Mutant: strictly the segment's own blocks.
SliceOwnOnly(first, final) ==
    At({i \in DOMAIN series : series[i].block \in first..final})

\* sliceIntervalSeries(): the segment's boundaries, opened by the one before it unless it starts on one.
Slice(first, final) ==
    LET before == {i \in DOMAIN series : series[i].block < first}
        own    == {i \in DOMAIN series : series[i].block \in first..final}
        startsOnBoundary == own # {} /\ series[Min(own)].block = first
    IN  At(IF before = {} \/ startsOnBoundary THEN own ELSE own \cup {Max(before)})

\* closeSegment(): a series of one boundary is no series.
Summarise ==
    /\ pc = "boundaries"
    /\ ~BoundaryDue
    /\ RollAt >= Start
    /\ seg + 1 < MaxSegments
    /\ summaries' = Put(summaries, logdir, IF Len(series) < 2 THEN <<>> ELSE Slice(segStart, RollAt))
    /\ pc' = "summarised"
    /\ UNCHANGED <<node, memory, from, misread, saved, rows, index, written, counters>>

CloseIndexEntry ==
    /\ pc = "summarised"
    /\ index' = Put(index, seg, [first |-> segStart, final |-> RollAt, open |-> FALSE])
    /\ pc' = "closed"
    /\ UNCHANGED <<node, memory, from, misread, saved, rows, summaries, written, counters>>

\* What making the directory and the logger of a segment comes to.
Outcomes == IF DiskFull THEN {"opened", "noDirectory", "noFiles"} ELSE {"opened"}

\* The segment is numbered before its directory and its logger exist; a failure ends the pass.
OpenSegment ==
    /\ pc = "closed"
    /\ seg' = seg + 1
    /\ segStart' = RollAt
    /\ \E outcome \in Outcomes :
         /\ rows' = IF outcome = "noDirectory" THEN rows ELSE PutNew(rows, seg', <<>>)
         /\ logdir' = IF outcome = "opened" THEN seg' ELSE logdir
         /\ pc' = IF outcome = "opened" THEN "opened" ELSE "idle"
    /\ UNCHANGED <<node, last, scorer, lastHistory, from, misread, saved, summaries, index, written,
                   counters>>

WriteIndex ==
    /\ pc = "opened"
    /\ index' = PutNew(index, seg, [first |-> segStart, final |-> segStart, open |-> TRUE])
    /\ pc' = "checkpoint"
    /\ UNCHANGED <<node, memory, from, misread, saved, rows, summaries, written, counters>>

-----------------------------------------------------------------------------
(* The checkpoint, last in the pass *)

Checkpoint == [block     |-> last,
               era       |-> chain[last],
               attempted |-> attempted,
               seg       |-> seg,
               segStart  |-> segStart,
               rows      |-> Len(rows[logdir])]

HistoryDue == last - lastHistory >= Every

WriteState ==
    /\ pc = "checkpoint"
    /\ state' = Checkpoint
    /\ IF HistoryDue
       THEN pc' = "history" /\ UNCHANGED written
       ELSE pc' = "idle" /\ written' = written \union {Checkpoint}
    /\ UNCHANGED <<node, memory, from, misread, history, artifacts, counters>>

WriteHistory ==
    /\ pc = "history"
    /\ history' = {cp \in history : cp.block # last} \union {state}
    /\ lastHistory' = last
    /\ written' = written \union {state}
    /\ pc' = "prune"
    /\ UNCHANGED <<node, last, scorer, segments, from, misread, state, artifacts, counters>>

\* Mutant: one file fewer is kept.
PruneOneMore(files) ==
    {cp \in files : Cardinality({newer \in files : newer.block > cp.block}) < Keep - 1}

\* The newest Keep files.
Pruned(files) ==
    {cp \in files : Cardinality({newer \in files : newer.block > cp.block}) < Keep}

PruneHistory ==
    /\ pc = "prune"
    /\ history' = Pruned(history)
    /\ pc' = "idle"
    /\ UNCHANGED <<node, memory, from, misread, state, artifacts, written, counters>>

\* A write of the checkpoint fails: the pass stands and the next one writes again.
CheckpointFails ==
    /\ pc \in {"checkpoint", "history", "prune"}
    /\ Fault
    /\ pc' = "idle"
    /\ UNCHANGED <<node, memory, from, misread, disk, written, rewinds>>

-----------------------------------------------------------------------------
(* Crash and resume *)

\* Before the first checkpoint there is no open period: the next start opens another one.
Crash ==
    /\ pc \in Running \union Starting
    /\ state # NoCheckpoint
    /\ Fault
    /\ pc' = "down"
    /\ from' = NoCheckpoint
    /\ misread' = FALSE
    /\ Forgotten
    /\ UNCHANGED <<node, disk, written, rewinds>>

\* Mutant: the block's number is enough.
OnChainByNumber(cp) == cp.block <= ChainHead

OnChain(cp) == cp.block <= ChainHead /\ chain[cp.block] = cp.era

Candidates == {state} \union {cp \in history : cp.block < state.block}

Newest(cp, matching) == \A other \in matching : other.block <= cp.block

\* The reads of the checkpoints' blocks are answered.
Choose ==
    /\ pc = "down"
    /\ LET matching == {cp \in Candidates : OnChain(cp)}
       IN  \/ /\ \E cp \in matching : Newest(cp, matching) /\ from' = cp
              /\ pc' = "cut"
           \/ /\ matching = {}
              /\ pc' = "refused"
              /\ UNCHANGED from
    /\ misread' = FALSE
    /\ UNCHANGED <<node, memory, disk, written, counters>>

\* A read that fails is a block the chain does not have: an older checkpoint is taken, or none.
ChoosePastFailures ==
    /\ pc = "down"
    /\ ReadsFail
    /\ Fault
    /\ LET matching == {cp \in Candidates : OnChain(cp)}
       IN  /\ matching # {}
           /\ \/ /\ \E cp \in matching : ~Newest(cp, matching) /\ from' = cp
                 /\ pc' = "cut"
              \/ pc' = "refused" /\ UNCHANGED from
    /\ misread' = TRUE
    /\ UNCHANGED <<node, memory, disk, written, rewinds>>

\* A start that threw is made again by the service manager.
StartAgain ==
    /\ pc \in {"refused", "stuck"}
    /\ pc' = "down"
    /\ from' = NoCheckpoint
    /\ misread' = FALSE
    /\ Forgotten
    /\ UNCHANGED <<node, disk, written, counters>>

Rewound == from.block < state.block

\* A segment the checkpoint did not see is moved out, whole.
MoveSegment ==
    /\ pc = "cut"
    /\ \E s \in DOMAIN rows :
         /\ s > from.seg
         /\ rows' = Restrict(rows, DOMAIN rows \ {s})
         /\ summaries' = Restrict(summaries, DOMAIN summaries \ {s})
    /\ UNCHANGED <<node, pc, memory, from, misread, saved, index, written, counters>>

\* The checkpoint's segment is open again; without its directory the start throws.
MoveSummary ==
    /\ pc = "cut"
    /\ \A s \in DOMAIN rows : s <= from.seg
    /\ IF from.seg \in DOMAIN rows
       THEN /\ summaries' = Restrict(summaries, DOMAIN summaries \ {from.seg})
            /\ pc' = "truncate"
       ELSE pc' = "stuck" /\ UNCHANGED summaries
    /\ UNCHANGED <<node, memory, from, misread, saved, rows, index, written, counters>>

\* Mutant: the rows past the checkpoint go only when the chain went back.
CutRowsIfRewound(file) == IF Rewound THEN SubSeq(file, 1, from.rows) ELSE file

CutRows(file) == IF Len(file) <= from.rows THEN file ELSE SubSeq(file, 1, from.rows)

TruncateRows ==
    /\ pc = "truncate"
    /\ rows' = [rows EXCEPT ![from.seg] = CutRows(@)]
    /\ pc' = IF Rewound THEN "drop" ELSE "open"
    /\ UNCHANGED <<node, memory, from, misread, saved, summaries, index, written, counters>>

\* The history past the checkpoint goes: it is a dead chain's, unless the start misread.
DropHistory ==
    /\ pc = "drop"
    /\ history' = {cp \in history : cp.block <= from.block}
    /\ written' = IF misread THEN {cp \in written : cp.block <= from.block} ELSE written
    /\ pc' = "open"
    /\ UNCHANGED <<node, memory, from, misread, state, artifacts, counters>>

\* SegmentedRun's constructor on a resume: later entries gone, the current one open.
ReopenSegment ==
    /\ pc = "open"
    /\ LET kept   == {s \in DOMAIN index : s <= from.seg}
           opened == [first |-> from.segStart, final |-> from.segStart, open |-> TRUE]
       IN  index' = Put(Restrict(index, kept), from.seg, opened)
    /\ seg' = from.seg
    /\ segStart' = from.segStart
    /\ logdir' = from.seg
    /\ pc' = "restore"
    /\ UNCHANGED <<node, last, scorer, lastHistory, from, misread, saved, rows, summaries, written,
                   counters>>

\* Mutant: only the checkpoint's own segment is read.
BoundariesOfSegment == rows[from.seg]

\* readPeriodBoundaries(): the files of the indexed segments before the checkpoint's, then its own.
PeriodBoundaries ==
    LET file(s) == IF s \in DOMAIN rows THEN rows[s] ELSE <<>>
        indexed(s) == IF s \in DOMAIN index THEN file(s) ELSE <<>>
    IN  FlattenSeq([i \in 1..from.seg |-> indexed(i - 1)]) \o file(from.seg)

\* What LiveScorer.restore() refuses is an error of the start.
InOrder(boundaries) ==
    /\ \A i \in 2..Len(boundaries) : boundaries[i - 1].block < boundaries[i].block
    /\ boundaries # <<>> => Last(boundaries).block <= from.attempted

\* Mutant: the history's last block is forgotten, as if one had just been written.
HistoryFromNow == from.block

NewestHistory == IF history = {} THEN NoHistory ELSE Max({cp.block : cp \in history})

Restore ==
    /\ pc = "restore"
    /\ IF InOrder(PeriodBoundaries)
       THEN /\ pc' = "idle"
            /\ last' = from.block
            /\ attempted' = from.attempted
            /\ series' = PeriodBoundaries
            /\ lastHistory' = NewestHistory
       ELSE pc' = "stuck" /\ UNCHANGED <<last, scorer, lastHistory>>
    /\ UNCHANGED <<node, segments, from, misread, disk, written, counters>>

-----------------------------------------------------------------------------

Node == Mine \/ Rewind

Pass ==
    \/ \E block \in 1..MaxHead : StartPass(block)
    \/ ReadBoundary \/ PassThrows \/ NoRoll
    \/ Summarise \/ CloseIndexEntry \/ OpenSegment \/ WriteIndex
    \/ WriteState \/ WriteHistory \/ PruneHistory \/ CheckpointFails

Resume ==
    \/ Choose \/ ChoosePastFailures \/ StartAgain \/ MoveSegment \/ MoveSummary \/ TruncateRows
    \/ DropHistory \/ ReopenSegment \/ Restore

Next == Node \/ Pass \/ Crash \/ Resume

Spec == Init /\ [][Next]_vars

-----------------------------------------------------------------------------
(* Properties *)

\* While a period runs, every value in its files and its summaries was read on the chain there is
\* now: nothing of a chain the node lost stays in the standings (cutArtifactsToCheckpoint).
RowsAreOnTheChain ==
    pc \in Running =>
        \A file \in Range(rows) \union Range(summaries) :
            \A i \in DOMAIN file : /\ file[i].block \in DOMAIN chain
                                  /\ chain[file[i].block] = file[i].era

\* The scorer's series is what the files say, in the order of the segments: a restart neither loses
\* a boundary of an earlier segment nor reads one twice (readPeriodBoundaries, LiveScorer.restore).
SeriesIsTheFiles ==
    pc \in Running => series = FlattenSeq([i \in 1..(seg + 1) |-> rows[i - 1]])

\* The intervals a summary scores: each pair of boundaries next to each other in its series.
Intervals(boundaries) == {<<boundaries[i - 1], boundaries[i]>> : i \in 2..Len(boundaries)}

\* Every interval that ended in a closed segment is scored by exactly one segment's summary, and
\* none that is still open by any: no seam loses an interval or counts it twice (segments.ts).
EachIntervalInOneSegment ==
    pc \in Running =>
        \A interval \in Intervals(series) :
            LET scoredBy == {s \in DOMAIN summaries : s < seg /\ interval \in Intervals(summaries[s])}
            IN  Cardinality(scoredBy) = IF interval[2].block <= segStart THEN 1 ELSE 0

\* A start that found its checkpoint continues the period: what a crash, a failed write or a cut
\* that was itself cut short left on disk never makes it throw, which every later start would too.
NeverStuck == pc # "stuck"

\* A start whose reads were answered is refused only when the chain holds no checkpoint whose write
\* was completed: the history is never thinned past what the node's dump can go back to, whatever
\* earlier starts misread (chooseCheckpoint, CheckpointWriter).
RefusedOnlyIfLost == pc = "refused" /\ ~misread => written = {}

\* A resume whose reads were answered loses less than Every blocks of passes: no checkpoint that was
\* completed and is on the chain is Every or more blocks ahead of the one chosen, through restarts,
\* earlier rewinds and starts that misread.
ResumesClose ==
    pc = "cut" /\ ~misread => \A cp \in written : cp.block - from.block < Every

\* What chooseCheckpoint says of itself: the newest checkpoint whose block is on the chain with the
\* hash it was written with is chosen, and a start is refused only when there is none. A read that
\* fails is taken for a block that is not there (hashAt).
ChoosesTheNewest ==
    /\ pc = "cut" => \A cp \in Candidates : OnChain(cp) => cp.block <= from.block
    /\ pc = "refused" => \A cp \in Candidates : ~OnChain(cp)
=============================================================================
