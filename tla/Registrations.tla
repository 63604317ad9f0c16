----------------------------- MODULE Registrations -----------------------------
(***************************************************************************)
(* Participants who register while the run is going.  A pass of the block  *)
(* loop reads the boundaries that are due, then polls run.registrationsFile*)
(* (core/src/realtime/registrations.ts) and funds and enrols whoever is    *)
(* new (coordinator.ts registerExternalAgent, pollRegistrations), while    *)
(* the miner may already cut the next block.                               *)
(*                                                                         *)
(* The file is edited at any moment; every edit changes its mtime, kept    *)
(* here as a counter.  The endowment is written in several steps, each     *)
(* into the state of the head, and a block keeps the state it had when the *)
(* next one was mined.  The coordinator may crash; the node lives on       *)
(* (PeriodResume has the node that does not).                              *)
(***************************************************************************)
EXTENDS Integers, Sequences, SequencesExt, FiniteSets

CONSTANTS
    Addresses,
    ConfigRoster,  \* the agents of the configuration: a set of [id, address]
    Explicit,      \* the configured agents' addresses that are written there; others follow from a key
    EnvAddresses,  \* the environment's own wallets, attributed to it
    Files,         \* the lists the operator may write
    Grants,        \* the separate writes an endowment takes
    ReadLag,       \* readLagBlocks
    PollBlocks,    \* REGISTRATIONS_POLL_BLOCKS
    IntervalBlocks,
    MaxHead,       \* bound: blocks
    MaxEdits,      \* bound: edits of the file
    MaxFaults,     \* bound: fundings that fail, passes that throw, crashes
    MaxTimeouts    \* bound: blocks mined because the gate timed out

ASSUME PollAssumption ==
    /\ PollBlocks \in Nat \ {0} /\ IntervalBlocks \in Nat \ {0} /\ Grants \in Nat \ {0}
    /\ ReadLag \in {0, 1} /\ MaxHead \in Nat
ASSUME FilesAssumption == \A f \in Files : f \in Seq(Range(f))

VARIABLES
    file,          \* [kind, entries, mtime]
    watched,       \* the watcher's lastMtimeMs, 0 for none
    checkedAt,     \* registrationsCheckedAtBlock
    roster,        \* agentRuntimes, with what ownerByAddress and the scorer know of them
    held,          \* how much of the endowment each address has in the head's state
    sealed,        \* the same in the state of every block that is no longer the head
    head,
    stagedFor,     \* the block the last stage was for
    pass,          \* the pass in progress: its block, how far it is, who it still has to enrol
    last,          \* lastProcessedBlock
    passStarted,
    lastAttempted, \* the last boundary read
    rows,          \* intervals.jsonl: the boundaries and what was read of each agent
    saved,         \* the last checkpoint
    failed,        \* history: entries whose registration failed since the last edit
    editedAt,      \* history: the head at the last edit
    edits, faults, timeouts

fileVars == <<file, edits, editedAt>>
watcherVars == <<watched, checkedAt>>
chain == <<held, sealed, head, stagedFor, timeouts>>
loop == <<pass, last, passStarted>>
series == <<lastAttempted, rows>>
vars == <<fileVars, watcherVars, roster, chain, loop, series, saved, failed, faults>>

Never == -PollBlocks
NoPass == [phase |-> "idle", bn |-> 0, todo |-> <<>>, granted |-> 0]

\* The entries still to enrol, by their place in the file; the next one is the first of them.
ToEnrol == DOMAIN pass.todo
NextPlace == CHOOSE i \in ToEnrol : \A j \in ToEnrol : i <= j
NextUp == pass.todo[NextPlace]
AfterNext == Restrict(pass.todo, ToEnrol \ {NextPlace})

-----------------------------------------------------------------------------
(* The list and the roster *)

Known(agents, e) == \E a \in agents : a.id = e.id \/ a.address = e.address

Ids(agents) == {a.id : a \in agents}

\* Mutant: a second entry of the same file is not looked for.
FreshWithRepeats(entries) == DOMAIN entries

\* The entries of a file at the places in K that come before place i.
Before(entries, K, i) == {entries[j] : j \in {k \in K : k < i}}

\* The places of the entries that repeat neither an id nor an address of an earlier one that counted.
Fresh(entries) ==
    CHOOSE K \in SUBSET DOMAIN entries :
        \A i \in DOMAIN entries : i \in K <=> ~Known(Before(entries, K, i), entries[i])

\* diffRegistrations(): what the run does not know yet, and may take.
Added(entries, agents) ==
    Restrict(entries, {i \in Fresh(entries) : /\ ~Known(agents, entries[i])
                                              /\ entries[i].address \notin EnvAddresses})

Full(agents) == [a \in Addresses |-> IF \E x \in agents : x.address = a THEN Grants ELSE 0]

\* startupRegistrations(): what is on file joins the roster and is funded in setup.  No wallet is
\* derived yet, so it is compared with the addresses the configuration spells out only.
StartRoster(f) ==
    LET clash(e) == \E a \in ConfigRoster : a.id = e.id \/ (a.address = e.address /\ a.address \in Explicit) IN
    ConfigRoster \cup
    (IF f.kind = "list" THEN {f.entries[i] : i \in {j \in Fresh(f.entries) : ~clash(f.entries[j])}} ELSE {})

Contents == [kind : {"list"}, entries : Files] \cup [kind : {"missing", "malformed"}, entries : {<<>>}]

Init ==
    /\ \E c \in Contents : file = [kind |-> c.kind, entries |-> c.entries, mtime |-> 1]
    /\ watched = 0
    /\ checkedAt = Never
    /\ roster = StartRoster(file)
    /\ held = Full(roster)
    /\ sealed = <<>>
    /\ head = 1
    /\ stagedFor = 0
    /\ pass = NoPass
    /\ last = 1
    /\ passStarted = FALSE
    /\ lastAttempted = 0
    /\ rows = <<>>
    /\ saved = [bn |-> 1, roster |-> roster, rows |-> <<>>, lastAttempted |-> 0]
    /\ failed = {}
    /\ editedAt = 1
    /\ edits = 0 /\ faults = 0 /\ timeouts = 0

-----------------------------------------------------------------------------
(* Around the pass *)

\* The operator rewrites, breaks or removes the file.
EditFile ==
    /\ edits < MaxEdits
    /\ edits' = edits + 1
    /\ \E c \in Contents : file' = [kind |-> c.kind, entries |-> c.entries, mtime |-> file.mtime + 1]
    /\ editedAt' = head
    /\ failed' = {}
    /\ UNCHANGED <<watcherVars, roster, chain, loop, series, saved, faults>>

\* The gated miner: a block on the stage of the head, or without one when the gate timed out.
Mine ==
    /\ head < MaxHead
    /\ \/ stagedFor >= head /\ UNCHANGED timeouts
       \/ stagedFor < head /\ timeouts < MaxTimeouts /\ timeouts' = timeouts + 1
    /\ sealed' = Append(sealed, held)
    /\ head' = head + 1
    /\ UNCHANGED <<fileVars, watcherVars, roster, held, stagedFor, loop, series, saved, failed, faults>>

StartPass ==
    /\ pass.phase = "idle"
    /\ \E n \in 1 .. head :
          /\ passStarted => n > last
          /\ n >= last
          /\ pass' = [NoPass EXCEPT !.phase = "reading", !.bn = n]
          /\ last' = n
    /\ passStarted' = TRUE
    /\ UNCHANGED <<fileVars, watcherVars, roster, chain, series, saved, failed, faults>>

\* stagePass(): everything that reads the head is done, the next block need not wait.
StagePass ==
    /\ pass.phase = "reading"
    /\ stagedFor' = pass.bn
    /\ pass' = [pass EXCEPT !.phase = "boundaries"]
    /\ UNCHANGED <<fileVars, watcherVars, roster, held, sealed, head, timeouts, last, passStarted, series,
                   saved, failed, faults>>

\* A pass that throws stages, and skips the rest: while it reads, or after the poll (a flush, a roll).
PassThrows ==
    /\ pass.phase = "reading" \/ (pass.phase = "enrol" /\ ToEnrol = {})
    /\ faults < MaxFaults
    /\ faults' = faults + 1
    /\ stagedFor' = pass.bn
    /\ pass' = NoPass
    /\ UNCHANGED <<fileVars, watcherVars, roster, held, sealed, head, timeouts, last, passStarted, series,
                   saved, failed>>

\* The state of a block: the head's own, or what the block was left with.
StateAt(b) == IF b < head THEN sealed[b] ELSE held

Boundaries == {b \in 1 .. MaxHead : (b - 1) % IntervalBlocks = 0}

\* scoreBoundary(): every agent the scorer has, at that block; V_0, at the run's first block, is
\* floored at the endowment.
Row(b) ==
    [block |-> b,
     values |-> [id \in Ids(roster) |->
                   IF b = 1 THEN Grants
                   ELSE StateAt(b)[(CHOOSE a \in roster : a.id = id).address]]]

\* liveScorer.onBlock(bn): the boundaries due through the lag.
ReadBoundaries ==
    LET due == {b \in Boundaries : lastAttempted < b /\ b <= pass.bn - ReadLag} IN
    /\ pass.phase = "boundaries"
    /\ pass' = [pass EXCEPT !.phase = "poll"]
    /\ rows' = rows \o [i \in 1 .. Cardinality(due) |-> Row(SetToSortSeq(due, <)[i])]
    /\ lastAttempted' = IF due = {} THEN lastAttempted ELSE CHOOSE b \in due : \A c \in due : c <= b
    /\ UNCHANGED <<fileVars, watcherVars, roster, chain, last, passStarted, saved, failed, faults>>

-----------------------------------------------------------------------------
(* The poll *)

\* Mutant: the poll is due on the blocks the interval divides.
PollDueByModulus == pass.bn % PollBlocks = 0

PollDue == pass.bn - checkedAt >= PollBlocks

\* RegistrationsWatcher.read(): the mtime is taken before the parse, and forgotten with the file.
Poll ==
    /\ pass.phase = "poll"
    /\ \/ /\ PollDue
          /\ checkedAt' = pass.bn
          /\ watched' = IF file.kind = "missing" THEN 0 ELSE file.mtime
          /\ pass' = [pass EXCEPT !.phase = "enrol",
                                  !.todo = IF file.kind = "list" /\ file.mtime # watched
                                           THEN Added(file.entries, roster) ELSE <<>>]
       \/ ~PollDue /\ pass' = [pass EXCEPT !.phase = "enrol"] /\ UNCHANGED watcherVars
    /\ UNCHANGED <<fileVars, roster, chain, last, passStarted, series, saved, failed, faults>>

\* fundAddress(): one write of the endowment, into the head.
Grant ==
    /\ pass.phase = "enrol" /\ ToEnrol # {} /\ pass.granted < Grants
    /\ pass' = [pass EXCEPT !.granted = @ + 1]
    /\ held' = [held EXCEPT ![NextUp.address] = IF @ > pass.granted THEN @ ELSE pass.granted + 1]
    /\ UNCHANGED <<fileVars, watcherVars, roster, sealed, head, stagedFor, timeouts, last, passStarted, series,
                   saved, failed, faults>>

\* The balances are read, then the agent is known to the roster, the attribution and the scorer at once.
Enrol ==
    /\ pass.phase = "enrol" /\ ToEnrol # {} /\ pass.granted = Grants
    /\ roster' = roster \cup {NextUp}
    /\ pass' = [pass EXCEPT !.todo = AfterNext, !.granted = 0]
    /\ UNCHANGED <<fileVars, watcherVars, chain, last, passStarted, series, saved, failed, faults>>

\* Any of its awaits fails: the entry is reported and left until the file changes.
RegistrationFails ==
    /\ pass.phase = "enrol" /\ ToEnrol # {}
    /\ faults < MaxFaults
    /\ faults' = faults + 1
    /\ failed' = failed \cup {NextUp}
    /\ pass' = [pass EXCEPT !.todo = AfterNext, !.granted = 0]
    /\ UNCHANGED <<fileVars, watcherVars, roster, chain, last, passStarted, series, saved>>

\* writeCheckpoint() is the last act of a pass.
PassEnds ==
    /\ pass.phase = "enrol" /\ ToEnrol = {}
    /\ pass' = NoPass
    /\ saved' = [bn |-> pass.bn, roster |-> roster, rows |-> rows, lastAttempted |-> lastAttempted]
    /\ UNCHANGED <<fileVars, watcherVars, roster, chain, last, passStarted, series, failed, faults>>

\* Mutant: a resumed period takes its roster from the configuration and the file.
RestartFromFile ==
    /\ faults < MaxFaults
    /\ faults' = faults + 1
    /\ watched' = 0
    /\ checkedAt' = Never
    /\ roster' = StartRoster(file)
    /\ stagedFor' = head - 1
    /\ pass' = NoPass
    /\ last' = saved.bn
    /\ passStarted' = FALSE
    /\ lastAttempted' = saved.lastAttempted
    /\ rows' = saved.rows
    /\ UNCHANGED <<fileVars, held, sealed, head, timeouts, saved, failed>>

\* The coordinator dies and resumes the period from its checkpoint: its roster, its rows, a new watcher.
Restart ==
    /\ faults < MaxFaults
    /\ faults' = faults + 1
    /\ watched' = 0
    /\ checkedAt' = Never
    /\ roster' = saved.roster
    /\ stagedFor' = head - 1
    /\ pass' = NoPass
    /\ last' = saved.bn
    /\ passStarted' = FALSE
    /\ lastAttempted' = saved.lastAttempted
    /\ rows' = saved.rows
    /\ UNCHANGED <<fileVars, held, sealed, head, timeouts, saved, failed>>

Next ==
    \/ EditFile \/ Mine
    \/ StartPass \/ StagePass \/ PassThrows \/ ReadBoundaries
    \/ Poll \/ Grant \/ Enrol \/ RegistrationFails \/ PassEnds
    \/ Restart

Spec == Init /\ [][Next]_vars

-----------------------------------------------------------------------------
(* Properties *)

\* An address is one agent and an id is one address, whatever the file repeats, drops or moves, and
\* across fundings that fail and restarts (registrations.ts:119-122).
OneAgentPerAddress ==
    \A x, y \in roster : x.id = y.id \/ x.address = y.address => x = y

\* Nobody is left waiting: the checkpoint of a pass PollBlocks past the last edit knows every entry
\* of the file, but those that conflict with another and those whose registration failed (the poll's
\* block counter, the watcher's mtime and the blocks a pass skips decide this together:
\* coordinator.ts:4347-4348, registrations.ts:214-227).
TakenUpInTime ==
    file.kind = "list" /\ saved.bn >= editedAt + PollBlocks =>
        \A i \in DOMAIN file.entries :
            \/ Known(saved.roster, file.entries[i])
            \/ file.entries[i].address \in EnvAddresses
            \/ Known(failed, file.entries[i])
            \/ Known(Before(file.entries, DOMAIN file.entries, i), file.entries[i])

\* An agent valued at one boundary is valued at every later one and is still on the roster: neither
\* an edit of the file nor a restart loses an agent that has a score (coordinator.ts:1327-1328).
NoAgentLost ==
    /\ \A i, j \in DOMAIN rows : i < j => DOMAIN rows[i].values \subseteq DOMAIN rows[j].values
    /\ \A i \in DOMAIN rows : DOMAIN rows[i].values \subseteq Ids(roster)

\* An agent is never valued at a boundary its endowment had not reached: "a boundary at bn itself is
\* read next pass, after this funding" (coordinator.ts:5715-5719).
ValuedOnlyFunded == \A i \in DOMAIN rows : \A id \in DOMAIN rows[i].values : rows[i].values[id] = Grants
=============================================================================
