---------------------------- MODULE InferenceProxy ----------------------------
(***************************************************************************)
(* The proxy between the agents and the models (core/src/inference/        *)
(* proxy.ts): each agent's open requests and calls per minute are limited, *)
(* a call is numbered when it arrives, forwarded, relayed if it streams,   *)
(* stopped by a timer or by the agent leaving, and recorded when it ends,  *)
(* in full while the recorded bytes are within two caps and as a stub past *)
(* them.  A second proxy replays the file to the agent's repeated run.     *)
(***************************************************************************)
EXTENDS Integers, FiniteSets, Sequences, SequencesExt

CONSTANTS
    Agents,
    Calls,       \* the requests of the agents' strategies
    AgentOf,     \* whose request it is
    Streams,     \* the calls answered by a stream
    MaxOpen,     \* MAX_OPEN_REQUESTS_PER_AGENT
    Limit,       \* config.maxCallsPerMinute, 0 for no limit
    Minute,      \* 60_000 ms in ticks
    AgentCap,    \* maxRecordBytesPerAgent
    TotalCap,    \* maxRecordBytesTotal
    Sizes,       \* the bytes a full line may take
    MaxChunks,   \* maxStreamBytes in chunks
    MaxTime,     \* bound: ticks of the clock
    MaxFaults,   \* bound: appends that fail and restarts of the recording proxy
    None         \* no answer

ASSUME CallAssumption == AgentOf \in [Calls -> Agents] /\ IsFiniteSet(Calls)

ASSUME LimitAssumption ==
    /\ MaxOpen \in Nat /\ Limit \in Nat /\ Minute \in Nat /\ MaxTime \in Nat
    /\ Sizes \subseteq Nat /\ AgentCap \in Nat /\ TotalCap \in Nat
    /\ "total" \notin Agents

VARIABLES
    mode,     \* "live": a recordDir; "replay": a replayDir and no recordDir
    stage,    \* how far each request is
    closed,   \* the requests whose response emitted "close"
    stopped,  \* the calls whose stopReason is set, and so whose upstream is aborted
    chunks,   \* chunks relayed of each stream
    open,     \* openRequests
    recent,   \* recent: the times of each agent's counted calls, each with its call (times may be equal)
    now,
    seq,      \* the number of each agent's last call
    file,     \* each agent's .jsonl: lines in the order they were appended
    bytes,    \* recordedBytes, and under "total" totalBytes
    capped,   \* the agents whose bodies are no longer recorded
    totalCapped,
    queue,    \* replay: the lines not served yet, by their place in the file
    answer,   \* replay: the call whose recorded answer each call was given
    failures, \* bounded: appends that failed
    restarts, \* bounded: restarts so far
    order,    \* history: each agent's calls in the order they were numbered
    at,       \* history: when each call was counted, in this process's life
    lost,     \* history: calls whose line could not be appended or died with the process
    overlapped \* history: agents that had two calls forwarded at once

process == <<seq, recent, open, bytes, capped, totalCapped>>
replayVars == <<queue, answer>>
history == <<order, at, lost, overlapped>>
bounds == <<failures, restarts>>
vars == <<mode, stage, closed, stopped, chunks, now, file, process, replayVars, history, bounds>>

Line(kind, c, size) == [kind |-> kind, call |-> c, size |-> size]
\* The lines that are not a note, by their place in the agent's file.
AnswerLines(a) == {i \in DOMAIN file[a] : file[a][i].kind # "note"}

InFlight == {"upstream", "relaying", "waiting"}
Of(a) == {c \in Calls : AgentOf[c] = a}
NoBytes == [x \in Agents \cup {"total"} |-> 0]

Init ==
    /\ mode = "live"
    /\ stage = [c \in Calls |-> "new"]
    /\ closed = {}
    /\ stopped = {}
    /\ chunks = [c \in Calls |-> 0]
    /\ open = [a \in Agents |-> 0]
    /\ recent = [a \in Agents |-> {}]
    /\ now = 0
    /\ seq = [a \in Agents |-> 0]
    /\ file = [a \in Agents |-> <<>>]
    /\ bytes = NoBytes
    /\ capped = {}
    /\ totalCapped = FALSE
    /\ queue = [a \in Agents |-> {}]
    /\ answer = [c \in Calls |-> None]
    /\ failures = 0
    /\ restarts = 0
    /\ order = [a \in Agents |-> <<>>]
    /\ at = [c \in Calls |-> -1]
    /\ lost = {}
    /\ overlapped = {}

-----------------------------------------------------------------------------
(* A request comes in *)

\* The agent holds MAX_OPEN_REQUESTS_PER_AGENT already: 429, and nothing of it is kept.
TurnAway(c) ==
    /\ stage[c] = "new"
    /\ open[AgentOf[c]] >= MaxOpen
    /\ stage' = [stage EXCEPT ![c] = "away"]
    /\ UNCHANGED <<mode, closed, stopped, chunks, now, file, process, replayVars, history, bounds>>

\* Counted before the body is read, so that a slow body holds its slot.
Admit(c) ==
    /\ stage[c] = "new"
    /\ open[AgentOf[c]] < MaxOpen
    /\ stage' = [stage EXCEPT ![c] = "body"]
    /\ open' = [open EXCEPT ![AgentOf[c]] = @ + 1]
    /\ UNCHANGED <<mode, closed, stopped, chunks, now, file, seq, recent, bytes, capped, totalCapped,
                   replayVars, history, bounds>>

\* The body is too large, never completes, is not JSON, names no listed model, or the agent has no key.
RefuseBody(c) ==
    /\ stage[c] = "body"
    /\ stage' = [stage EXCEPT ![c] = "refused"]
    /\ UNCHANGED <<mode, closed, stopped, chunks, now, file, process, replayVars, history, bounds>>

\* Mutant: the calls of this calendar minute, so a new one starts from nothing.
ThisMinute(a) == {r \in recent[a] : r.time \div Minute = now \div Minute}

LastMinute(a) == {r \in recent[a] : now - r.time < Minute}

\* The sliding minute is full: 429 without a number, and without counting this call.
RefuseRate(c) ==
    LET a == AgentOf[c] IN
    /\ stage[c] = "body"
    /\ c \notin closed
    /\ Limit > 0
    /\ Cardinality(LastMinute(a)) >= Limit
    /\ recent' = [recent EXCEPT ![a] = LastMinute(a)]
    /\ stage' = [stage EXCEPT ![c] = "refused"]
    /\ UNCHANGED <<mode, closed, stopped, chunks, now, file, open, seq, bytes, capped, totalCapped,
                   replayVars, history, bounds>>

\* The call is counted in the minute and takes the agent's next number.
Number(c) ==
    LET a == AgentOf[c] IN
    /\ stage[c] = "body"
    /\ c \notin closed
    /\ Limit > 0 => Cardinality(LastMinute(a)) < Limit
    /\ recent' = IF Limit > 0 THEN [recent EXCEPT ![a] = LastMinute(a) \cup {[call |-> c, time |-> now]}]
                 ELSE recent
    /\ seq' = [seq EXCEPT ![a] = @ + 1]

\* From here on the call is under way.
Forward(c) ==
    LET a == AgentOf[c] IN
    /\ mode = "live"
    /\ Number(c)
    /\ stage' = [stage EXCEPT ![c] = "upstream"]
    /\ order' = [order EXCEPT ![a] = Append(@, c)]
    /\ at' = [at EXCEPT ![c] = now]
    /\ overlapped' = IF \E d \in Of(a) : stage[d] \in InFlight THEN overlapped \cup {a} ELSE overlapped
    /\ UNCHANGED <<mode, closed, stopped, chunks, now, file, open, bytes, capped, totalCapped,
                   replayVars, lost, bounds>>

-----------------------------------------------------------------------------
(* The record *)

\* append(): each line is written or lost; one that is lost costs the record and never the call.
Written(f, lines) == {f, f \o lines} \cup {Append(f, lines[i]) : i \in DOMAIN lines}

Appends(c, lines) ==
    LET a == AgentOf[c] IN
    /\ \E f \in Written(file[a], lines) :
          /\ file' = [file EXCEPT ![a] = f]
          /\ failures' = failures + Len(lines) - (Len(f) - Len(file[a]))
    /\ failures' + restarts <= MaxFaults
    /\ lost' = IF Contains(SubSeq(file'[a], Len(file[a]) + 1, Len(file'[a])), lines[Len(lines)])
               THEN lost ELSE lost \cup {c}

\* The agent's bodies are no longer recorded: a stub, whose bytes no cap counts.
RecordStub(c) ==
    /\ AgentOf[c] \in capped
    /\ Appends(c, <<Line("stub", c, 0)>>)
    /\ UNCHANGED <<bytes, capped, totalCapped>>

\* This call's line would pass a cap: a note that the bodies stop, and a stub for this call.
RecordCapped(c, size) ==
    LET a == AgentOf[c]
        tooMuch == totalCapped \/ bytes["total"] + size > TotalCap IN
    /\ a \notin capped
    /\ tooMuch \/ bytes[a] + size > AgentCap
    /\ totalCapped' = tooMuch
    /\ capped' = capped \cup {a}
    /\ Appends(c, <<Line("note", c, 0), Line("stub", c, 0)>>)
    /\ UNCHANGED bytes

\* Mutant: the line is counted for its agent and not in all.
RecordFullOwnCount(c, size) ==
    LET a == AgentOf[c] IN
    /\ a \notin capped
    /\ ~totalCapped
    /\ bytes["total"] + size <= TotalCap
    /\ bytes[a] + size <= AgentCap
    /\ Appends(c, <<Line("full", c, size)>>)
    /\ bytes' = IF failures' = failures THEN [bytes EXCEPT ![a] = @ + size] ELSE bytes
    /\ UNCHANGED <<capped, totalCapped>>

RecordFull(c, size) ==
    LET a == AgentOf[c] IN
    /\ a \notin capped
    /\ ~totalCapped
    /\ bytes["total"] + size <= TotalCap
    /\ bytes[a] + size <= AgentCap
    /\ Appends(c, <<Line("full", c, size)>>)
    /\ bytes' = IF failures' = failures
                THEN [bytes EXCEPT ![a] = @ + size, !["total"] = @ + size] ELSE bytes
    /\ UNCHANGED <<capped, totalCapped>>

Record(c) ==
    \/ RecordStub(c)
    \/ \E size \in Sizes : RecordCapped(c, size) \/ RecordFull(c, size)

-----------------------------------------------------------------------------
(* The call upstream *)

\* The handler's end: whatever happened, the call is recorded and its response ended; its abort signal
\* and its count of the stream go with it.
EndCall(c) ==
    /\ stage' = [stage EXCEPT ![c] = "served"]
    /\ stopped' = stopped \ {c}
    /\ chunks' = [chunks EXCEPT ![c] = 0]
    /\ Record(c)
    /\ UNCHANGED <<mode, closed, now, open, recent, seq, replayVars,
                   order, at, overlapped, restarts>>

\* A whole answer, or an upstream that failed by itself (502).
Answered(c) ==
    /\ stage[c] = "upstream"
    /\ c \notin stopped
    /\ EndCall(c)

\* Mutant: a call that was stopped leaves no line.
AbortedUnrecorded(c) ==
    /\ stage[c] \in InFlight
    /\ c \in stopped
    /\ stage' = [stage EXCEPT ![c] = "served"]
    /\ UNCHANGED <<mode, closed, stopped, chunks, now, file, process, replayVars, history, bounds>>

\* Mutant: the wait for a slow agent is resumed by the agent only.
AbortedUnlessWaiting(c) ==
    /\ stage[c] \in {"upstream", "relaying"}
    /\ c \in stopped
    /\ EndCall(c)

\* The fetch, the read or the wait for the agent was aborted: 502, 499, or a stream that is cut.
Aborted(c) ==
    /\ stage[c] \in InFlight
    /\ c \in stopped
    /\ EndCall(c)

\* The answer is a stream: its headers go out.
StreamStarts(c) ==
    /\ c \in Streams
    /\ stage[c] = "upstream"
    /\ c \notin stopped
    /\ stage' = [stage EXCEPT ![c] = "relaying"]
    /\ UNCHANGED <<mode, closed, stopped, chunks, now, file, process, replayVars, history, bounds>>

\* A chunk is relayed; the agent may read slower than the model writes.
Relay(c) ==
    /\ stage[c] = "relaying"
    /\ c \notin stopped
    /\ chunks[c] < MaxChunks
    /\ chunks' = [chunks EXCEPT ![c] = @ + 1]
    /\ \E next \in {"relaying", "waiting"} : stage' = [stage EXCEPT ![c] = next]
    /\ UNCHANGED <<mode, closed, stopped, now, file, process, replayVars, history, bounds>>

\* One chunk too many: the stream is stopped as a timer would.
TooLong(c) ==
    /\ stage[c] = "relaying"
    /\ c \notin stopped
    /\ chunks[c] = MaxChunks
    /\ stopped' = stopped \cup {c}
    /\ UNCHANGED <<mode, stage, closed, chunks, now, file, process, replayVars, history, bounds>>

\* The agent has caught up and the proxy pulls again.
Drained(c) ==
    /\ stage[c] = "waiting"
    /\ c \notin stopped
    /\ stage' = [stage EXCEPT ![c] = "relaying"]
    /\ UNCHANGED <<mode, closed, stopped, chunks, now, file, process, replayVars, history, bounds>>

\* The stream is complete, or the upstream broke it off.
StreamEnds(c) ==
    /\ stage[c] = "relaying"
    /\ c \notin stopped
    /\ EndCall(c)

\* The total or the idle timer, whichever is armed; the first reason is the one that is kept.
TimerFires(c) ==
    /\ stage[c] \in InFlight
    /\ c \notin stopped
    /\ stopped' = stopped \cup {c}
    /\ UNCHANGED <<mode, stage, closed, chunks, now, file, process, replayVars, history, bounds>>

\* Mutant: a request refused after its body does not give its slot back.
CloseUnlessRefused(c) ==
    /\ stage[c] \in {"body", "served", "refused"} \cup InFlight
    /\ c \notin closed
    /\ closed' = closed \cup {c}
    /\ open' = IF stage[c] = "refused" THEN open ELSE [open EXCEPT ![AgentOf[c]] = @ - 1]
    /\ stopped' = IF stage[c] \in InFlight THEN stopped \cup {c} ELSE stopped
    /\ UNCHANGED <<mode, stage, chunks, now, file, seq, recent, bytes, capped, totalCapped,
                   replayVars, history, bounds>>

\* The response closes, after its end or because the agent left: the slot is given back once, and a
\* call still under way is stopped.
Close(c) ==
    /\ stage[c] \in {"body", "served", "refused"} \cup InFlight
    /\ c \notin closed
    /\ closed' = closed \cup {c}
    /\ open' = [open EXCEPT ![AgentOf[c]] = @ - 1]
    /\ stopped' = IF stage[c] \in InFlight THEN stopped \cup {c} ELSE stopped
    /\ UNCHANGED <<mode, stage, chunks, now, file, seq, recent, bytes, capped, totalCapped,
                   replayVars, history, bounds>>

-----------------------------------------------------------------------------
(* The replay, the clock and restarts *)

\* A new process: its counters start from nothing, the files stay.
NewProcess ==
    /\ open' = [a \in Agents |-> 0]
    /\ recent' = [a \in Agents |-> {}]
    /\ seq' = [a \in Agents |-> 0]
    /\ bytes' = NoBytes
    /\ capped' = {}
    /\ totalCapped' = FALSE

\* The proxy is restarted: the calls it held are gone, with the lines they would have left.
Restart ==
    /\ mode = "live"
    /\ failures + restarts < MaxFaults
    /\ restarts' = restarts + 1
    /\ NewProcess
    /\ stage' = [c \in Calls |-> IF stage[c] \in InFlight \cup {"body"} THEN "gone" ELSE stage[c]]
    /\ lost' = lost \cup {c \in Calls : stage[c] \in InFlight}
    /\ closed' = {c \in Calls : stage[c] # "new"}
    /\ stopped' = {}
    /\ chunks' = [c \in Calls |-> 0]
    /\ at' = [c \in Calls |-> -1]
    /\ UNCHANGED <<mode, now, file, replayVars, order, overlapped, failures>>

\* The run is repeated on its record: each agent makes the calls it was given numbers for again.
StartReplay ==
    /\ mode = "live"
    /\ \A c \in Calls : stage[c] \in {"served", "away", "refused", "gone"}
    /\ mode' = "replay"
    /\ NewProcess
    /\ stage' = [c \in Calls |-> IF Contains(order[AgentOf[c]], c) THEN "new" ELSE "away"]
    /\ closed' = {}
    /\ stopped' = {}
    /\ chunks' = [c \in Calls |-> 0]
    /\ now' = 0
    /\ queue' = [a \in Agents |-> AnswerLines(a)]
    /\ at' = [c \in Calls |-> -1]
    /\ UNCHANGED <<file, answer, order, lost, overlapped, bounds>>

\* The line that answers the agent's next call: the first that has not been served.
NextLine(a) == CHOOSE i \in queue[a] : \A j \in queue[a] : i <= j

\* Mutant: the line that was served stays the next.
ReplayKeepsLine(c) ==
    LET a == AgentOf[c] IN
    /\ mode = "replay"
    /\ seq[a] < Len(order[a])
    /\ order[a][seq[a] + 1] = c
    /\ Number(c)
    /\ LET served == queue[a] # {} /\ file[a][NextLine(a)].kind = "full" IN
       /\ stage' = [stage EXCEPT ![c] = IF served THEN "served" ELSE "refused"]
       /\ answer' = IF served THEN [answer EXCEPT ![c] = file[a][NextLine(a)].call] ELSE answer
    /\ UNCHANGED <<mode, closed, stopped, chunks, now, file, open, bytes, capped, totalCapped,
                   queue, history, bounds>>

\* The next line of the file answers the call, whichever call left it: 409 when there is none or it
\* is a stub.  The n-th call of the repeated run is the n-th of the recorded one.
Replay(c) ==
    LET a == AgentOf[c] IN
    /\ mode = "replay"
    /\ seq[a] < Len(order[a])
    /\ order[a][seq[a] + 1] = c
    /\ Number(c)
    /\ LET served == queue[a] # {} /\ file[a][NextLine(a)].kind = "full" IN
       /\ stage' = [stage EXCEPT ![c] = IF served THEN "served" ELSE "refused"]
       /\ answer' = IF served THEN [answer EXCEPT ![c] = file[a][NextLine(a)].call] ELSE answer
    /\ queue' = [queue EXCEPT ![a] = IF @ = {} THEN @ ELSE @ \ {NextLine(a)}]
    /\ UNCHANGED <<mode, closed, stopped, chunks, now, file, open, bytes, capped, totalCapped,
                   history, bounds>>

Tick ==
    /\ now < MaxTime
    /\ now' = now + 1
    /\ UNCHANGED <<mode, stage, closed, stopped, chunks, file, process, replayVars, history, bounds>>

Handle(c) ==
    \/ TurnAway(c) \/ Admit(c) \/ RefuseBody(c) \/ RefuseRate(c) \/ Forward(c) \/ Replay(c)
    \/ Answered(c) \/ Aborted(c)
    \/ StreamStarts(c) \/ Relay(c) \/ TooLong(c) \/ Drained(c) \/ StreamEnds(c)
    \/ TimerFires(c) \/ Close(c)

Next == Tick \/ Restart \/ StartReplay \/ \E c \in Calls : Handle(c)

Spec == Init /\ [][Next]_vars

\* The body's deadline (server.requestTimeout), the timers and the abort's effect: neither an
\* upstream nor an agent is relied on to answer, read or leave.
Fairness ==
    \A c \in Calls : WF_vars(RefuseBody(c)) /\ WF_vars(TimerFires(c)) /\ WF_vars(Aborted(c))

FairSpec == Spec /\ Fairness

-----------------------------------------------------------------------------
(* Properties *)

LinesOf(c) == {i \in AnswerLines(AgentOf[c]) : file[AgentOf[c]][i].call = c}

\* A call that was forwarded leaves one line, full or stub, whichever way it ended (proxy.ts:38-45);
\* only an append that failed or the process's end loses it.
OneLinePerCall ==
    \A a \in Agents : \A i \in DOMAIN order[a] :
        LET c == order[a][i] IN
        stage[c] \notin InFlight => Cardinality(LinesOf(c)) = IF c \in lost THEN 0 ELSE 1

\* The bytes of an agent's bodies on disk, each by its line and its place in it.
Bodies(a) == UNION {{<<a, i>>} \X (1 .. file[a][i].size) : i \in DOMAIN file[a]}

\* The bodies on disk stay within both caps of each process's life, and once they stop for an agent
\* they do not start again (proxy.ts:33-36).
CapsHold ==
    /\ \A a \in Agents : Cardinality(Bodies(a)) <= (restarts + 1) * AgentCap
    /\ Cardinality(UNION {Bodies(a) : a \in Agents}) <= (restarts + 1) * TotalCap
    /\ restarts = 0 => \A a \in Agents : \A i, j \in DOMAIN file[a] :
                          i < j /\ file[a][i].kind = "note" => file[a][j].kind = "stub"

\* In no minute, wherever it starts, are more than Limit of an agent's calls forwarded.
RateHolds ==
    Limit > 0 => \A a \in Agents, t \in 0 .. MaxTime :
        Cardinality({c \in Of(a) : at[c] \in t .. t + Minute - 1}) <= Limit

\* The count of open requests is the requests held open: a slot is taken below the limit, given back
\* once however the request ends, and a request is turned away only at the limit (proxy.ts:628-645).
HeldOpen(a) == {c \in Of(a) : stage[c] \notin {"new", "away"} /\ c \notin closed}
Slots == INSTANCE SlotPool WITH
           Clients <- Agents, Requests <- Calls, ClientOf <- AgentOf, Limit <- MaxOpen,
           held <- [a \in Agents |-> HeldOpen(a)], turned <- {c \in Calls : stage[c] = "away"}
SlotSpec == Slots!Spec

\* A request that was let in ends, though its upstream never answers and its agent never reads.
EveryCallEnds == \A c \in Calls : stage[c] \in InFlight \cup {"body"} ~> stage[c] \notin InFlight \cup {"body"}

KeptInFull(c) == \E k \in LinesOf(c) : file[AgentOf[c]][k].kind = "full"

\* A run whose agent waited for each answer, and whose lines were all written, is replayed exactly
\* (proxy.ts:22-25): every call made again is given its own recorded answer, and none only when a cap
\* left a stub of it.
SerialRunReplays ==
    mode = "replay" =>
        \A a \in Agents \ overlapped : lost \cap Of(a) = {} =>
            \A i \in 1 .. seq[a] :
                answer[order[a][i]] = IF KeptInFull(order[a][i]) THEN order[a][i] ELSE None

\* "so the call numbers keep lining up with the live run's" (proxy.ts:409-411): a replayed call is
\* given its own recorded answer or none.
ReplayAnswersTheSameCall == \A c \in Calls : answer[c] \in {None, c}
=============================================================================
