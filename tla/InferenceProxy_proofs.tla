------------------------- MODULE InferenceProxy_proofs -------------------------
(***************************************************************************)
(* For any agents, calls, limits and faults:                               *)
(*   the count of open requests is the number of requests held open, and   *)
(*     the proxy implements SlotPool (SlotInv);                            *)
(*   a forwarded call leaves one line (RecordInv);                         *)
(*   calls that never overlapped replay their own answers (SerialInv);     *)
(*   no minute has more than Limit calls of an agent (RateInv);            *)
(*   the bodies on disk stay within the caps (CapsInv).                    *)
(*                                                                         *)
(* SlotInv is inductive: the handlers move a request between stages that   *)
(* hold a slot, except for Admit, which takes one, Close, which gives it   *)
(* back, TurnAway, which never had one, and a new process.                 *)
(***************************************************************************)
EXTENDS InferenceProxy, FiniteSetTheorems, WellFoundedInduction, TLAPS

Holding == {"body", "upstream", "relaying", "waiting", "served", "refused", "gone"}

SlotTypeOK ==
    /\ stage \in [Calls -> Holding \cup {"new", "away"}]
    /\ closed \in SUBSET Calls
    /\ open \in [Agents -> Nat]

SlotInv ==
    /\ SlotTypeOK
    /\ \A c \in Calls : stage[c] = "new" => c \notin closed
    /\ \A a \in Agents : open[a] = Cardinality(HeldOpen(a)) /\ open[a] <= MaxOpen

-----------------------------------------------------------------------------
(* What the handlers do to the slots *)

\* The instance's Cardinality is the one the lemmas on finite sets are about.
LEMMA SameCardinality ==
    ASSUME NEW S PROVE Slots!Cardinality(S) = Cardinality(S)
BY DEF Slots!Cardinality, Cardinality

LEMMA HeldIsFinite ==
    ASSUME NEW a PROVE IsFiniteSet(HeldOpen(a)) /\ Cardinality(HeldOpen(a)) \in Nat
<1>1. HeldOpen(a) \in SUBSET Calls
  BY DEF HeldOpen, Of
<1>2. IsFiniteSet(HeldOpen(a))
  BY <1>1, CallAssumption, FS_Subset
<1>3. QED
  BY <1>2, FS_CardinalityType

\* A request that holds a slot goes on holding it while its handler works on it.
KeepsSlots ==
    /\ open' = open
    /\ closed' = closed
    /\ stage' \in [Calls -> Holding \cup {"new", "away"}]
    /\ \A c \in Calls : stage'[c] = stage[c] \/ (stage[c] \in Holding /\ stage'[c] \in Holding)

Turned == {c \in Calls : stage[c] = "away"}

LEMMA KeptSlots ==
    ASSUME SlotInv, KeepsSlots
    PROVE  SlotInv' /\ (\A a \in Agents : HeldOpen(a)' = HeldOpen(a)) /\ Turned' = Turned
<1>1. \A c \in Calls : stage'[c] \in {"new", "away"} <=> stage[c] \in {"new", "away"}
  BY DEF KeepsSlots, Holding
<1>2. \A a \in Agents : HeldOpen(a)' = HeldOpen(a)
  BY <1>1 DEF HeldOpen, Of, KeepsSlots
<1>3. Turned' = Turned
  BY DEF Turned, KeepsSlots, Holding
<1>4. SlotTypeOK'
  BY DEF SlotInv, SlotTypeOK, KeepsSlots
<1>5. \A c \in Calls : stage'[c] = "new" => c \notin closed'
  BY DEF SlotInv, KeepsSlots, Holding
<1>6. QED
  BY <1>2, <1>3, <1>4, <1>5 DEF SlotInv, KeepsSlots

\* Every handler but Admit, TurnAway and Close.
Works(c) ==
    \/ RefuseBody(c) \/ RefuseRate(c) \/ Forward(c) \/ Replay(c)
    \/ Answered(c) \/ Aborted(c)
    \/ StreamStarts(c) \/ Relay(c) \/ TooLong(c) \/ Drained(c) \/ StreamEnds(c)
    \/ TimerFires(c)

LEMMA HandlersKeepSlots ==
    ASSUME SlotInv, NEW c \in Calls, Works(c)
    PROVE  KeepsSlots
<1> USE DEF SlotInv, SlotTypeOK, KeepsSlots, Holding
<1>1. CASE RefuseBody(c)
  BY <1>1 DEF RefuseBody, process
<1>2. CASE RefuseRate(c)
  BY <1>2 DEF RefuseRate
<1>3. CASE Forward(c)
  BY <1>3 DEF Forward, Number
<1>4. CASE Replay(c)
  <2>1. /\ stage[c] = "body"
        /\ \E s \in {"served", "refused"} : stage' = [stage EXCEPT ![c] = s]
        /\ open' = open /\ closed' = closed
    BY <1>4 DEF Replay, Number
  <2>2. QED
    BY <2>1
<1>5. CASE Answered(c) \/ Aborted(c) \/ StreamEnds(c)
  <2>1. /\ stage[c] \in InFlight
        /\ stage' = [stage EXCEPT ![c] = "served"]
        /\ open' = open /\ closed' = closed
    BY <1>5 DEF Answered, Aborted, StreamEnds, EndCall, InFlight
  <2>2. QED
    BY <2>1 DEF InFlight
<1>6. CASE StreamStarts(c)
  BY <1>6 DEF StreamStarts, process
<1>7. CASE Relay(c)
  BY <1>7 DEF Relay, process
<1>8. CASE TooLong(c)
  BY <1>8 DEF TooLong, process
<1>9. CASE Drained(c)
  BY <1>9 DEF Drained, process
<1>10. CASE TimerFires(c)
  BY <1>10 DEF TimerFires, process
<1>11. QED
  BY <1>1, <1>2, <1>3, <1>4, <1>5, <1>6, <1>7, <1>8, <1>9, <1>10 DEF Works

LEMMA Admitted ==
    ASSUME SlotInv, NEW c \in Calls, Admit(c)
    PROVE  /\ SlotInv'
           /\ Turned' = Turned
           /\ c \notin HeldOpen(AgentOf[c])
           /\ Cardinality(HeldOpen(AgentOf[c])) < MaxOpen
           /\ \A a \in Agents : HeldOpen(a)' = IF a = AgentOf[c] THEN HeldOpen(a) \cup {c}
                                               ELSE HeldOpen(a)
<1> USE DEF Admit
<1>1. AgentOf[c] \in Agents /\ c \notin closed /\ c \notin HeldOpen(AgentOf[c])
  BY CallAssumption DEF SlotInv, HeldOpen
<1>2. \A a \in Agents : HeldOpen(a)' = IF a = AgentOf[c] THEN HeldOpen(a) \cup {c} ELSE HeldOpen(a)
  BY <1>1 DEF HeldOpen, Of, SlotInv, SlotTypeOK
<1>3. Turned' = Turned
  BY DEF Turned, SlotInv, SlotTypeOK
<1>4. SlotTypeOK'
  BY <1>1 DEF SlotInv, SlotTypeOK, Holding
<1>5. Cardinality(HeldOpen(AgentOf[c])) < MaxOpen
  BY <1>1 DEF SlotInv
<1>6. Cardinality(HeldOpen(AgentOf[c]) \cup {c}) = Cardinality(HeldOpen(AgentOf[c])) + 1
  BY <1>1, HeldIsFinite, FS_AddElement
<1>7. ASSUME NEW a \in Agents PROVE open'[a] = Cardinality(HeldOpen(a)') /\ open'[a] <= MaxOpen
  <2>1. CASE a = AgentOf[c]
    <3>1. open'[a] = open[a] + 1
      BY <2>1 DEF SlotInv, SlotTypeOK
    <3>2. HeldOpen(a)' = HeldOpen(a) \cup {c}
      BY <1>2, <2>1
    <3>3. Cardinality(HeldOpen(a)') = Cardinality(HeldOpen(a)) + 1
      BY <3>2, <2>1, <1>6
    <3>4. open[a] \in Nat /\ open[a] = Cardinality(HeldOpen(a)) /\ open[a] < MaxOpen
      BY <2>1 DEF SlotInv, SlotTypeOK
    <3>5. QED
      BY <3>1, <3>3, <3>4, LimitAssumption
  <2>2. CASE a # AgentOf[c]
    BY <1>2, <2>2 DEF SlotInv, SlotTypeOK
  <2>3. QED
    BY <2>1, <2>2
<1>8. \A d \in Calls : stage'[d] = "new" => d \notin closed'
  BY DEF SlotInv, SlotTypeOK
<1>9. QED
  BY <1>1, <1>2, <1>3, <1>4, <1>5, <1>7, <1>8 DEF SlotInv

LEMMA TurnedAway ==
    ASSUME SlotInv, NEW c \in Calls, TurnAway(c)
    PROVE  /\ SlotInv'
           /\ Turned' = Turned \cup {c}
           /\ c \notin HeldOpen(AgentOf[c])
           /\ Cardinality(HeldOpen(AgentOf[c])) = MaxOpen
           /\ \A a \in Agents : HeldOpen(a)' = HeldOpen(a)
<1> USE DEF TurnAway
<1>1. AgentOf[c] \in Agents /\ c \notin HeldOpen(AgentOf[c])
  BY CallAssumption DEF SlotInv, HeldOpen
<1>2. \A a \in Agents : HeldOpen(a)' = HeldOpen(a)
  BY DEF HeldOpen, Of, SlotInv, SlotTypeOK
<1>3. Turned' = Turned \cup {c}
  BY DEF Turned, SlotInv, SlotTypeOK
<1>4. Cardinality(HeldOpen(AgentOf[c])) = MaxOpen
  <2>1. /\ open[AgentOf[c]] \in Nat /\ open[AgentOf[c]] >= MaxOpen /\ open[AgentOf[c]] <= MaxOpen
        /\ open[AgentOf[c]] = Cardinality(HeldOpen(AgentOf[c]))
    BY <1>1 DEF SlotInv, SlotTypeOK
  <2>2. QED
    BY <2>1, LimitAssumption
<1>5. SlotTypeOK' /\ open' = open
  BY DEF SlotInv, SlotTypeOK, process
<1>6. \A d \in Calls : stage'[d] = "new" => d \notin closed'
  BY DEF SlotInv, SlotTypeOK
<1>7. QED
  BY <1>1, <1>2, <1>3, <1>4, <1>5, <1>6 DEF SlotInv

LEMMA Closed ==
    ASSUME SlotInv, NEW c \in Calls, Close(c)
    PROVE  /\ SlotInv'
           /\ Turned' = Turned
           /\ c \in HeldOpen(AgentOf[c])
           /\ \A a \in Agents : HeldOpen(a)' = IF a = AgentOf[c] THEN HeldOpen(a) \ {c}
                                               ELSE HeldOpen(a)
<1> USE DEF Close
<1>1. AgentOf[c] \in Agents /\ c \in HeldOpen(AgentOf[c])
  BY CallAssumption DEF HeldOpen, Of, InFlight
<1>2. \A a \in Agents : HeldOpen(a)' = IF a = AgentOf[c] THEN HeldOpen(a) \ {c} ELSE HeldOpen(a)
  BY DEF HeldOpen, Of
<1>3. Turned' = Turned
  BY DEF Turned
<1>4. ASSUME NEW a \in Agents
      PROVE  open'[a] \in Nat /\ open'[a] = Cardinality(HeldOpen(a)') /\ open'[a] <= MaxOpen
  <2>1. CASE a = AgentOf[c]
    <3>1. open'[a] = open[a] - 1
      BY <2>1 DEF SlotInv, SlotTypeOK
    <3>2. HeldOpen(a)' = HeldOpen(a) \ {c}
      BY <1>2, <2>1
    <3>3. Cardinality(HeldOpen(a) \ {c}) = Cardinality(HeldOpen(a)) - 1
      BY <1>1, <2>1, HeldIsFinite, FS_RemoveElement
    <3>4. Cardinality(HeldOpen(a) \ {c}) \in Nat
      BY HeldIsFinite, FS_RemoveElement, FS_CardinalityType
    <3>5. open[a] \in Nat /\ open[a] = Cardinality(HeldOpen(a)) /\ open[a] <= MaxOpen
      BY DEF SlotInv, SlotTypeOK
    <3>6. QED
      BY <3>1, <3>2, <3>3, <3>4, <3>5, LimitAssumption
  <2>2. CASE a # AgentOf[c]
    BY <1>2, <2>2 DEF SlotInv, SlotTypeOK
  <2>3. QED
    BY <2>1, <2>2
<1>5. SlotTypeOK'
  <2>1. open' = [open EXCEPT ![AgentOf[c]] = @ - 1]
    OBVIOUS
  <2>2. open' \in [Agents -> Nat]
    BY <2>1, <1>4 DEF SlotInv, SlotTypeOK
  <2>3. QED
    BY <2>2 DEF SlotInv, SlotTypeOK
<1>6. \A d \in Calls : stage'[d] = "new" => d \notin closed'
  BY DEF SlotInv, InFlight
<1>7. QED
  BY <1>1, <1>2, <1>3, <1>4, <1>5, <1>6 DEF SlotInv

\* A new process holds nothing.
LEMMA Restarted ==
    ASSUME SlotInv, Restart \/ StartReplay
    PROVE  SlotInv' /\ \A a \in Agents : HeldOpen(a)' = {}
<1>1. \A c \in Calls : stage'[c] \in {"new", "away"} \/ c \in closed'
  <2>1. CASE Restart
    BY <2>1 DEF Restart, InFlight, SlotInv, SlotTypeOK
  <2>2. CASE StartReplay
    BY <2>2 DEF StartReplay
  <2>3. QED
    BY <2>1, <2>2
<1>2. \A a \in Agents : HeldOpen(a)' = {}
  BY <1>1 DEF HeldOpen, Of
<1>3. open' = [a \in Agents |-> 0]
  BY DEF Restart, StartReplay, NewProcess
<1>4. SlotTypeOK' /\ \A c \in Calls : stage'[c] = "new" => c \notin closed'
  <2>1. CASE Restart
    BY <2>1, <1>3 DEF Restart, InFlight, SlotInv, SlotTypeOK, Holding
  <2>2. CASE StartReplay
    BY <2>2, <1>3 DEF StartReplay, SlotInv, SlotTypeOK, Holding
  <2>3. QED
    BY <2>1, <2>2
<1>5. \A a \in Agents : open'[a] = Cardinality(HeldOpen(a)') /\ open'[a] <= MaxOpen
  BY <1>2, <1>3, FS_EmptySet, LimitAssumption
<1>6. QED
  BY <1>2, <1>4, <1>5 DEF SlotInv

-----------------------------------------------------------------------------
(* The theorems *)

LEMMA SlotStep == SlotInv /\ [Next]_vars => SlotInv'
<1> SUFFICES ASSUME SlotInv, [Next]_vars PROVE SlotInv'
  OBVIOUS
<1>1. CASE Tick \/ UNCHANGED vars
  <2>1. KeepsSlots
    BY <1>1 DEF Tick, vars, process, KeepsSlots, SlotInv, SlotTypeOK
  <2>2. QED
    BY <2>1, KeptSlots
<1>2. CASE Restart \/ StartReplay
  BY <1>2, Restarted
<1>3. ASSUME NEW c \in Calls, Handle(c) PROVE SlotInv'
  <2>1. CASE Works(c)
    BY <2>1, HandlersKeepSlots, KeptSlots
  <2>2. CASE Admit(c)
    BY <2>2, Admitted
  <2>3. CASE TurnAway(c)
    BY <2>3, TurnedAway
  <2>4. CASE Close(c)
    BY <2>4, Closed
  <2>5. QED
    BY <1>3, <2>1, <2>2, <2>3, <2>4 DEF Handle, Works
<1>4. QED
  BY <1>1, <1>2, <1>3 DEF Next

LEMMA SlotStart == Init => SlotInv
<1> SUFFICES ASSUME Init PROVE SlotInv
  OBVIOUS
<1>1. \A a \in Agents : HeldOpen(a) = {}
  BY DEF Init, HeldOpen, Of
<1>2. \A a \in Agents : open[a] = Cardinality(HeldOpen(a)) /\ open[a] <= MaxOpen
  <2>1. \A a \in Agents : open[a] = 0
    BY DEF Init
  <2>2. QED
    BY <1>1, <2>1, FS_EmptySet, LimitAssumption
<1>3. QED
  BY <1>2 DEF Init, SlotInv, SlotTypeOK

\* openRequests counts exactly the requests whose response has not closed, and never passes
\* MAX_OPEN_REQUESTS_PER_AGENT (proxy.ts:628-645).
THEOREM OpenIsTrue == Spec => []SlotInv
<1>1. QED
  BY SlotStart, SlotStep, PTL DEF Spec

\* The proxy's door implements the slot pool: it never lets a request in above the limit, never
\* turns one away below it, and never gives back a slot that was not taken.
THEOREM ImplementsSlotPool == Spec => SlotSpec
<1> DEFINE Held == [a \in Agents |-> HeldOpen(a)]
<1>1. Init => Slots!Init
  <2> SUFFICES ASSUME Init PROVE Slots!Init
    OBVIOUS
  <2>1. \A a \in Agents : HeldOpen(a) = {}
    BY DEF Init, HeldOpen, Of
  <2>2. Turned = {}
    BY DEF Init, Turned
  <2>3. QED
    BY <2>1, <2>2 DEF Slots!Init, Turned
<1>2. SlotInv /\ [Next]_vars => [Slots!Next]_<<Held, Turned>>
  <2> SUFFICES ASSUME SlotInv, [Next]_vars PROVE [Slots!Next]_<<Held, Turned>>
    OBVIOUS
  <2>1. ASSUME KeepsSlots PROVE UNCHANGED <<Held, Turned>>
    BY <2>1, KeptSlots
  <2>2. CASE Tick \/ UNCHANGED vars
    <3>1. KeepsSlots
      BY <2>2 DEF Tick, vars, process, KeepsSlots, SlotInv, SlotTypeOK
    <3>2. QED
      BY <3>1, <2>1
  <2>3. CASE Restart \/ StartReplay
    <3>1. Held' = [a \in Agents |-> {}] /\ Turned' \in SUBSET Calls
      BY <2>3, Restarted DEF Turned
    <3>2. QED
      BY <3>1 DEF Slots!Next, Slots!NewProcess, Turned
  <2>4. ASSUME NEW c \in Calls, Handle(c) PROVE [Slots!Next]_<<Held, Turned>>
    <3>1. CASE Works(c)
      BY <3>1, HandlersKeepSlots, <2>1
    <3>2. CASE Admit(c)
      <4>1. Held' = [Held EXCEPT ![AgentOf[c]] = @ \cup {c}]
        BY <3>2, Admitted
      <4>2. Held[AgentOf[c]] = HeldOpen(AgentOf[c])
        BY CallAssumption
      <4>3. Slots!Take(c)
        BY <3>2, <4>1, <4>2, Admitted, SameCardinality DEF Slots!Take, Turned, Held
      <4>4. QED
        BY <4>3 DEF Slots!Next
    <3>3. CASE TurnAway(c)
      <4>1. Held' = Held
        BY <3>3, TurnedAway
      <4>2. Held[AgentOf[c]] = HeldOpen(AgentOf[c])
        BY CallAssumption
      <4>3. Slots!TurnAway(c)
        BY <3>3, <4>1, <4>2, TurnedAway, SameCardinality DEF Slots!TurnAway, Turned, Held
      <4>4. QED
        BY <4>3 DEF Slots!Next
    <3>4. CASE Close(c)
      <4>1. Held' = [Held EXCEPT ![AgentOf[c]] = @ \ {c}]
        BY <3>4, Closed
      <4>2. Slots!GiveBack(c)
        BY <3>4, <4>1, Closed, CallAssumption DEF Slots!GiveBack, Turned
      <4>3. QED
        BY <4>2 DEF Slots!Next
    <3>5. QED
      BY <2>4, <3>1, <3>2, <3>3, <3>4 DEF Handle, Works
  <2>5. QED
    BY <2>2, <2>3, <2>4 DEF Next
<1>3. QED
  BY <1>1, <1>2, OpenIsTrue, PTL DEF Spec, SlotSpec, Slots!Spec, Turned

-----------------------------------------------------------------------------
(* The record *)

Lines == [kind : {"full", "stub", "note"}, call : Calls, size : Nat]

Numbered == {c \in Calls : \E i \in DOMAIN order[AgentOf[c]] : order[AgentOf[c]][i] = c}

RecordTypeOK ==
    /\ mode \in {"live", "replay"}
    /\ file \in [Agents -> Seq(Lines)]
    /\ order \in [Agents -> Seq(Calls)]
    /\ lost \in SUBSET Calls

\* A numbered call that has ended has one line or is lost; any other has neither.
Accounted(c) ==
    IF c \in Numbered /\ stage[c] \notin InFlight /\ c \notin lost
    THEN \E i : LinesOf(c) = {i}
    ELSE LinesOf(c) = {} /\ (c \in lost => c \in Numbered /\ stage[c] \notin InFlight)

RecordInv ==
    /\ RecordTypeOK
    /\ \A a \in Agents : /\ \A i \in DOMAIN order[a] : AgentOf[order[a][i]] = a
                         /\ \A i, j \in DOMAIN order[a] : order[a][i] = order[a][j] => i = j
                         /\ \A i \in DOMAIN file[a] : AgentOf[file[a][i].call] = a
    /\ mode = "replay" => \A c \in Calls : stage[c] \notin InFlight
    /\ mode = "live" => \A c \in Calls : stage[c] \in {"new", "body"} => c \notin Numbered
    /\ \A c \in Calls : stage[c] \in InFlight => c \in Numbered
    /\ \A c \in Calls : Accounted(c)

\* The lines a call leaves: its own, and before it perhaps a note that the bodies stop.
OwnLines(c, lines) ==
    \E x \in Lines, y \in Lines :
        /\ x.call = c /\ x.kind # "note" /\ y.call = c /\ y.kind = "note"
        /\ lines = <<x>> \/ lines = <<y, x>>

LEMMA Added ==
    ASSUME NEW g \in Seq(Lines), NEW added \in Seq(Lines), NEW x
    PROVE  Contains(SubSeq(g \o added, Len(g) + 1, Len(g \o added)), x)
             <=> \E i \in 1 .. Len(added) : added[i] = x
<1>1. /\ Len(g \o added) = Len(g) + Len(added)
      /\ \A i \in 1 .. Len(added) : (g \o added)[Len(g) + i] = added[i]
      /\ Len(g) \in Nat /\ Len(added) \in Nat
  OBVIOUS
<1> DEFINE s == SubSeq(g \o added, Len(g) + 1, Len(g \o added))
<1>2. s = [i \in 1 .. Len(added) |-> (g \o added)[Len(g) + i]]
  BY <1>1
<1>3. Len(s) = Len(added)
  BY <1>1, <1>2
<1>4. \A i \in 1 .. Len(added) : s[i] = added[i]
  BY <1>1, <1>2
<1>5. QED
  BY <1>3, <1>4 DEF Contains

\* What is new in the file after an append: lines of this call, one of them its own, or it is lost.
NewLines(c, f, g) ==
    /\ f \in Seq(Lines) /\ Len(f) >= Len(g)
    /\ \A i \in 1 .. Len(g) : f[i] = g[i]
    /\ \A i \in DOMAIN f : i > Len(g) => f[i].call = c

OneIsOwn(f, g) == \E m \in DOMAIN f : m > Len(g) /\ \A i \in DOMAIN f : i > Len(g) => (f[i].kind # "note" <=> i = m)

NoneIsOwn(f, g) == \A i \in DOMAIN f : i > Len(g) => f[i].kind = "note"

LEMMA Appended ==
    ASSUME RecordTypeOK, NEW c \in Calls, NEW lines, OwnLines(c, lines), Appends(c, lines)
    PROVE  LET a == AgentOf[c] IN
           /\ file' \in [Agents -> Seq(Lines)]
           /\ \A b \in Agents \ {a} : file'[b] = file[b]
           /\ NewLines(c, file'[a], file[a])
           /\ \/ lost' = lost /\ OneIsOwn(file'[a], file[a])
              \/ lost' = lost \cup {c} /\ NoneIsOwn(file'[a], file[a])
<1> DEFINE a == AgentOf[c]
           g == file[a]
<1>1. a \in Agents /\ g \in Seq(Lines)
  BY CallAssumption DEF RecordTypeOK
<1>2. PICK x \in Lines, y \in Lines :
        /\ x.call = c /\ x.kind # "note" /\ y.call = c /\ y.kind = "note"
        /\ lines = <<x>> \/ lines = <<y, x>>
  BY DEF OwnLines
<1>3. lines[Len(lines)] = x
  <2>1. CASE lines = <<x>>
    BY <2>1
  <2>2. CASE lines = <<y, x>>
    BY <2>2
  <2>3. QED
    BY <1>2, <2>1, <2>2
<1>4. PICK f \in Written(g, lines) : file' = [file EXCEPT ![a] = f]
  BY DEF Appends
<1>5. \E added \in {<<>>, <<x>>, <<y>>, <<y, x>>} : f = g \o added
  <2>1. f = g \/ f = g \o lines \/ (\E i \in DOMAIN lines : f = Append(g, lines[i]))
    BY <1>4 DEF Written
  <2>2. CASE f = g
    <3>1. f = g \o <<>> /\ <<>> \in Seq(Lines)
      BY <1>1, <2>2
    <3>2. QED
      BY <3>1
  <2>3. CASE f = g \o lines
    BY <1>2, <2>3
  <2>4. CASE \E i \in DOMAIN lines : f = Append(g, lines[i])
    <3>1. \E z \in {x, y} : f = Append(g, z)
      BY <1>2, <2>4
    <3>2. \A z \in {x, y} : Append(g, z) = g \o <<z>>
      BY <1>1
    <3>3. QED
      BY <3>1, <3>2
  <2>5. QED
    BY <2>1, <2>2, <2>3, <2>4
<1>6. PICK added \in {<<>>, <<x>>, <<y>>, <<y, x>>} : f = g \o added
  BY <1>5
<1>7. added \in Seq(Lines)
  <2>1. <<>> \in Seq(Lines) /\ <<x>> \in Seq(Lines) /\ <<y>> \in Seq(Lines) /\ <<y, x>> \in Seq(Lines)
    OBVIOUS
  <2>2. QED
    BY <1>6, <2>1
<1>8. file'[a] = f /\ file' \in [Agents -> Seq(Lines)] /\ \A b \in Agents \ {a} : file'[b] = file[b]
  BY <1>1, <1>4, <1>6, <1>7 DEF RecordTypeOK
<1>9. /\ f \in Seq(Lines) /\ Len(f) = Len(g) + Len(added) /\ DOMAIN f = 1 .. Len(f)
      /\ Len(g) \in Nat /\ Len(added) \in Nat
      /\ \A i \in 1 .. Len(g) : f[i] = g[i]
      /\ \A i \in 1 .. Len(added) : f[Len(g) + i] = added[i]
  BY <1>1, <1>6, <1>7
<1>10. lost' = IF \E i \in 1 .. Len(added) : added[i] = x THEN lost ELSE lost \cup {c}
  <2>1. lost' = IF Contains(SubSeq(f, Len(g) + 1, Len(f)), x) THEN lost ELSE lost \cup {c}
    BY <1>3, <1>8 DEF Appends
  <2>2. QED
    BY <1>1, <1>6, <1>7, <2>1, Added
<1>11. \A i \in DOMAIN f : i > Len(g) => i - Len(g) \in 1 .. Len(added) /\ f[i] = added[i - Len(g)]
  <2>1. \A i \in DOMAIN f : i > Len(g) => i - Len(g) \in 1 .. Len(added) /\ i = Len(g) + (i - Len(g))
    <3>1. SUFFICES ASSUME NEW i \in 1 .. Len(f), i > Len(g)
                   PROVE  i - Len(g) \in 1 .. Len(added) /\ i = Len(g) + (i - Len(g))
      BY <1>9
    <3>2. Len(f) = Len(g) + Len(added) /\ Len(g) \in Nat /\ Len(added) \in Nat
      BY <1>9
    <3> HIDE DEF g
    <3>3. QED
      BY <3>1, <3>2
  <2>2. QED
    BY <1>9, <2>1
<1>12. NewLines(c, f, g)
  <2>1. \A i \in 1 .. Len(added) : added[i].call = c
    BY <1>2, <1>6
  <2>2. QED
    BY <1>9, <1>11, <2>1 DEF NewLines
<1>13. CASE added \in {<<>>, <<y>>}
  <2>1. \A i \in 1 .. Len(added) : added[i].kind = "note" /\ added[i] # x
    BY <1>2, <1>13
  <2>2. NoneIsOwn(f, g)
    BY <1>11, <2>1 DEF NoneIsOwn
  <2>3. QED
    BY <1>8, <1>10, <1>12, <2>1, <2>2
<1>14. CASE added \in {<<x>>, <<y, x>>}
  <2>1. /\ Len(added) \in 1 .. Len(added) /\ added[Len(added)] = x
        /\ \A i \in 1 .. Len(added) : added[i].kind # "note" <=> i = Len(added)
    <3>1. CASE added = <<x>>
      BY <1>2, <3>1
    <3>2. CASE added = <<y, x>>
      BY <1>2, <3>2
    <3>3. QED
      BY <1>14, <3>1, <3>2
  <2>2. Len(f) \in DOMAIN f /\ Len(f) > Len(g)
    BY <1>9, <2>1
  <2>3. \A i \in DOMAIN f : i > Len(g) => (f[i].kind # "note" <=> i = Len(f))
    <3>1. SUFFICES ASSUME NEW i \in DOMAIN f, i > Len(g)
                   PROVE  f[i].kind # "note" <=> i = Len(f)
      OBVIOUS
    <3>2. i \in Int /\ (i - Len(g) = Len(added) <=> i = Len(f))
      <4>1. i \in 1 .. Len(f) /\ Len(f) = Len(g) + Len(added) /\ Len(g) \in Nat /\ Len(added) \in Nat
        BY <1>9
      <4> HIDE DEF g
      <4>2. QED
        BY <4>1
    <3>3. QED
      BY <1>11, <2>1, <3>1, <3>2
  <2>4. OneIsOwn(f, g)
    BY <2>2, <2>3 DEF OneIsOwn
  <2>5. QED
    BY <1>8, <1>10, <1>12, <2>1, <2>4
<1>15. QED
  BY <1>6, <1>13, <1>14

LEMMA Recorded ==
    ASSUME NEW c \in Calls, Record(c)
    PROVE  \E lines : OwnLines(c, lines) /\ Appends(c, lines)
<1>1. ASSUME NEW kind \in {"full", "stub", "note"}, NEW size \in Nat
      PROVE  /\ Line(kind, c, size) \in Lines
             /\ Line(kind, c, size).call = c /\ Line(kind, c, size).kind = kind
  BY <1>1 DEF Line, Lines
<1>2. OwnLines(c, <<Line("stub", c, 0)>>) /\ OwnLines(c, <<Line("note", c, 0), Line("stub", c, 0)>>)
  BY <1>1 DEF OwnLines
<1>3. \A size \in Sizes : OwnLines(c, <<Line("full", c, size)>>)
  BY <1>1, LimitAssumption DEF OwnLines
<1>4. CASE RecordStub(c)
  BY <1>2, <1>4 DEF RecordStub
<1>5. ASSUME NEW size \in Sizes, RecordCapped(c, size) \/ RecordFull(c, size)
      PROVE  \E lines : OwnLines(c, lines) /\ Appends(c, lines)
  BY <1>2, <1>3, <1>5 DEF RecordCapped, RecordFull
<1>6. QED
  BY <1>4, <1>5 DEF Record

KeepsCalls ==
    /\ UNCHANGED <<mode, file, order, lost>>
    /\ \A c \in Calls : /\ stage'[c] \in InFlight <=> stage[c] \in InFlight
                        /\ stage'[c] \in {"new", "body"} => stage[c] \in {"new", "body"}

LEMMA KeptCalls == RecordInv /\ KeepsCalls => RecordInv'
<1> SUFFICES ASSUME RecordInv, KeepsCalls PROVE RecordInv'
  OBVIOUS
<1>1. Numbered' = Numbered /\ \A c \in Calls : LinesOf(c)' = LinesOf(c)
  BY DEF KeepsCalls, Numbered, LinesOf, AnswerLines
<1>2. \A c \in Calls : Accounted(c)'
  BY <1>1 DEF RecordInv, KeepsCalls, Accounted
<1>3. RecordTypeOK'
  BY DEF RecordInv, RecordTypeOK, KeepsCalls
<1>4. QED
  BY <1>1, <1>2, <1>3 DEF RecordInv, KeepsCalls

\* Every handler that neither numbers a call nor ends one upstream.
Quiet(c) ==
    \/ TurnAway(c) \/ Admit(c) \/ RefuseBody(c) \/ RefuseRate(c)
    \/ StreamStarts(c) \/ Relay(c) \/ TooLong(c) \/ Drained(c) \/ TimerFires(c) \/ Close(c)

LEMMA QuietKeeps ==
    ASSUME SlotTypeOK, NEW c \in Calls, Quiet(c)
    PROVE  KeepsCalls /\ UNCHANGED <<overlapped, answer, queue>> /\ UNCHANGED seq
<1> USE DEF KeepsCalls, SlotTypeOK, InFlight, history, replayVars
<1>1. CASE TurnAway(c)
  BY <1>1 DEF TurnAway, process
<1>2. CASE Admit(c)
  BY <1>2 DEF Admit
<1>3. CASE RefuseBody(c)
  BY <1>3 DEF RefuseBody, process
<1>4. CASE RefuseRate(c)
  BY <1>4 DEF RefuseRate
<1>5. CASE StreamStarts(c)
  BY <1>5 DEF StreamStarts, process
<1>6. CASE Relay(c)
  BY <1>6 DEF Relay, process
<1>7. CASE TooLong(c)
  BY <1>7 DEF TooLong, process
<1>8. CASE Drained(c)
  BY <1>8 DEF Drained, process
<1>9. CASE TimerFires(c)
  BY <1>9 DEF TimerFires, process
<1>10. CASE Close(c)
  BY <1>10 DEF Close
<1>11. QED
  BY <1>1, <1>2, <1>3, <1>4, <1>5, <1>6, <1>7, <1>8, <1>9, <1>10 DEF Quiet

\* A call that is forwarded is the last of its agent's numbered calls, and has left nothing yet.
LEMMA ForwardStep ==
    ASSUME RecordInv, SlotTypeOK, NEW c \in Calls, Forward(c)
    PROVE  /\ RecordInv'
           /\ order'[AgentOf[c]] = Append(order[AgentOf[c]], c)
           /\ \A a \in Agents \ {AgentOf[c]} : order'[a] = order[a]
<1> DEFINE a == AgentOf[c]
<1>1. /\ a \in Agents /\ order[a] \in Seq(Calls)
      /\ order' = [order EXCEPT ![a] = Append(@, c)]
      /\ stage[c] = "body" /\ stage' = [stage EXCEPT ![c] = "upstream"] /\ mode = "live"
      /\ UNCHANGED <<mode, file, lost>>
  BY CallAssumption DEF Forward, Number, RecordInv, RecordTypeOK
<1>2. c \notin Numbered
  BY <1>1 DEF RecordInv
<1>3. /\ order'[a] = Append(order[a], c) /\ \A b \in Agents \ {a} : order'[b] = order[b]
      /\ order' \in [Agents -> Seq(Calls)]
      /\ Len(order[a]) \in Nat /\ DOMAIN order'[a] = 1 .. Len(order[a]) + 1
      /\ DOMAIN order[a] = 1 .. Len(order[a])
      /\ \A i \in DOMAIN order[a] : order'[a][i] = order[a][i]
      /\ order'[a][Len(order[a]) + 1] = c
  BY <1>1 DEF RecordInv, RecordTypeOK
<1>4. \A d \in Calls : d \in Numbered' <=> d \in Numbered \/ d = c
  <2>1. ASSUME NEW d \in Calls, AgentOf[d] # a PROVE d \in Numbered' <=> d \in Numbered \/ d = c
    BY <1>3, <2>1, CallAssumption DEF Numbered
  <2>2. ASSUME NEW d \in Calls, AgentOf[d] = a PROVE d \in Numbered' <=> d \in Numbered \/ d = c
    <3>1. d \in Numbered' <=> \E i \in 1 .. Len(order[a]) + 1 : order'[a][i] = d
      BY <1>3, <2>2 DEF Numbered
    <3>2. d \in Numbered <=> \E i \in 1 .. Len(order[a]) : order[a][i] = d
      BY <1>3, <2>2 DEF Numbered
    <3>3. \A i \in 1 .. Len(order[a]) + 1 : i \in 1 .. Len(order[a]) \/ i = Len(order[a]) + 1
      BY <1>3
    <3>4. QED
      BY <1>3, <3>1, <3>2, <3>3
  <2>3. QED
    BY <2>1, <2>2
<1>5. \A d \in Calls : LinesOf(d)' = LinesOf(d)
  BY <1>1 DEF LinesOf, AnswerLines
<1>6. \A d \in Calls : d # c => stage'[d] = stage[d]
  BY <1>1 DEF SlotTypeOK
<1>7. stage'[c] = "upstream"
  BY <1>1 DEF SlotTypeOK
<1>8. \A d \in Calls : Accounted(d)'
  BY <1>1, <1>2, <1>4, <1>5, <1>6, <1>7 DEF RecordInv, Accounted, InFlight
<1>9. /\ \A i \in DOMAIN order'[a] : AgentOf[order'[a][i]] = a
      /\ \A i, j \in DOMAIN order'[a] : order'[a][i] = order'[a][j] => i = j
  <2>1. \A i \in DOMAIN order'[a] : i \in DOMAIN order[a] \/ i = Len(order[a]) + 1
    BY <1>3
  <2>2. \A i \in DOMAIN order[a] : order[a][i] # c
    BY <1>2 DEF Numbered
  <2>3. QED
    BY <1>1, <1>3, <2>1, <2>2 DEF RecordInv
<1>10. RecordTypeOK'
  BY <1>1, <1>3 DEF RecordInv, RecordTypeOK
<1>11. QED
  BY <1>1, <1>3, <1>4, <1>6, <1>7, <1>8, <1>9, <1>10 DEF RecordInv, InFlight

LEMMA EndStep ==
    ASSUME RecordInv, SlotTypeOK, NEW c \in Calls, stage[c] \in InFlight, EndCall(c)
    PROVE  RecordInv'
<1> DEFINE a == AgentOf[c]
           f == file'[a]
           g == file[a]
<1>1. /\ a \in Agents /\ RecordTypeOK
      /\ stage' = [stage EXCEPT ![c] = "served"] /\ Record(c) /\ UNCHANGED <<mode, order>>
  BY CallAssumption DEF RecordInv, EndCall
<1>2. \E lines : OwnLines(c, lines) /\ Appends(c, lines)
  BY <1>1, Recorded
<1>3. /\ file' \in [Agents -> Seq(Lines)]
      /\ \A b \in Agents \ {a} : file'[b] = file[b]
      /\ NewLines(c, f, g)
      /\ \/ lost' = lost /\ OneIsOwn(f, g)
         \/ lost' = lost \cup {c} /\ NoneIsOwn(f, g)
  BY <1>1, <1>2, Appended
<1>4. Numbered' = Numbered /\ c \in Numbered
  BY <1>1 DEF Numbered, RecordInv
<1>5. /\ DOMAIN g = 1 .. Len(g) /\ DOMAIN f = 1 .. Len(f) /\ Len(f) >= Len(g)
      /\ Len(f) \in Nat /\ Len(g) \in Nat /\ \A i \in DOMAIN g : i \in DOMAIN f /\ f[i] = g[i]
      /\ \A i \in DOMAIN f : i \in DOMAIN g \/ (i > Len(g) /\ f[i].call = c)
  <2>1. f \in Seq(Lines) /\ g \in Seq(Lines)
    BY <1>1, <1>3 DEF NewLines, RecordTypeOK
  <2>2. DOMAIN g = 1 .. Len(g) /\ DOMAIN f = 1 .. Len(f) /\ Len(f) \in Nat /\ Len(g) \in Nat
    BY <2>1
  <2>3. /\ Len(f) >= Len(g) /\ \A i \in 1 .. Len(g) : f[i] = g[i]
        /\ \A i \in DOMAIN f : i > Len(g) => f[i].call = c
    BY <1>3 DEF NewLines
  <2> HIDE DEF f, g
  <2>4. QED
    BY <2>2, <2>3
<1>6. ASSUME NEW d \in Calls, d # c PROVE Accounted(d)'
  <2>1. LinesOf(d)' = LinesOf(d)
    <3>1. CASE AgentOf[d] = a
      <4>1. LinesOf(d) = {i \in DOMAIN g : g[i].kind # "note" /\ g[i].call = d}
        BY <3>1 DEF LinesOf, AnswerLines
      <4>2. LinesOf(d)' = {i \in DOMAIN f : f[i].kind # "note" /\ f[i].call = d}
        BY <3>1 DEF LinesOf, AnswerLines
      <4> HIDE DEF f, g
      <4>3. QED
        BY <1>5, <1>6, <4>1, <4>2
    <3>2. CASE AgentOf[d] # a
      BY <1>3, <3>2, CallAssumption DEF LinesOf, AnswerLines
    <3>3. QED
      BY <3>1, <3>2
  <2>2. stage'[d] = stage[d] /\ (d \in lost' <=> d \in lost)
    BY <1>1, <1>3, <1>6 DEF SlotTypeOK
  <2>3. QED
    BY <1>4, <2>1, <2>2 DEF RecordInv, Accounted
<1>7. Accounted(c)'
  <2>1. LinesOf(c) = {} /\ c \notin lost
    BY DEF RecordInv, Accounted
  <2>2. stage'[c] = "served"
    BY <1>1 DEF SlotTypeOK
  <2>3. \A i \in DOMAIN g : g[i].kind # "note" => g[i].call # c
    BY <2>1 DEF LinesOf, AnswerLines
  <2>4. LinesOf(c)' = {i \in DOMAIN f : f[i].kind # "note" /\ f[i].call = c}
    BY DEF LinesOf, AnswerLines
  <2>5. LinesOf(c)' = {i \in DOMAIN f : i > Len(g) /\ f[i].kind # "note"}
    <3> HIDE DEF f, g
    <3>1. QED
      BY <1>5, <2>3, <2>4
  <2>6. CASE lost' = lost /\ OneIsOwn(f, g)
    <3>1. PICK m \in DOMAIN f : m > Len(g) /\ \A i \in DOMAIN f : i > Len(g) => (f[i].kind # "note" <=> i = m)
      BY <2>6 DEF OneIsOwn
    <3>2. LinesOf(c)' = {m}
      BY <2>5, <3>1
    <3>3. QED
      BY <1>4, <2>1, <2>2, <2>6, <3>2 DEF Accounted, InFlight
  <2>7. CASE lost' = lost \cup {c} /\ NoneIsOwn(f, g)
    <3>1. LinesOf(c)' = {}
      BY <2>5, <2>7 DEF NoneIsOwn
    <3>2. QED
      BY <1>4, <2>2, <2>7, <3>1 DEF Accounted, InFlight
  <2>8. QED
    BY <1>3, <2>6, <2>7
<1>8. \A b \in Agents : \A i \in DOMAIN file'[b] : AgentOf[file'[b][i].call] = b
  <2>1. \A i \in DOMAIN f : AgentOf[f[i].call] = a
    BY <1>1, <1>5 DEF RecordInv
  <2>2. QED
    BY <1>3, <2>1 DEF RecordInv
<1>9. RecordTypeOK'
  BY <1>1, <1>3 DEF RecordTypeOK
<1>10. \A d \in Calls : stage'[d] = IF d = c THEN "served" ELSE stage[d]
  BY <1>1 DEF SlotTypeOK
<1>11. \A d \in Calls : Accounted(d)'
  BY <1>6, <1>7
<1>12. QED
  BY <1>1, <1>4, <1>8, <1>9, <1>10, <1>11 DEF RecordInv, InFlight

\* A restart loses the calls in flight; a replay starts when there are none.
LEMMA NewProcessStep == RecordInv /\ SlotTypeOK /\ (Restart \/ StartReplay) => RecordInv'
<1> SUFFICES ASSUME RecordInv, SlotTypeOK, Restart \/ StartReplay PROVE RecordInv'
  OBVIOUS
<1>1. UNCHANGED <<file, order>>
  BY DEF Restart, StartReplay
<1>2. Numbered' = Numbered /\ \A c \in Calls : LinesOf(c)' = LinesOf(c)
  BY <1>1 DEF Numbered, LinesOf, AnswerLines
<1>3. CASE Restart
  <2>1. /\ mode = "live" /\ mode' = mode
        /\ stage' = [c \in Calls |-> IF stage[c] \in InFlight \cup {"body"} THEN "gone" ELSE stage[c]]
        /\ lost' = lost \cup {c \in Calls : stage[c] \in InFlight}
    BY <1>3 DEF Restart
  <2>2. \A c \in Calls : /\ stage'[c] \notin InFlight
                         /\ stage'[c] \in {"new", "body"} => stage[c] = "new"
    BY <2>1 DEF InFlight
  <2>3. \A c \in Calls : c \in lost' <=> c \in lost \/ stage[c] \in InFlight
    BY <2>1
  <2>4. \A c \in Calls : Accounted(c)'
    BY <1>2, <2>2, <2>3 DEF RecordInv, Accounted
  <2>5. RecordTypeOK'
    BY <1>1, <2>1 DEF RecordInv, RecordTypeOK
  <2>6. QED
    BY <1>1, <1>2, <2>1, <2>2, <2>4, <2>5 DEF RecordInv
<1>4. CASE StartReplay
  <2>1. /\ mode' = "replay" /\ lost' = lost
        /\ \A c \in Calls : stage[c] \notin InFlight
        /\ \A c \in Calls : stage'[c] \notin InFlight
    BY <1>4 DEF StartReplay, InFlight
  <2>2. \A c \in Calls : Accounted(c)'
    BY <1>2, <2>1 DEF RecordInv, Accounted
  <2>3. RecordTypeOK'
    BY <1>1, <2>1 DEF RecordInv, RecordTypeOK
  <2>4. QED
    BY <1>1, <1>2, <2>1, <2>2, <2>3 DEF RecordInv
<1>5. QED
  BY <1>3, <1>4

LEMMA ReplayKeeps ==
    ASSUME SlotTypeOK, NEW c \in Calls, Replay(c)
    PROVE  KeepsCalls
<1>1. PICK s \in {"served", "refused"} : stage' = [stage EXCEPT ![c] = s]
  BY DEF Replay
<1>2. stage[c] = "body" /\ UNCHANGED <<mode, file, order, lost>>
  BY DEF Replay, Number, history
<1>3. QED
  BY <1>1, <1>2 DEF KeepsCalls, SlotTypeOK, InFlight

LEMMA RecordStep == RecordInv /\ SlotInv /\ [Next]_vars => RecordInv'
<1> SUFFICES ASSUME RecordInv, SlotTypeOK, [Next]_vars PROVE RecordInv'
  BY DEF SlotInv
<1>1. CASE Tick \/ UNCHANGED vars
  <2>1. KeepsCalls
    BY <1>1 DEF Tick, vars, history, KeepsCalls
  <2>2. QED
    BY <2>1, KeptCalls
<1>2. CASE Restart \/ StartReplay
  BY <1>2, NewProcessStep
<1>3. ASSUME NEW c \in Calls, Handle(c) PROVE RecordInv'
  <2>1. CASE Quiet(c)
    BY <2>1, QuietKeeps, KeptCalls
  <2>2. CASE Forward(c)
    BY <2>2, ForwardStep
  <2>3. CASE Replay(c)
    BY <2>3, ReplayKeeps, KeptCalls
  <2>4. CASE Answered(c) \/ Aborted(c) \/ StreamEnds(c)
    <3>1. stage[c] \in InFlight /\ EndCall(c)
      BY <2>4 DEF Answered, Aborted, StreamEnds, InFlight
    <3>2. QED
      BY <3>1, EndStep
  <2>5. QED
    BY <1>3, <2>1, <2>2, <2>3, <2>4 DEF Handle, Quiet
<1>4. QED
  BY <1>1, <1>2, <1>3 DEF Next

LEMMA RecordStart == Init => RecordInv
<1> SUFFICES ASSUME Init PROVE RecordInv
  OBVIOUS
<1>1. /\ mode = "live" /\ lost = {} /\ \A c \in Calls : stage[c] = "new"
      /\ file = [a \in Agents |-> <<>>] /\ order = [a \in Agents |-> <<>>]
  BY DEF Init
<1>2. RecordTypeOK
  BY <1>1 DEF RecordTypeOK
<1>3. \A a \in Agents : DOMAIN order[a] = {} /\ DOMAIN file[a] = {}
  BY <1>1
<1>4. Numbered = {} /\ \A c \in Calls : LinesOf(c) = {}
  BY <1>3, CallAssumption DEF Numbered, LinesOf, AnswerLines
<1>5. \A c \in Calls : Accounted(c)
  BY <1>1, <1>4 DEF Accounted
<1>6. QED
  BY <1>1, <1>2, <1>3, <1>4, <1>5 DEF RecordInv, InFlight

\* However a forwarded call ends - answered, broken off, stopped by a timer or by its agent leaving,
\* past a cap - it leaves one line, or none if its append failed or its process died.
THEOREM OneLineEach == Spec => []OneLinePerCall
<1>1. RecordInv => OneLinePerCall
  <2> SUFFICES ASSUME RecordInv, NEW a \in Agents, NEW i \in DOMAIN order[a], stage[order[a][i]] \notin InFlight
               PROVE  Cardinality(LinesOf(order[a][i])) = IF order[a][i] \in lost THEN 0 ELSE 1
    BY DEF OneLinePerCall
  <2> DEFINE c == order[a][i]
  <2>1. c \in Calls /\ c \in Numbered
    BY DEF RecordInv, RecordTypeOK, Numbered
  <2>2. Accounted(c)
    BY <2>1 DEF RecordInv
  <2>3. CASE c \in lost
    BY <2>2, <2>3, FS_EmptySet DEF Accounted
  <2>4. CASE c \notin lost
    BY <2>1, <2>2, <2>4, FS_Singleton DEF Accounted
  <2>5. QED
    BY <2>3, <2>4
<1>2. QED
  BY <1>1, RecordStart, RecordStep, SlotStart, SlotStep, PTL DEF Spec

-----------------------------------------------------------------------------
(* The replay *)

SerialTypeOK ==
    /\ answer \in [Calls -> Calls \cup {None}]
    /\ seq \in [Agents -> Nat]
    /\ queue \in [Agents -> SUBSET Nat]

\* Of an agent that waits for each answer only the last call is in flight, and its lines are in the
\* order of its calls.
LastInFlight(a) == \A k \in DOMAIN order[a] : stage[order[a][k]] \in InFlight => k = Len(order[a])

Aligned(a) ==
    \A i, j \in AnswerLines(a), k, l \in DOMAIN order[a] :
        i < j /\ file[a][i].call = order[a][k] /\ file[a][j].call = order[a][l] => k < l

\* What is left of the file are the lines of the calls that are not repeated yet.
QueueIsAhead(a) ==
    \A i \in AnswerLines(a), k \in DOMAIN order[a] :
        file[a][i].call = order[a][k] => (i \in queue[a] <=> k > seq[a])

\* A call that is not repeated yet has no answer.
NoneAhead(a) ==
    /\ seq[a] <= Len(order[a])
    /\ \A k \in DOMAIN order[a] : k > seq[a] => answer[order[a][k]] = None

SerialInv ==
    /\ SerialTypeOK
    /\ mode = "live" => answer = [c \in Calls |-> None]
    /\ \A a \in Agents : a \notin overlapped => LastInFlight(a) /\ Aligned(a)
    /\ mode = "replay" =>
         \A a \in Agents : /\ queue[a] \subseteq AnswerLines(a)
                           /\ NoneAhead(a)
                           /\ a \notin overlapped /\ lost \cap Of(a) = {} => QueueIsAhead(a)
    /\ SerialRunReplays

KeepsSerial == KeepsCalls /\ UNCHANGED <<overlapped, answer, queue>> /\ UNCHANGED seq

LEMMA KeptSerial == SerialInv /\ RecordInv /\ KeepsSerial => SerialInv'
<1> SUFFICES ASSUME SerialInv, RecordInv, KeepsSerial PROVE SerialInv'
  OBVIOUS
<1> USE DEF KeepsSerial, KeepsCalls
<1>1. \A a \in Agents : AnswerLines(a)' = AnswerLines(a)
  BY DEF AnswerLines
<1>2. \A a \in Agents : /\ LastInFlight(a) => LastInFlight(a)'
                        /\ Aligned(a) => Aligned(a)'
                        /\ QueueIsAhead(a) => QueueIsAhead(a)'
                        /\ NoneAhead(a) => NoneAhead(a)'
  BY <1>1 DEF LastInFlight, Aligned, QueueIsAhead, NoneAhead, RecordInv, RecordTypeOK
<1>3. SerialTypeOK' /\ SerialRunReplays'
  <2>1. \A c \in Calls : KeptInFull(c)' = KeptInFull(c)
    BY CallAssumption, <1>1 DEF KeptInFull, LinesOf
  <2>2. ASSUME mode = "replay", NEW a \in Agents, NEW i \in 1 .. seq[a] PROVE order[a][i] \in Calls
    <3>1. order[a] \in Seq(Calls) /\ seq[a] <= Len(order[a]) /\ seq[a] \in Nat
      BY <2>2 DEF SerialInv, SerialTypeOK, NoneAhead, RecordInv, RecordTypeOK
    <3>2. QED
      BY <3>1
  <2>3. QED
    BY <2>1, <2>2 DEF SerialInv, SerialTypeOK, SerialRunReplays, Of
<1>4. QED
  BY <1>1, <1>2, <1>3 DEF SerialInv

LEMMA SerialForward ==
    ASSUME SerialInv, RecordInv, SlotTypeOK, NEW c \in Calls, Forward(c)
    PROVE  SerialInv'
<1> DEFINE a == AgentOf[c]
<1>1. /\ a \in Agents /\ stage[c] = "body" /\ stage' = [stage EXCEPT ![c] = "upstream"] /\ mode = "live"
      /\ UNCHANGED <<mode, file, lost, queue, answer>> /\ seq' = [seq EXCEPT ![a] = @ + 1]
      /\ overlapped' = IF \E d \in Of(a) : stage[d] \in InFlight THEN overlapped \cup {a} ELSE overlapped
  BY CallAssumption DEF Forward, Number, replayVars
<1>2. order'[a] = Append(order[a], c) /\ \A b \in Agents \ {a} : order'[b] = order[b]
  BY ForwardStep
<1>3. /\ DOMAIN order[a] = 1 .. Len(order[a]) /\ DOMAIN order'[a] = 1 .. Len(order[a]) + 1
      /\ Len(order[a]) \in Nat /\ Len(order'[a]) = Len(order[a]) + 1
      /\ \A k \in DOMAIN order[a] : order'[a][k] = order[a][k] /\ order[a][k] \in Calls
      /\ order'[a][Len(order[a]) + 1] = c
      /\ \A k \in DOMAIN order'[a] : k \in DOMAIN order[a] \/ k = Len(order[a]) + 1
  <2>1. order[a] \in Seq(Calls)
    BY <1>1 DEF RecordInv, RecordTypeOK
  <2>2. QED
    BY <1>2, <2>1
<1>4. \A d \in Calls : stage'[d] = IF d = c THEN "upstream" ELSE stage[d]
  BY <1>1 DEF SlotTypeOK
<1>5. c \notin Numbered /\ LinesOf(c) = {}
  BY <1>1 DEF RecordInv, Accounted
<1>6. \A b \in Agents : AnswerLines(b)' = AnswerLines(b)
  BY <1>1 DEF AnswerLines
<1>7. \A i \in AnswerLines(a) : file[a][i].call # c
  BY <1>5 DEF LinesOf
<1>8. ASSUME a \notin overlapped' PROVE LastInFlight(a)' /\ Aligned(a)'
  <2>1. a \notin overlapped /\ \A d \in Of(a) : stage[d] \notin InFlight
    BY <1>1, <1>8
  <2>2. \A k \in DOMAIN order[a] : order[a][k] \in Of(a) /\ order[a][k] # c
    BY <1>1, <1>3, <1>5 DEF RecordInv, Of, Numbered
  <2>3. LastInFlight(a)'
    BY <1>3, <1>4, <2>1, <2>2 DEF LastInFlight
  <2>4. Aligned(a)
    BY <1>1, <2>1 DEF SerialInv
  <2>5. Aligned(a)'
    BY <1>1, <1>3, <1>6, <1>7, <2>4 DEF Aligned
  <2>6. QED
    BY <2>3, <2>5
<1>9. ASSUME NEW b \in Agents, b # a, b \notin overlapped' PROVE LastInFlight(b)' /\ Aligned(b)'
  <2>1. LastInFlight(b) /\ Aligned(b) /\ order'[b] = order[b]
    BY <1>1, <1>2, <1>9 DEF SerialInv
  <2>2. \A k \in DOMAIN order[b] : order[b][k] # c /\ order[b][k] \in Calls
    BY <1>9 DEF RecordInv, RecordTypeOK
  <2>3. LastInFlight(b)'
    BY <1>4, <2>1, <2>2 DEF LastInFlight
  <2>4. Aligned(b)'
    BY <1>1, <1>6, <2>1 DEF Aligned
  <2>5. QED
    BY <2>3, <2>4
<1>10. SerialTypeOK' /\ SerialRunReplays' /\ answer = [d \in Calls |-> None]
  BY <1>1 DEF SerialInv, SerialTypeOK, SerialRunReplays
<1>11. QED
  BY <1>1, <1>8, <1>9, <1>10 DEF SerialInv

LEMMA SerialEnd ==
    ASSUME SerialInv, RecordInv, SlotTypeOK, NEW c \in Calls, stage[c] \in InFlight, EndCall(c)
    PROVE  SerialInv'
<1> DEFINE a == AgentOf[c]
           f == file'[a]
           g == file[a]
<1>1. /\ a \in Agents /\ RecordTypeOK /\ mode = "live" /\ mode' = mode
      /\ stage' = [stage EXCEPT ![c] = "served"] /\ Record(c)
      /\ UNCHANGED <<order, seq, queue, answer, overlapped>>
  BY CallAssumption DEF RecordInv, RecordTypeOK, EndCall, replayVars
<1>2. \E lines : OwnLines(c, lines) /\ Appends(c, lines)
  BY <1>1, Recorded
<1>3. /\ \A b \in Agents \ {a} : file'[b] = file[b]
      /\ NewLines(c, f, g)
      /\ OneIsOwn(f, g) \/ NoneIsOwn(f, g)
  BY <1>1, <1>2, Appended
<1>4. \A d \in Calls : stage'[d] \in InFlight => d # c /\ stage[d] \in InFlight
  BY <1>1 DEF SlotTypeOK, InFlight
<1>5. \A b \in Agents : LastInFlight(b) => LastInFlight(b)'
  BY <1>1, <1>4 DEF LastInFlight, RecordTypeOK
<1>6. \A b \in Agents \ {a} : Aligned(b) => Aligned(b)'
  BY <1>1, <1>3 DEF Aligned, AnswerLines
<1>7. ASSUME a \notin overlapped PROVE Aligned(a)'
  <2>1. Aligned(a) /\ LastInFlight(a)
    BY <1>1, <1>7 DEF SerialInv
  <2>2. /\ DOMAIN g = 1 .. Len(g) /\ DOMAIN f = 1 .. Len(f) /\ Len(g) \in Nat /\ Len(f) \in Nat
        /\ \A i \in 1 .. Len(g) : f[i] = g[i]
        /\ \A i \in DOMAIN f : i > Len(g) => f[i].call = c
    BY <1>1, <1>3 DEF NewLines, RecordTypeOK
  <2>3. /\ \A i \in AnswerLines(a)' : i \in AnswerLines(a) \/ (i > Len(g) /\ f[i].call = c)
        /\ \A i \in AnswerLines(a) : f[i] = g[i] /\ i <= Len(g)
        /\ \A i \in AnswerLines(a)' : i \in Nat /\ i \in DOMAIN f /\ f[i].kind # "note"
    <3>1. AnswerLines(a) = {i \in DOMAIN g : g[i].kind # "note"}
      BY DEF AnswerLines
    <3>2. AnswerLines(a)' = {i \in DOMAIN f : f[i].kind # "note"}
      BY DEF AnswerLines
    <3> HIDE DEF f, g
    <3>3. QED
      BY <2>2, <3>1, <3>2
  <2>4. \A i, j \in AnswerLines(a)' : i > Len(g) /\ j > Len(g) => i = j
    BY <1>3, <2>3 DEF OneIsOwn, NoneIsOwn
  <2>5. \A i \in AnswerLines(a) : g[i].call # c
    BY DEF RecordInv, Accounted, LinesOf
  <2>6. /\ DOMAIN order[a] = 1 .. Len(order[a]) /\ Len(order[a]) \in Nat
        /\ \A k \in DOMAIN order[a] : order[a][k] = c => k = Len(order[a])
    BY <1>1, <2>1 DEF RecordTypeOK, LastInFlight
  <2>7. ASSUME NEW i \in AnswerLines(a)', NEW j \in AnswerLines(a)',
               NEW k \in DOMAIN order[a], NEW l \in DOMAIN order[a],
               i < j, f[i].call = order[a][k], f[j].call = order[a][l]
        PROVE  k < l
    <3>1. i \in AnswerLines(a)
      <4> HIDE DEF f, g
      <4>1. QED
        BY <2>2, <2>3, <2>4, <2>7
    <3>2. CASE j \in AnswerLines(a)
      BY <2>1, <2>3, <2>7, <3>1, <3>2 DEF Aligned
    <3>3. CASE j \notin AnswerLines(a)
      <4>1. f[j].call = c /\ f[i].call # c
        BY <2>3, <2>5, <2>7, <3>1, <3>3
      <4>2. l = Len(order[a]) /\ k # l
        BY <2>6, <2>7, <4>1
      <4>3. QED
        BY <2>6, <4>2
    <3>4. QED
      BY <3>2, <3>3
  <2>8. QED
    BY <1>1, <2>7 DEF Aligned
<1>8. SerialTypeOK' /\ answer' = answer /\ mode' = mode
  BY <1>1 DEF SerialInv, SerialTypeOK
<1>9. SerialRunReplays' /\ answer = [d \in Calls |-> None]
  BY <1>1 DEF SerialInv, SerialRunReplays
<1>10. QED
  BY <1>1, <1>5, <1>6, <1>7, <1>8, <1>9 DEF SerialInv

\* The natural numbers are well ordered.
LEMMA LeastNatural ==
    ASSUME NEW T, T \subseteq Nat, T # {}
    PROVE  \E i \in T : \A j \in T : i <= j
<1> DEFINE Less == {ss \in Nat \X Nat : ss[1] < ss[2]}
<1>1. IsWellFoundedOn(Less, Nat)
  BY NatLessThanWellFounded, Zenon DEF OpToRel
<1>2. PICK i \in T : \A j \in T : <<j, i>> \notin Less
  BY <1>1, WFMin
<1>3. ASSUME NEW j \in T PROVE i <= j
  <2>1. i \in Nat /\ j \in Nat /\ (j < i => <<j, i>> \in Less)
    OBVIOUS
  <2>2. ~(j < i)
    BY <1>2, <2>1
  <2>3. QED
    BY <2>1, <2>2
<1>4. QED
  BY <1>3

\* The line served to the next call of a serial agent whose lines were all written is that call's.
LEMMA ServedInOrder ==
    ASSUME SerialInv, RecordInv, NEW c \in Calls, Replay(c),
           AgentOf[c] \notin overlapped, lost \cap Of(AgentOf[c]) = {}
    PROVE  LET a == AgentOf[c] IN
           /\ queue[a] # {} /\ NextLine(a) \in queue[a]
           /\ file[a][NextLine(a)].call = c
<1> DEFINE a == AgentOf[c]
           k == seq[a] + 1
<1>1. /\ a \in Agents /\ mode = "replay" /\ seq[a] \in Nat /\ order[a] \in Seq(Calls)
      /\ queue[a] \subseteq AnswerLines(a) /\ queue[a] \subseteq Nat /\ QueueIsAhead(a) /\ Aligned(a)
      /\ seq[a] < Len(order[a]) /\ order[a][k] = c /\ file[a] \in Seq(Lines)
  BY CallAssumption DEF Replay, SerialInv, SerialTypeOK, RecordInv, RecordTypeOK
<1>2. k \in DOMAIN order[a] /\ k \in Nat /\ k > seq[a]
  BY <1>1
<1>3. PICK j : LinesOf(c) = {j}
  <2>1. c \in Numbered /\ stage[c] \notin InFlight /\ c \notin lost
    BY <1>1, <1>2 DEF Numbered, RecordInv, Of
  <2>2. QED
    BY <2>1 DEF RecordInv, Accounted
<1>4. j \in AnswerLines(a) /\ file[a][j].call = c
  BY <1>3 DEF LinesOf
<1>5. j \in queue[a]
  BY <1>1, <1>2, <1>4 DEF QueueIsAhead
<1>6. PICK i \in queue[a] : i = NextLine(a) /\ \A m \in queue[a] : i <= m
  <2>1. \E i \in queue[a] : \A m \in queue[a] : i <= m
    BY <1>1, <1>5, LeastNatural
  <2>2. QED
    BY <2>1 DEF NextLine
<1>7. i \in AnswerLines(a) /\ file[a][i].call \in Calls /\ AgentOf[file[a][i].call] = a
  <2>1. i \in AnswerLines(a) /\ i \in DOMAIN file[a]
    BY <1>1, <1>6 DEF AnswerLines
  <2>2. file[a][i] \in Lines
    BY <1>1, <2>1
  <2>3. QED
    BY <1>1, <2>1, <2>2 DEF Lines, RecordInv
<1>8. PICK l \in DOMAIN order[a] : order[a][l] = file[a][i].call
  <2>1. LinesOf(file[a][i].call) # {}
    BY <1>7 DEF LinesOf
  <2>2. QED
    BY <1>7, <2>1 DEF RecordInv, Accounted, Numbered
<1>9. l > seq[a] /\ l \in Nat
  BY <1>1, <1>6, <1>7, <1>8 DEF QueueIsAhead
<1>10. i <= j /\ i \in Nat /\ j \in Nat /\ (i < j => l < k)
  BY <1>1, <1>2, <1>4, <1>5, <1>6, <1>7, <1>8 DEF Aligned
<1>11. i = j
  BY <1>1, <1>9, <1>10
<1>12. QED
  BY <1>4, <1>5, <1>6, <1>11

LEMMA SerialReplay ==
    ASSUME SerialInv, RecordInv, SlotTypeOK, NEW c \in Calls, Replay(c)
    PROVE  SerialInv'
<1> DEFINE a == AgentOf[c]
<1>1. /\ a \in Agents /\ mode = "replay" /\ UNCHANGED <<mode, file, order, lost, overlapped>>
      /\ seq' = [seq EXCEPT ![a] = @ + 1] /\ seq[a] \in Nat /\ order[a] \in Seq(Calls)
      /\ seq[a] < Len(order[a]) /\ order[a][seq[a] + 1] = c
      /\ queue' = [queue EXCEPT ![a] = IF queue[a] = {} THEN queue[a] ELSE queue[a] \ {NextLine(a)}]
      /\ \/ answer' = answer
         \/ queue[a] # {} /\ answer' = [answer EXCEPT ![c] = file[a][NextLine(a)].call]
  BY CallAssumption DEF Replay, Number, history, SerialInv, SerialTypeOK, RecordInv, RecordTypeOK
<1>2. \A b \in Agents : AnswerLines(b)' = AnswerLines(b)
  BY <1>1 DEF AnswerLines
<1>3. \A d \in Calls : stage'[d] \notin InFlight
  <2>1. PICK s \in {"served", "refused"} : stage' = [stage EXCEPT ![c] = s]
    BY DEF Replay
  <2>2. QED
    BY <1>1, <2>1 DEF RecordInv, SlotTypeOK, InFlight
<1>4. \A b \in Agents : LastInFlight(b)' /\ (Aligned(b) => Aligned(b)')
  BY <1>1, <1>2, <1>3 DEF LastInFlight, Aligned, RecordInv, RecordTypeOK
<1>5. queue[a] # {} => NextLine(a) \in queue[a] /\ NextLine(a) \in AnswerLines(a)
  <2>1. queue[a] \subseteq Nat /\ queue[a] \subseteq AnswerLines(a)
    BY <1>1 DEF SerialInv, SerialTypeOK
  <2>2. queue[a] # {} => \E i \in queue[a] : \A m \in queue[a] : i <= m
    BY <2>1, LeastNatural
  <2>3. QED
    BY <2>1, <2>2 DEF NextLine
<1>6. SerialTypeOK'
  <2>1. queue[a] # {} => file[a][NextLine(a)].call \in Calls
    <3>1. queue[a] # {} => NextLine(a) \in DOMAIN file[a]
      BY <1>5 DEF AnswerLines
    <3>2. file[a] \in Seq(Lines)
      BY <1>1 DEF RecordInv, RecordTypeOK
    <3>3. queue[a] # {} => file[a][NextLine(a)] \in Lines
      BY <3>1, <3>2
    <3>4. QED
      BY <3>3 DEF Lines
  <2>2. answer' \in [Calls -> Calls \cup {None}]
    BY <1>1, <2>1 DEF SerialInv, SerialTypeOK
  <2>3. QED
    BY <1>1, <2>2 DEF SerialInv, SerialTypeOK
<1>7. \A b \in Agents \ {a} : queue'[b] = queue[b] /\ seq'[b] = seq[b]
  BY <1>1 DEF SerialInv, SerialTypeOK
<1>8. \A b \in Agents : queue'[b] \subseteq AnswerLines(b)
  BY <1>1, <1>7 DEF SerialInv, SerialTypeOK
<1>9. ASSUME a \notin overlapped, lost \cap Of(a) = {} PROVE QueueIsAhead(a)'
  <2>1. queue[a] # {} /\ NextLine(a) \in queue[a] /\ file[a][NextLine(a)].call = c
    BY <1>9, ServedInOrder
  <2>2. queue'[a] = queue[a] \ {NextLine(a)} /\ seq'[a] = seq[a] + 1
    BY <1>1, <2>1 DEF SerialInv, SerialTypeOK
  <2>3. QueueIsAhead(a)
    BY <1>1, <1>9 DEF SerialInv
  <2>4. ASSUME NEW i \in AnswerLines(a), NEW k \in DOMAIN order[a], file[a][i].call = order[a][k]
        PROVE  i \in queue'[a] <=> k > seq'[a]
    <3>1. k \in Nat /\ (i \in queue[a] <=> k > seq[a])
      BY <1>1, <2>3, <2>4 DEF QueueIsAhead
    <3>2. seq[a] + 1 \in DOMAIN order[a]
      BY <1>1
    <3>3. k = seq[a] + 1 <=> order[a][k] = c
      BY <1>1, <3>2 DEF RecordInv
    <3>4. order[a][k] = c <=> i = NextLine(a)
      <4>1. PICK m : LinesOf(c) = {m} \/ LinesOf(c) = {}
        BY DEF RecordInv, Accounted
      <4>2. NextLine(a) \in LinesOf(c)
        BY <1>5, <2>1 DEF LinesOf
      <4>3. order[a][k] = c => i \in LinesOf(c)
        BY <2>4 DEF LinesOf
      <4>4. QED
        BY <2>1, <2>4, <4>1, <4>2, <4>3
    <3>5. QED
      BY <1>1, <2>2, <3>1, <3>3, <3>4
  <2>5. QED
    BY <1>1, <1>2, <2>4 DEF QueueIsAhead
<1>10. \A b \in Agents \ {a} : QueueIsAhead(b) => QueueIsAhead(b)'
  BY <1>1, <1>2, <1>7 DEF QueueIsAhead
<1>11. ASSUME NEW b \in Agents
       PROVE  /\ seq[b] <= Len(order[b]) /\ seq[b] \in Nat /\ order[b] \in Seq(Calls)
              /\ \A k \in DOMAIN order[b] : k > seq[b] => answer[order[b][k]] = None
              /\ \A k \in DOMAIN order[b] : order[b][k] = c <=> b = a /\ k = seq[a] + 1
  <2>1. /\ seq[b] <= Len(order[b]) /\ seq[b] \in Nat /\ order[b] \in Seq(Calls)
        /\ \A k \in DOMAIN order[b] : k > seq[b] => answer[order[b][k]] = None
    BY <1>1 DEF SerialInv, SerialTypeOK, NoneAhead, RecordInv, RecordTypeOK
  <2>2. seq[a] + 1 \in DOMAIN order[a]
    BY <1>1
  <2>3. \A k \in DOMAIN order[b] : order[b][k] = c <=> b = a /\ k = seq[a] + 1
    BY <1>1, <2>2 DEF RecordInv
  <2>4. QED
    BY <2>1, <2>3
<1>12. /\ \A d \in Calls : d # c => answer'[d] = answer[d]
       /\ \A d \in Calls : KeptInFull(d)' = KeptInFull(d)
  BY CallAssumption, <1>1, <1>2 DEF SerialInv, SerialTypeOK, KeptInFull, LinesOf
<1>13. ASSUME NEW b \in Agents PROVE NoneAhead(b)'
  <2>1. seq'[b] = seq[b] \/ (b = a /\ seq'[b] = seq[a] + 1)
    BY <1>1, <1>7 DEF SerialInv, SerialTypeOK
  <2>2. seq'[b] <= Len(order[b])
    BY <1>1, <1>11, <2>1
  <2>3. ASSUME NEW k \in DOMAIN order[b], k > seq'[b] PROVE answer'[order[b][k]] = None
    <3>1. k \in Nat /\ order[b][k] \in Calls
      BY <1>11
    <3>2. k > seq[b] /\ order[b][k] # c
      BY <1>1, <1>7, <1>11, <2>1, <2>3, <3>1 DEF SerialInv, SerialTypeOK
    <3>3. QED
      BY <1>11, <1>12, <3>1, <3>2
  <2>4. QED
    BY <1>1, <2>2, <2>3 DEF NoneAhead
<1>14. ASSUME a \notin overlapped, lost \cap Of(a) = {}
       PROVE  answer'[c] = IF KeptInFull(c) THEN c ELSE None
  <2>1. queue[a] # {} /\ NextLine(a) \in queue[a] /\ file[a][NextLine(a)].call = c
    BY <1>14, ServedInOrder
  <2>2. NextLine(a) \in LinesOf(c)
    BY <1>5, <2>1 DEF LinesOf
  <2>3. LinesOf(c) = {NextLine(a)}
    <3>1. PICK m : LinesOf(c) = {m} \/ LinesOf(c) = {}
      BY DEF RecordInv, Accounted
    <3>2. QED
      BY <2>2, <3>1
  <2>4. KeptInFull(c) <=> file[a][NextLine(a)].kind = "full"
    BY <2>3 DEF KeptInFull
  <2>5. answer[c] = None
    <3>1. seq[a] + 1 \in DOMAIN order[a] /\ seq[a] + 1 > seq[a]
      BY <1>1
    <3>2. QED
      BY <1>1, <1>11, <3>1
  <2>6. answer' = IF file[a][NextLine(a)].kind = "full"
                  THEN [answer EXCEPT ![c] = file[a][NextLine(a)].call] ELSE answer
    BY <2>1 DEF Replay
  <2>7. QED
    BY <2>1, <2>4, <2>5, <2>6 DEF SerialInv, SerialTypeOK
<1>15. SerialRunReplays'
  <2> SUFFICES ASSUME NEW b \in Agents, b \notin overlapped, lost \cap Of(b) = {},
                      NEW i \in 1 .. seq'[b]
               PROVE  answer'[order[b][i]] = IF KeptInFull(order[b][i]) THEN order[b][i] ELSE None
    <3>1. \A b \in Agents : NoneAhead(b)' /\ order[b] \in Seq(Calls) /\ seq'[b] \in Nat
      BY <1>1, <1>11, <1>13, <1>6 DEF SerialTypeOK
    <3>2. \A b \in Agents : \A i \in 1 .. seq'[b] : order[b][i] \in Calls
      BY <1>1, <3>1 DEF NoneAhead
    <3>3. QED
      BY <1>1, <1>12, <3>2 DEF SerialRunReplays, Of
  <2>1. /\ i \in Nat /\ seq[b] \in Nat /\ order[b] \in Seq(Calls)
        /\ i \in 1 .. seq[b] \/ (b = a /\ i = seq[a] + 1)
    BY <1>1, <1>7, <1>11 DEF SerialInv, SerialTypeOK
  <2>2. CASE i \in 1 .. seq[b]
    <3>1. i \in DOMAIN order[b] /\ order[b][i] \in Calls
      BY <1>11, <2>1, <2>2
    <3>2. order[b][i] # c
      BY <1>1, <1>11, <2>1, <2>2, <3>1
    <3>3. answer[order[b][i]] = IF KeptInFull(order[b][i]) THEN order[b][i] ELSE None
      BY <1>1, <2>2 DEF SerialInv, SerialRunReplays
    <3>4. QED
      BY <1>12, <3>1, <3>2, <3>3
  <2>3. CASE b = a /\ i = seq[a] + 1
    BY <1>1, <1>14, <2>3
  <2>4. QED
    BY <2>1, <2>2, <2>3
<1>16. QED
  BY <1>1, <1>2, <1>4, <1>6, <1>7, <1>8, <1>9, <1>10, <1>13, <1>15 DEF SerialInv, Of

\* A replay starts with every line before it and no call repeated.
LEMMA SerialNewProcess ==
    ASSUME SerialInv, RecordInv, SlotTypeOK, Restart \/ StartReplay
    PROVE  SerialInv'
<1>1. /\ UNCHANGED <<file, order, answer, overlapped>> /\ seq' = [a \in Agents |-> 0] /\ mode = "live"
      /\ answer = [c \in Calls |-> None]
  BY DEF Restart, StartReplay, NewProcess, replayVars, SerialInv
<1>2. \A b \in Agents : AnswerLines(b)' = AnswerLines(b)
  BY <1>1 DEF AnswerLines
<1>3. \A c \in Calls : stage'[c] \notin InFlight
  <2>1. CASE Restart
    BY <2>1 DEF Restart, InFlight
  <2>2. CASE StartReplay
    BY <2>2 DEF StartReplay, InFlight
  <2>3. QED
    BY <2>1, <2>2
<1>4. \A b \in Agents : LastInFlight(b)' /\ (Aligned(b) => Aligned(b)')
  BY <1>1, <1>2, <1>3 DEF LastInFlight, Aligned, RecordInv, RecordTypeOK
<1>5. SerialRunReplays'
  BY <1>1 DEF SerialRunReplays, Restart, StartReplay
<1>6. CASE Restart
  <2>1. mode' = "live" /\ queue' = queue
    BY <1>1, <1>6 DEF Restart, replayVars
  <2>2. SerialTypeOK'
    BY <1>1, <2>1 DEF SerialInv, SerialTypeOK
  <2>3. QED
    BY <1>1, <1>4, <1>5, <2>1, <2>2 DEF SerialInv
<1>7. CASE StartReplay
  <2>1. mode' = "replay" /\ queue' = [a \in Agents |-> AnswerLines(a)]
    BY <1>7 DEF StartReplay
  <2>2. \A a \in Agents : AnswerLines(a) \subseteq Nat
    BY DEF AnswerLines, RecordInv, RecordTypeOK
  <2>3. SerialTypeOK'
    BY <1>1, <2>1, <2>2 DEF SerialInv, SerialTypeOK
  <2>4. \A a \in Agents : order[a] \in Seq(Calls) /\ \A k \in DOMAIN order[a] : k > 0
    BY DEF RecordInv, RecordTypeOK
  <2>5. \A a \in Agents : queue'[a] \subseteq AnswerLines(a)' /\ QueueIsAhead(a)'
    BY <1>1, <1>2, <2>1, <2>4 DEF QueueIsAhead
  <2>6. \A a \in Agents : NoneAhead(a)'
    BY <1>1, <2>4 DEF NoneAhead
  <2>7. QED
    BY <1>1, <1>4, <1>5, <2>1, <2>3, <2>5, <2>6 DEF SerialInv
<1>8. QED
  BY <1>6, <1>7

LEMMA SerialStep == SerialInv /\ RecordInv /\ SlotInv /\ [Next]_vars => SerialInv'
<1> SUFFICES ASSUME SerialInv, RecordInv, SlotTypeOK, [Next]_vars PROVE SerialInv'
  BY DEF SlotInv
<1>1. CASE Tick \/ UNCHANGED vars
  <2>1. KeepsSerial
    BY <1>1 DEF Tick, vars, process, replayVars, history, KeepsSerial, KeepsCalls
  <2>2. QED
    BY <2>1, KeptSerial
<1>2. CASE Restart \/ StartReplay
  BY <1>2, SerialNewProcess
<1>3. ASSUME NEW c \in Calls, Handle(c) PROVE SerialInv'
  <2>1. CASE Quiet(c)
    BY <2>1, QuietKeeps, KeptSerial DEF KeepsSerial
  <2>2. CASE Forward(c)
    BY <2>2, SerialForward
  <2>3. CASE Replay(c)
    BY <2>3, SerialReplay
  <2>4. CASE Answered(c) \/ Aborted(c) \/ StreamEnds(c)
    <3>1. stage[c] \in InFlight /\ EndCall(c)
      BY <2>4 DEF Answered, Aborted, StreamEnds, InFlight
    <3>2. QED
      BY <3>1, SerialEnd
  <2>5. QED
    BY <1>3, <2>1, <2>2, <2>3, <2>4 DEF Handle, Quiet
<1>4. QED
  BY <1>1, <1>2, <1>3 DEF Next

\* SerialRunReplays: an agent that waited for each answer, and whose lines were all written, is given
\* each of its recorded answers again, in the order of its calls, and none only where the record has a
\* stub, across restarts of the recording proxy.
THEOREM SerialReplaysExactly == Spec => []SerialRunReplays
<1>1. Init => SerialInv
  <2> SUFFICES ASSUME Init PROVE SerialInv
    OBVIOUS
  <2>1. /\ mode = "live" /\ answer = [c \in Calls |-> None] /\ seq = [a \in Agents |-> 0]
        /\ queue = [a \in Agents |-> {}] /\ file = [a \in Agents |-> <<>>] /\ order = [a \in Agents |-> <<>>]
    BY DEF Init
  <2>2. \A a \in Agents : DOMAIN order[a] = {}
    BY <2>1
  <2>3. \A a \in Agents : LastInFlight(a) /\ Aligned(a)
    BY <2>2 DEF LastInFlight, Aligned
  <2>4. SerialTypeOK /\ SerialRunReplays
    BY <2>1 DEF SerialTypeOK, SerialRunReplays
  <2>5. QED
    BY <2>1, <2>3, <2>4 DEF SerialInv
<1>2. SerialInv => SerialRunReplays
  BY DEF SerialInv
<1>3. QED
  BY <1>1, <1>2, SerialStep, RecordStart, RecordStep, SlotStart, SlotStep, PTL DEF Spec

-----------------------------------------------------------------------------
(* The rate *)

RateTypeOK ==
    /\ now \in Nat /\ at \in [Calls -> Int]
    /\ recent \in [Agents -> SUBSET [call : Calls, time : Int]]

\* A call that was counted less than a minute ago is still on its agent's list.
Listed(c) ==
    at[c] >= 0 /\ now - at[c] < Minute => [call |-> c, time |-> at[c]] \in recent[AgentOf[c]]

RateInv ==
    /\ RateTypeOK
    /\ \A c \in Calls : at[c] <= now
    /\ Limit > 0 => \A c \in Calls : Listed(c)
    /\ \A a \in Agents : IsFiniteSet(recent[a])
    /\ RateHolds

\* The calls counted in the minute that ends now are on the pruned list.
LEMMA ListBounds ==
    ASSUME RateInv, Limit > 0, NEW a \in Agents, NEW D \in SUBSET Of(a),
           \A d \in D : at[d] >= 0 /\ now - at[d] < Minute
    PROVE  /\ IsFiniteSet(D) /\ Cardinality(D) \in Nat
           /\ IsFiniteSet(LastMinute(a)) /\ Cardinality(LastMinute(a)) \in Nat
           /\ Cardinality(D) <= Cardinality(LastMinute(a))
<1> DEFINE entry == [d \in D |-> [call |-> d, time |-> at[d]]]
<1>1. D \subseteq Calls /\ IsFiniteSet(D)
  <2>1. D \in SUBSET Calls
    BY DEF Of
  <2>2. QED
    BY <2>1, CallAssumption, FS_Subset
<1>2. IsFiniteSet(LastMinute(a))
  <2>1. LastMinute(a) \in SUBSET recent[a] /\ IsFiniteSet(recent[a])
    BY DEF LastMinute, RateInv
  <2>2. QED
    BY <2>1, FS_Subset
<1>3. \A d \in D : [call |-> d, time |-> at[d]] \in LastMinute(a)
  BY DEF RateInv, Listed, LastMinute, Of
<1>4. entry \in Injection(D, LastMinute(a))
  <2>1. entry \in [D -> LastMinute(a)]
    BY <1>3
  <2>2. \A d, e \in D : entry[d] = entry[e] => d = e
    <3>1. \A d \in D : entry[d].call = d
      OBVIOUS
    <3>2. QED
      BY <3>1
  <2>3. QED
    BY <2>1, <2>2 DEF Injection, IsInjective
<1>5. Cardinality(D) <= Cardinality(LastMinute(a))
  <2> HIDE DEF entry
  <2> QED
    BY <1>2, <1>4, FS_Injection
<1>6. QED
  BY <1>1, <1>2, <1>5, FS_CardinalityType

InWindow(a, t) == {c \in Of(a) : at[c] \in t .. t + Minute - 1}

LEMMA ForwardRate ==
    ASSUME RateInv, NEW c \in Calls, Forward(c)
    PROVE  RateInv'
<1> DEFINE a == AgentOf[c]
           new == [call |-> c, time |-> now]
<1>1. /\ a \in Agents /\ now' = now /\ at' = [at EXCEPT ![c] = now]
      /\ recent' = IF Limit > 0 THEN [recent EXCEPT ![a] = LastMinute(a) \cup {new}] ELSE recent
      /\ Limit > 0 => Cardinality(LastMinute(a)) < Limit
  BY CallAssumption DEF Forward, Number
<1>2. \A d \in Calls : at'[d] = IF d = c THEN now ELSE at[d]
  BY <1>1 DEF RateInv, RateTypeOK
<1>3. LastMinute(a) \subseteq recent[a] /\ new \in [call : Calls, time : Int]
  BY DEF LastMinute, RateInv, RateTypeOK
<1>4. RateTypeOK'
  BY <1>1, <1>3 DEF RateInv, RateTypeOK
<1>5. \A d \in Calls : at'[d] <= now'
  BY <1>1, <1>2 DEF RateInv, RateTypeOK
<1>6. ASSUME Limit > 0, NEW d \in Calls PROVE Listed(d)'
  <2>1. CASE d = c
    BY <1>1, <1>2, <1>6, <2>1 DEF Listed, RateInv, RateTypeOK
  <2>2. CASE d # c /\ AgentOf[d] = a
    BY <1>1, <1>2, <1>6, <2>2 DEF Listed, LastMinute, RateInv, RateTypeOK
  <2>3. CASE d # c /\ AgentOf[d] # a
    BY <1>1, <1>2, <1>6, <2>3, CallAssumption DEF Listed, RateInv, RateTypeOK
  <2>4. QED
    BY <2>1, <2>2, <2>3
<1>7. \A b \in Agents : IsFiniteSet(recent'[b])
  <2>1. IsFiniteSet(LastMinute(a) \cup {new})
    <3>1. LastMinute(a) \in SUBSET recent[a] /\ IsFiniteSet(recent[a])
      BY <1>1, <1>3 DEF RateInv
    <3>2. IsFiniteSet(LastMinute(a))
      BY <3>1, FS_Subset
    <3>3. QED
      BY <3>2, FS_AddElement
  <2>2. QED
    BY <1>1, <2>1 DEF RateInv, RateTypeOK
<1>8. ASSUME Limit > 0, NEW b \in Agents, NEW t \in 0 .. MaxTime
      PROVE  Cardinality(InWindow(b, t)') <= Limit
  <2>1. Cardinality(InWindow(b, t)) <= Limit /\ IsFiniteSet(InWindow(b, t)) /\ Limit \in Nat /\ Minute \in Nat
    <3>1. InWindow(b, t) \in SUBSET Calls
      BY DEF InWindow, Of
    <3>2. IsFiniteSet(InWindow(b, t))
      BY <3>1, CallAssumption, FS_Subset
    <3>3. QED
      BY <1>8, <3>2, LimitAssumption DEF RateInv, RateHolds, InWindow
  <2>2. CASE c \notin InWindow(b, t)'
    <3>1. InWindow(b, t)' \in SUBSET InWindow(b, t)
      BY <1>2, <2>2 DEF InWindow, Of
    <3>2. Cardinality(InWindow(b, t)') <= Cardinality(InWindow(b, t)) /\ IsFiniteSet(InWindow(b, t)')
      BY <2>1, <3>1, FS_Subset
    <3>3. QED
      BY <2>1, <3>2, FS_CardinalityType
  <2>3. CASE c \in InWindow(b, t)'
    <3> DEFINE D == InWindow(b, t)' \ {c}
    <3>1. b = a /\ now \in t .. t + Minute - 1
      BY <1>2, <2>3 DEF InWindow, Of
    <3>2. D \in SUBSET Of(a) /\ \A d \in D : at[d] >= 0 /\ now - at[d] < Minute
      <4>1. D \in SUBSET Of(a)
        BY <3>1 DEF InWindow, Of
      <4>2. ASSUME NEW d \in D PROVE at[d] >= 0 /\ now - at[d] < Minute
        <5>1. d \in Calls /\ d # c /\ at'[d] \in t .. t + Minute - 1
          BY <4>2 DEF InWindow, Of
        <5>2. at[d] \in t .. t + Minute - 1 /\ t \in Nat /\ at[d] \in Int
          BY <1>2, <5>1 DEF RateInv, RateTypeOK
        <5>3. QED
          BY <2>1, <3>1, <5>2
      <4>3. QED
        BY <4>1, <4>2
    <3> HIDE DEF D
    <3>3. /\ IsFiniteSet(D) /\ Cardinality(D) \in Nat
          /\ Cardinality(LastMinute(a)) \in Nat /\ Cardinality(D) <= Cardinality(LastMinute(a))
      BY <1>1, <1>8, <3>2, ListBounds
    <3>4. InWindow(b, t)' = D \cup {c} /\ c \notin D
      BY <2>3 DEF D
    <3>5. Cardinality(D \cup {c}) = Cardinality(D) + 1
      BY <3>3, <3>4, FS_AddElement
    <3>6. QED
      BY <1>1, <1>8, <2>1, <3>3, <3>4, <3>5
  <2>4. QED
    BY <2>2, <2>3
<1>9. RateHolds'
  BY <1>8 DEF RateHolds, InWindow, Of
<1>10. QED
  BY <1>4, <1>5, <1>6, <1>7, <1>9 DEF RateInv

\* A list that is pruned, or grows while nothing is timed, still has what it must.
LEMMA ListedStill ==
    ASSUME RateInv, UNCHANGED <<now, at>>, recent' \in [Agents -> SUBSET [call : Calls, time : Int]],
           \A a \in Agents : LastMinute(a) \subseteq recent'[a] /\ IsFiniteSet(recent'[a])
    PROVE  RateInv'
<1>1. Limit > 0 => \A c \in Calls : Listed(c)'
  BY CallAssumption DEF RateInv, Listed, LastMinute
<1>2. RateTypeOK' /\ RateHolds'
  BY DEF RateInv, RateTypeOK, RateHolds, Of
<1>3. QED
  BY <1>1, <1>2 DEF RateInv

LEMMA RateStep == RateInv /\ [Next]_vars => RateInv'
<1> SUFFICES ASSUME RateInv, [Next]_vars PROVE RateInv'
  OBVIOUS
<1>1. ASSUME UNCHANGED <<now, at, recent>> PROVE RateInv'
  <2>1. recent \in [Agents -> SUBSET [call : Calls, time : Int]]
    BY DEF RateInv, RateTypeOK
  <2>2. \A a \in Agents : LastMinute(a) \subseteq recent[a] /\ IsFiniteSet(recent[a])
    BY DEF LastMinute, RateInv
  <2>3. QED
    BY <1>1, <2>1, <2>2, ListedStill
<1>2. CASE UNCHANGED vars
  BY <1>1, <1>2 DEF vars, process, history
<1>3. CASE Tick
  <2>1. now' = now + 1 /\ UNCHANGED <<at, recent>>
    BY <1>3 DEF Tick, process, history
  <2>2. RateTypeOK' /\ RateHolds'
    BY <2>1 DEF RateInv, RateTypeOK, RateHolds, Of
  <2>3. \A c \in Calls : at'[c] <= now' /\ (Limit > 0 => Listed(c)')
    BY <2>1, LimitAssumption DEF RateInv, RateTypeOK, Listed
  <2>4. QED
    BY <2>1, <2>2, <2>3 DEF RateInv
<1>4. CASE Restart \/ StartReplay
  <2>1. /\ now' \in {now, 0} /\ at' = [c \in Calls |-> -1] /\ recent' = [a \in Agents |-> {}]
    BY <1>4 DEF Restart, StartReplay, NewProcess
  <2>2. RateTypeOK' /\ \A c \in Calls : at'[c] = -1
    BY <2>1 DEF RateInv, RateTypeOK
  <2>3. \A a \in Agents : recent'[a] = {}
    BY <2>1
  <2>4. RateHolds'
    <3>1. \A a \in Agents, t \in 0 .. MaxTime : InWindow(a, t)' = {}
      BY <2>2, LimitAssumption DEF InWindow, Of
    <3>2. QED
      BY <3>1, FS_EmptySet, LimitAssumption DEF RateHolds, InWindow, Of
  <2>5. QED
    <3>1. \A c \in Calls : at'[c] <= now' /\ Listed(c)'
      BY <2>2 DEF RateTypeOK, Listed
    <3>2. \A a \in Agents : IsFiniteSet(recent'[a])
      BY <2>3, FS_EmptySet
    <3>3. QED
      BY <2>2, <2>4, <3>1, <3>2 DEF RateInv
<1>5. ASSUME NEW c \in Calls, Handle(c) PROVE RateInv'
  <2>1. CASE Forward(c)
    BY <2>1, ForwardRate
  <2>2. CASE RefuseRate(c) \/ Replay(c)
    <3> DEFINE a == AgentOf[c]
               new == [call |-> c, time |-> now]
    <3>1. /\ a \in Agents /\ UNCHANGED <<now, at>>
          /\ recent' \in {recent, [recent EXCEPT ![a] = LastMinute(a)],
                           [recent EXCEPT ![a] = LastMinute(a) \cup {new}]}
      BY <2>2, CallAssumption DEF RefuseRate, Replay, Number, history
    <3>2. \A b \in Agents : LastMinute(b) \in SUBSET recent[b] /\ IsFiniteSet(recent[b])
      BY DEF LastMinute, RateInv
    <3>3. \A b \in Agents : IsFiniteSet(LastMinute(b)) /\ IsFiniteSet(LastMinute(b) \cup {new})
      BY <3>2, FS_Subset, FS_AddElement
    <3>4. /\ recent \in [Agents -> SUBSET [call : Calls, time : Int]]
          /\ new \in [call : Calls, time : Int]
      BY DEF RateInv, RateTypeOK
    <3>5. recent' \in [Agents -> SUBSET [call : Calls, time : Int]]
      BY <3>1, <3>2, <3>4
    <3>6. \A b \in Agents : LastMinute(b) \subseteq recent'[b] /\ IsFiniteSet(recent'[b])
      BY <3>1, <3>2, <3>3, <3>4
    <3>7. QED
      BY <3>1, <3>5, <3>6, ListedStill
  <2>3. CASE Quiet(c) /\ ~RefuseRate(c)
    <3>1. UNCHANGED <<now, at, recent>>
      BY <2>3 DEF Quiet, TurnAway, Admit, RefuseBody, StreamStarts, Relay, TooLong, Drained, TimerFires,
                  Close, process, history
    <3>2. QED
      BY <1>1, <3>1
  <2>4. CASE Answered(c) \/ Aborted(c) \/ StreamEnds(c)
    <3>1. UNCHANGED <<now, at, recent>>
      BY <2>4 DEF Answered, Aborted, StreamEnds, EndCall
    <3>2. QED
      BY <1>1, <3>1
  <2>5. QED
    BY <1>5, <2>1, <2>2, <2>3, <2>4 DEF Handle, Quiet
<1>6. QED
  BY <1>2, <1>3, <1>4, <1>5 DEF Next

\* The minute slides: a list that is pruned on every call, refused or not, never lets more than
\* Limit calls of an agent through in any minute, wherever it starts.
THEOREM RateIsKept == Spec => []RateHolds
<1>1. Init => RateInv
  <2> SUFFICES ASSUME Init PROVE RateInv
    OBVIOUS
  <2>1. now = 0 /\ at = [c \in Calls |-> -1] /\ recent = [a \in Agents |-> {}]
    BY DEF Init
  <2>2. \A a \in Agents, t \in 0 .. MaxTime : InWindow(a, t) = {}
    BY <2>1, LimitAssumption DEF InWindow, Of
  <2>3. RateHolds
    BY <2>2, FS_EmptySet, LimitAssumption DEF RateHolds, InWindow
  <2>4. QED
    BY <2>1, <2>3, FS_EmptySet DEF RateInv, RateTypeOK, Listed
<1>2. RateInv => RateHolds
  BY DEF RateInv
<1>3. QED
  BY <1>1, <1>2, RateStep, PTL DEF Spec

-----------------------------------------------------------------------------
(* The caps *)

OnDisk == UNION {Bodies(a) : a \in Agents}

CapsTypeOK ==
    /\ bytes \in [Agents \cup {"total"} -> Nat]
    /\ restarts \in Nat /\ failures \in Nat
    /\ IsFiniteSet(OnDisk) /\ \A a \in Agents : IsFiniteSet(Bodies(a))

\* What is on disk is what earlier processes may have left and what this one has counted.
Counted ==
    /\ \A a \in Agents : Cardinality(Bodies(a)) <= restarts * AgentCap + bytes[a] /\ bytes[a] <= AgentCap
    /\ Cardinality(OnDisk) <= restarts * TotalCap + bytes["total"] /\ bytes["total"] <= TotalCap

NotesLast ==
    \A a \in Agents : \A i, j \in DOMAIN file[a] :
        i < j /\ file[a][i].kind = "note" => file[a][j].kind = "stub"

NotesMeanCapped == \A a \in Agents : a \notin capped => \A i \in DOMAIN file[a] : file[a][i].kind # "note"

CapsInv ==
    /\ CapsTypeOK
    /\ mode = "live" => Counted
    /\ restarts = 0 => NotesLast /\ (mode = "live" => NotesMeanCapped)
    /\ CapsHold

LEMMA OneLifeMore ==
    ASSUME NEW n \in Nat, NEW cap \in Nat
    PROVE  (n + 1) * cap = n * cap + cap /\ n * cap \in Nat /\ (n + 1) * cap \in Nat
OBVIOUS

NotesInTheFirstLife == restarts = 0 => NotesLast

LEMMA CountedIsEnough == CapsTypeOK /\ Counted /\ NotesInTheFirstLife => CapsHold
<1> SUFFICES ASSUME CapsTypeOK, Counted, restarts = 0 => NotesLast PROVE CapsHold
  BY DEF NotesInTheFirstLife
<1>1. /\ (restarts + 1) * AgentCap = restarts * AgentCap + AgentCap /\ restarts * AgentCap \in Nat
      /\ (restarts + 1) * TotalCap = restarts * TotalCap + TotalCap /\ restarts * TotalCap \in Nat
  BY OneLifeMore, LimitAssumption DEF CapsTypeOK
<1>2. ASSUME NEW a \in Agents PROVE Cardinality(Bodies(a)) <= (restarts + 1) * AgentCap
  <2>1. bytes[a] \in Nat /\ Cardinality(Bodies(a)) \in Nat
    BY FS_CardinalityType DEF CapsTypeOK
  <2>2. QED
    BY <1>1, <2>1, LimitAssumption DEF Counted
<1>3. Cardinality(OnDisk) <= (restarts + 1) * TotalCap
  <2>1. bytes["total"] \in Nat /\ Cardinality(OnDisk) \in Nat
    BY FS_CardinalityType DEF CapsTypeOK
  <2>2. QED
    BY <1>1, <2>1, LimitAssumption DEF Counted
<1>4. QED
  BY <1>2, <1>3 DEF CapsHold, OnDisk, NotesLast

\* What an append adds: nothing, all its lines or one of them; a lost line is counted.
LEMMA FileGrows ==
    ASSUME RecordTypeOK, NEW c \in Calls, NEW lines \in Seq(Lines), Appends(c, lines)
    PROVE  \E added \in Seq(Lines) :
             /\ file' = [file EXCEPT ![AgentOf[c]] = file[AgentOf[c]] \o added]
             /\ failures' = failures + Len(lines) - Len(added)
             /\ added = <<>> \/ added = lines \/ \E i \in DOMAIN lines : added = <<lines[i]>>
<1> DEFINE a == AgentOf[c]
           g == file[a]
<1>1. g \in Seq(Lines)
  BY CallAssumption DEF RecordTypeOK
<1>2. PICK f \in Written(g, lines) :
        file' = [file EXCEPT ![a] = f] /\ failures' = failures + Len(lines) - (Len(f) - Len(g))
  BY DEF Appends
<1>3. \E added \in Seq(Lines) :
        /\ f = g \o added
        /\ added = <<>> \/ added = lines \/ \E i \in DOMAIN lines : added = <<lines[i]>>
  <2>1. f = g \/ f = g \o lines \/ (\E i \in DOMAIN lines : f = Append(g, lines[i]))
    BY <1>2 DEF Written
  <2>2. CASE f = g
    <3>1. f = g \o <<>> /\ <<>> \in Seq(Lines)
      BY <1>1, <2>2
    <3>2. QED
      BY <3>1
  <2>3. CASE f = g \o lines
    BY <2>3
  <2>4. ASSUME NEW i \in DOMAIN lines, f = Append(g, lines[i])
        PROVE  f = g \o <<lines[i]>> /\ <<lines[i]>> \in Seq(Lines)
    <3>1. lines[i] \in Lines
      BY <2>4
    <3>2. QED
      BY <1>1, <2>4, <3>1
  <2>5. QED
    BY <2>1, <2>2, <2>3, <2>4
<1>4. PICK added \in Seq(Lines) :
        /\ f = g \o added
        /\ added = <<>> \/ added = lines \/ \E i \in DOMAIN lines : added = <<lines[i]>>
  BY <1>3
<1>5. Len(f) - Len(g) = Len(added)
  BY <1>1, <1>4
<1>6. QED
  BY <1>2, <1>4, <1>5

LEMMA UnionBound ==
    ASSUME NEW S, NEW T, IsFiniteSet(S), IsFiniteSet(T)
    PROVE  /\ IsFiniteSet(S \cup T) /\ Cardinality(S \cup T) <= Cardinality(S) + Cardinality(T)
           /\ Cardinality(S) \in Nat /\ Cardinality(T) \in Nat /\ Cardinality(S \cup T) \in Nat
<1>1. IsFiniteSet(S \cap T) /\ IsFiniteSet(S \cup T)
  BY FS_Intersection, FS_Union
<1>2. /\ Cardinality(S) \in Nat /\ Cardinality(T) \in Nat
      /\ Cardinality(S \cap T) \in Nat /\ Cardinality(S \cup T) \in Nat
  BY <1>1, FS_CardinalityType
<1>3. Cardinality(S \cup T) = Cardinality(S) + Cardinality(T) - Cardinality(S \cap T)
  BY FS_Union
<1>4. QED
  BY <1>1, <1>2, <1>3

\* Lines without a body add nothing, a line with one adds its size.
LEMMA BodiesGrow ==
    ASSUME RecordTypeOK, CapsTypeOK, NEW a \in Agents, NEW added \in Seq(Lines), NEW n \in Nat,
           file' = [file EXCEPT ![a] = file[a] \o added],
           \/ \A i \in DOMAIN added : added[i].size = 0
           \/ \E x \in Lines : added = <<x>> /\ x.size = n
    PROVE  /\ \A b \in Agents : IsFiniteSet(Bodies(b)') /\ (b # a => Bodies(b)' = Bodies(b))
           /\ Cardinality(Bodies(a)') <= Cardinality(Bodies(a)) + n
           /\ IsFiniteSet(OnDisk') /\ Cardinality(OnDisk') <= Cardinality(OnDisk) + n
<1> DEFINE g == file[a]
           m == Len(g)
           B == IF \A i \in DOMAIN added : added[i].size = 0 THEN {} ELSE {<<a, m + 1>>} \X (1 .. n)
<1>1. /\ g \in Seq(Lines) /\ file'[a] = g \o added /\ \A b \in Agents \ {a} : file'[b] = file[b]
      /\ m \in Nat
  BY DEF RecordTypeOK
<1>2. IsFiniteSet(B) /\ Cardinality(B) <= n
  <2>1. CASE \A i \in DOMAIN added : added[i].size = 0
    BY <2>1, FS_EmptySet
  <2>2. CASE ~\A i \in DOMAIN added : added[i].size = 0
    <3>1. IsFiniteSet({<<a, m + 1>>}) /\ Cardinality({<<a, m + 1>>}) = 1
      BY FS_Singleton
    <3>2. IsFiniteSet(1 .. n) /\ Cardinality(1 .. n) = n
      <4>1. 1 \in Int /\ n \in Int
        OBVIOUS
      <4>2. IsFiniteSet(1 .. n) /\ Cardinality(1 .. n) = IF 1 > n THEN 0 ELSE n - 1 + 1
        BY <4>1, FS_Interval
      <4>3. QED
        BY <4>2
    <3>3. IsFiniteSet({<<a, m + 1>>} \X (1 .. n)) /\ Cardinality({<<a, m + 1>>} \X (1 .. n)) = 1 * n
      BY <3>1, <3>2, FS_Product
    <3>4. QED
      BY <2>2, <3>3
  <2>3. QED
    BY <2>1, <2>2
<1>3. Bodies(a)' = Bodies(a) \cup B
  <2> DEFINE f == file'[a]
  <2>1. /\ DOMAIN f = 1 .. m + Len(added) /\ DOMAIN g = 1 .. m /\ Len(added) \in Nat
        /\ DOMAIN added = 1 .. Len(added)
        /\ \A i \in 1 .. m : f[i] = g[i]
        /\ \A i \in 1 .. Len(added) : f[m + i] = added[i]
    BY <1>1
  <2>2. Bodies(a)' = UNION {{<<a, i>>} \X (1 .. f[i].size) : i \in DOMAIN f}
    BY DEF Bodies
  <2>3. Bodies(a) = UNION {{<<a, i>>} \X (1 .. g[i].size) : i \in DOMAIN g}
    BY DEF Bodies
  <2>4. CASE \A i \in DOMAIN added : added[i].size = 0
    <3>1. \A i \in DOMAIN f : i \in DOMAIN g \/ f[i].size = 0
      <4>1. \A i \in DOMAIN f : i \notin DOMAIN g => i - m \in 1 .. Len(added) /\ i = m + (i - m)
        BY <1>1, <2>1
      <4>2. QED
        BY <2>1, <2>4, <4>1
    <3>2. \A i \in DOMAIN g : i \in DOMAIN f /\ f[i] = g[i]
      BY <1>1, <2>1
    <3>3. B = {} /\ 1 .. 0 = {}
      BY <2>4
    <3> HIDE DEF f, g, B
    <3>4. QED
      BY <2>2, <2>3, <3>1, <3>2, <3>3
  <2>5. CASE ~\A i \in DOMAIN added : added[i].size = 0
    <3>1. PICK x \in Lines : added = <<x>> /\ x.size = n
      BY <2>5
    <3>2. Len(added) = 1 /\ added[1] = x
      BY <3>1
    <3>3. /\ DOMAIN f = DOMAIN g \cup {m + 1} /\ \A i \in DOMAIN g : f[i] = g[i]
          /\ f[m + 1].size = n
      BY <1>1, <2>1, <3>1, <3>2
    <3>4. B = {<<a, m + 1>>} \X (1 .. n) /\ \A i \in DOMAIN g : i # m + 1
      BY <1>1, <2>1, <2>5
    <3> HIDE DEF f, g, B, m
    <3>5. QED
      BY <2>2, <2>3, <3>3, <3>4
  <2>6. QED
    BY <2>4, <2>5
<1>4. \A b \in Agents : b # a => Bodies(b)' = Bodies(b)
  BY <1>1 DEF Bodies
<1>5. OnDisk' = OnDisk \cup B
  BY <1>3, <1>4 DEF OnDisk
<1>6. IsFiniteSet(Bodies(a)) /\ IsFiniteSet(OnDisk)
  BY DEF CapsTypeOK
<1> HIDE DEF B
<1>7. IsFiniteSet(Bodies(a)') /\ Cardinality(Bodies(a)') <= Cardinality(Bodies(a)) + n
  <2>1. /\ IsFiniteSet(Bodies(a) \cup B)
        /\ Cardinality(Bodies(a) \cup B) <= Cardinality(Bodies(a)) + Cardinality(B)
        /\ Cardinality(Bodies(a)) \in Nat /\ Cardinality(B) \in Nat /\ Cardinality(Bodies(a) \cup B) \in Nat
    BY <1>2, <1>6, UnionBound
  <2>2. QED
    BY <1>2, <1>3, <2>1
<1>8. IsFiniteSet(OnDisk') /\ Cardinality(OnDisk') <= Cardinality(OnDisk) + n
  <2>1. /\ IsFiniteSet(OnDisk \cup B)
        /\ Cardinality(OnDisk \cup B) <= Cardinality(OnDisk) + Cardinality(B)
        /\ Cardinality(OnDisk) \in Nat /\ Cardinality(B) \in Nat /\ Cardinality(OnDisk \cup B) \in Nat
    BY <1>2, <1>6, UnionBound
  <2>2. QED
    BY <1>2, <1>5, <2>1
<1>9. QED
  BY <1>4, <1>7, <1>8 DEF CapsTypeOK

\* The end of a call: a stub, a note and a stub, or a full line that both caps still hold.
LEMMA CapsEnd ==
    ASSUME CapsInv, RecordInv, NEW c \in Calls, stage[c] \in InFlight, EndCall(c)
    PROVE  CapsInv'
<1> DEFINE a == AgentOf[c]
<1>1. /\ a \in Agents /\ mode = "live" /\ mode' = "live" /\ restarts' = restarts
      /\ CapsTypeOK /\ Counted /\ RecordTypeOK /\ file[a] \in Seq(Lines)
  BY CallAssumption DEF EndCall, RecordInv, RecordTypeOK, CapsInv
<1> DEFINE Ends(added, n) ==
             /\ file' = [file EXCEPT ![a] = file[a] \o added]
             /\ \/ \A i \in DOMAIN added : added[i].size = 0
                \/ \E x \in Lines : added = <<x>> /\ x.size = n
             /\ n \in Nat /\ failures' \in Nat
             /\ bytes' = [bytes EXCEPT ![a] = @ + n, !["total"] = @ + n]
             /\ bytes[a] + n <= AgentCap /\ bytes["total"] + n <= TotalCap
             /\ capped \subseteq capped'
             /\ \/ \A i \in DOMAIN added : added[i].kind # "note" /\ (added[i].kind = "stub" \/ a \notin capped)
                \/ /\ a \notin capped /\ a \in capped'
                   /\ \A i, j \in DOMAIN added : i < j => added[j].kind = "stub"
<1>2. \E added \in Seq(Lines), n \in Nat : Ends(added, n)
  <2>0. /\ bytes \in [Agents \cup {"total"} -> Nat] /\ bytes[a] <= AgentCap /\ bytes["total"] <= TotalCap
        /\ failures \in Nat /\ a # "total" /\ a \in Agents
    BY <1>1, LimitAssumption DEF CapsTypeOK, Counted
  <2>1. CASE RecordStub(c)
    <3> DEFINE lines == <<Line("stub", c, 0)>>
    <3>1. lines \in Seq(Lines) /\ Appends(c, lines) /\ a \in capped /\ UNCHANGED <<bytes, capped>>
      BY <2>1 DEF RecordStub, Line, Lines
    <3>2. PICK added \in Seq(Lines) :
             /\ file' = [file EXCEPT ![a] = file[a] \o added]
             /\ failures' = failures + Len(lines) - Len(added)
             /\ added = <<>> \/ added = lines \/ \E i \in DOMAIN lines : added = <<lines[i]>>
      BY <1>1, <3>1, FileGrows
    <3>3. added = <<>> \/ added = lines
      BY <3>2
    <3>4. failures' \in Nat
      <4>1. Len(lines) = 1 /\ (added = <<>> => Len(added) = 0) /\ (added = lines => Len(added) = 1)
        OBVIOUS
      <4> HIDE DEF lines
      <4>2. Len(lines) = 1 /\ (Len(added) = 0 \/ Len(added) = 1)
        BY <3>3, <4>1, Zenon
      <4>3. failures' = failures + 1 - 0 \/ failures' = failures + 1 - 1
        BY <3>2, <4>2, Zenon
      <4>4. QED
        BY <2>0, <4>3
    <3>5. \A i \in DOMAIN added : added[i].size = 0 /\ added[i].kind = "stub"
      BY <3>3 DEF Line
    <3>6. bytes' = [bytes EXCEPT ![a] = @ + 0, !["total"] = @ + 0]
      BY <2>0, <3>1
    <3>7. Ends(added, 0)
      BY <2>0, <3>1, <3>2, <3>4, <3>5, <3>6
    <3>8. QED
      BY <3>7
  <2>2. ASSUME NEW size \in Sizes, RecordCapped(c, size) PROVE \E added \in Seq(Lines), n \in Nat : Ends(added, n)
    <3> DEFINE note == Line("note", c, 0)
               stub == Line("stub", c, 0)
               lines == <<note, stub>>
    <3>1. /\ lines \in Seq(Lines) /\ Appends(c, lines) /\ a \notin capped
          /\ capped' = capped \cup {a} /\ bytes' = bytes
      BY <2>2 DEF RecordCapped, Line, Lines
    <3>2. PICK added \in Seq(Lines) :
             /\ file' = [file EXCEPT ![a] = file[a] \o added]
             /\ failures' = failures + Len(lines) - Len(added)
             /\ added = <<>> \/ added = lines \/ \E i \in DOMAIN lines : added = <<lines[i]>>
      BY <1>1, <3>1, FileGrows
    <3>3. added = <<>> \/ added = lines \/ added = <<note>> \/ added = <<stub>>
      BY <3>2
    <3>4. failures' \in Nat
      <4>1. /\ Len(lines) = 2 /\ (added = <<>> => Len(added) = 0) /\ (added = lines => Len(added) = 2)
            /\ (added = <<note>> => Len(added) = 1) /\ (added = <<stub>> => Len(added) = 1)
        OBVIOUS
      <4> HIDE DEF lines
      <4>2. Len(lines) = 2 /\ (Len(added) = 0 \/ Len(added) = 1 \/ Len(added) = 2)
        BY <3>3, <4>1, Zenon
      <4>3. failures' = failures + 2 - 0 \/ failures' = failures + 2 - 1 \/ failures' = failures + 2 - 2
        BY <3>2, <4>2, Zenon
      <4>4. QED
        BY <2>0, <4>3
    <3>5. /\ note.size = 0 /\ stub.size = 0 /\ stub.kind = "stub"
      BY DEF Line
    <3> HIDE DEF note, stub
    <3>6. \A i \in DOMAIN added : added[i].size = 0
      BY <3>3, <3>5
    <3>7. \A i, j \in DOMAIN added : i < j => added[j].kind = "stub"
      BY <3>3, <3>5
    <3>8. bytes' = [bytes EXCEPT ![a] = @ + 0, !["total"] = @ + 0]
      BY <2>0, <3>1
    <3>9. Ends(added, 0)
      BY <2>0, <3>1, <3>2, <3>4, <3>6, <3>7, <3>8
    <3>10. QED
      BY <3>9
  <2>3. ASSUME NEW size \in Sizes, RecordFull(c, size) PROVE \E added \in Seq(Lines), n \in Nat : Ends(added, n)
    <3> DEFINE full == Line("full", c, size)
               lines == <<full>>
    <3>1. /\ lines \in Seq(Lines) /\ Appends(c, lines) /\ a \notin capped /\ size \in Nat
          /\ capped' = capped /\ bytes["total"] + size <= TotalCap /\ bytes[a] + size <= AgentCap
          /\ bytes' = IF failures' = failures
                      THEN [bytes EXCEPT ![a] = @ + size, !["total"] = @ + size] ELSE bytes
      BY <2>3, LimitAssumption DEF RecordFull, Line, Lines
    <3>2. PICK added \in Seq(Lines) :
             /\ file' = [file EXCEPT ![a] = file[a] \o added]
             /\ failures' = failures + Len(lines) - Len(added)
             /\ added = <<>> \/ added = lines \/ \E i \in DOMAIN lines : added = <<lines[i]>>
      BY <1>1, <3>1, FileGrows
    <3>3. full \in Lines /\ full.size = size /\ full.kind = "full"
      BY <3>1 DEF Line, Lines
    <3>0. added = <<>> \/ added = <<full>>
      BY <3>2
    <3> HIDE DEF full
    <3>4. CASE added = <<>>
      <4>1. failures' = failures + 1 /\ failures' \in Nat /\ failures' # failures
        BY <2>0, <3>2, <3>4
      <4>2. bytes' = [bytes EXCEPT ![a] = @ + 0, !["total"] = @ + 0]
        <5>1. bytes' = bytes
          BY <3>1, <4>1
        <5>2. QED
          BY <2>0, <5>1
      <4>3. Ends(added, 0)
        <5>1. bytes[a] + 0 <= AgentCap /\ bytes["total"] + 0 <= TotalCap
          BY <2>0
        <5>2. QED
          BY <3>1, <3>2, <3>4, <4>1, <4>2, <5>1
      <4>4. QED
        BY <4>3
    <3>5. CASE added = <<full>>
      <4>1. failures' = failures
        BY <2>0, <3>2, <3>5
      <4>2. bytes' = [bytes EXCEPT ![a] = @ + size, !["total"] = @ + size]
        BY <3>1, <4>1
      <4>3. \A i \in DOMAIN added : added[i].kind # "note"
        BY <3>3, <3>5
      <4>4. \E x \in Lines : added = <<x>> /\ x.size = size
        BY <3>3, <3>5
      <4>5. Ends(added, size)
        BY <2>0, <3>1, <3>2, <4>1, <4>2, <4>3, <4>4
      <4>6. QED
        BY <3>1, <4>5
    <3>6. QED
      BY <3>0, <3>4, <3>5
  <2>4. QED
    BY <2>1, <2>2, <2>3 DEF EndCall, Record
<1>3. PICK added \in Seq(Lines), n \in Nat : Ends(added, n)
  BY <1>2
<1>4. /\ \A b \in Agents : IsFiniteSet(Bodies(b)') /\ (b # a => Bodies(b)' = Bodies(b))
      /\ Cardinality(Bodies(a)') <= Cardinality(Bodies(a)) + n
      /\ IsFiniteSet(OnDisk') /\ Cardinality(OnDisk') <= Cardinality(OnDisk) + n
  BY <1>1, <1>3, BodiesGrow
<1>5. /\ bytes' \in [Agents \cup {"total"} -> Nat]
      /\ bytes'[a] = bytes[a] + n /\ bytes'["total"] = bytes["total"] + n
      /\ \A b \in Agents \ {a} : bytes'[b] = bytes[b]
  BY <1>1, <1>3, LimitAssumption DEF CapsTypeOK
<1>6. CapsTypeOK'
  BY <1>1, <1>3, <1>4, <1>5 DEF CapsTypeOK
<1>7. Counted'
  <2>1. /\ restarts * AgentCap \in Nat /\ restarts * TotalCap \in Nat
    BY <1>1, OneLifeMore, LimitAssumption DEF CapsTypeOK
  <2>2. ASSUME NEW b \in Agents
        PROVE  Cardinality(Bodies(b)') <= restarts * AgentCap + bytes'[b] /\ bytes'[b] <= AgentCap
    <3>1. /\ Cardinality(Bodies(b)) \in Nat /\ Cardinality(Bodies(b)') \in Nat /\ bytes[b] \in Nat
      BY <1>1, <1>4, FS_CardinalityType DEF CapsTypeOK
    <3>2. Cardinality(Bodies(b)) <= restarts * AgentCap + bytes[b] /\ bytes[b] <= AgentCap
      BY <1>1 DEF Counted
    <3>3. CASE b = a
      BY <1>3, <1>4, <1>5, <2>1, <3>1, <3>2, <3>3
    <3>4. CASE b # a
      BY <1>4, <1>5, <3>2, <3>4
    <3>5. QED
      BY <3>3, <3>4
  <2>3. Cardinality(OnDisk') <= restarts * TotalCap + bytes'["total"] /\ bytes'["total"] <= TotalCap
    <3>1. Cardinality(OnDisk) \in Nat /\ Cardinality(OnDisk') \in Nat /\ bytes["total"] \in Nat
      BY <1>1, <1>4, FS_CardinalityType DEF CapsTypeOK
    <3>2. QED
      BY <1>1, <1>3, <1>4, <1>5, <2>1, <3>1 DEF Counted
  <2>4. QED
    BY <1>1, <2>2, <2>3 DEF Counted
<1>8. restarts' = 0 => NotesLast' /\ NotesMeanCapped'
  <2> SUFFICES ASSUME restarts = 0 PROVE NotesLast' /\ NotesMeanCapped'
    BY <1>1
  <2> DEFINE g == file[a]
             f == file'[a]
             m == Len(g)
  <2>1. NotesLast /\ NotesMeanCapped
    BY <1>1 DEF CapsInv
  <2>2. /\ m \in Nat /\ DOMAIN g = 1 .. m /\ DOMAIN added = 1 .. Len(added) /\ Len(added) \in Nat
        /\ DOMAIN f = 1 .. m + Len(added)
        /\ \A i \in 1 .. m : f[i] = g[i]
        /\ \A i \in 1 .. Len(added) : f[m + i] = added[i]
        /\ \A b \in Agents \ {a} : file'[b] = file[b]
    BY <1>1, <1>3 DEF RecordTypeOK
  <2>3. \A i \in DOMAIN f : \/ i \in DOMAIN g /\ f[i] = g[i]
                            \/ i > m /\ i - m \in DOMAIN added /\ f[i] = added[i - m]
    <3> SUFFICES ASSUME NEW i \in DOMAIN f, i \notin 1 .. m
                 PROVE  i > m /\ i - m \in DOMAIN added /\ f[i] = added[i - m]
      BY <2>2
    <3> HIDE DEF f, g, m
    <3>1. i > m /\ i - m \in 1 .. Len(added) /\ m + (i - m) = i
      BY <2>2
    <3>2. QED
      BY <2>2, <3>1
  <2>4. capped \subseteq capped'
    BY <1>3
  <2>9. ASSUME \A i, j \in DOMAIN f : i < j /\ f[i].kind = "note" => f[j].kind = "stub",
               a \notin capped' => \A i \in DOMAIN f : f[i].kind # "note"
        PROVE  NotesLast' /\ NotesMeanCapped'
    <3>1. \A b \in Agents \ {a} : \A i, j \in DOMAIN file'[b] :
              i < j /\ file'[b][i].kind = "note" => file'[b][j].kind = "stub"
      BY <2>1, <2>2 DEF NotesLast
    <3>2. \A b \in Agents \ {a} : b \notin capped' => \A i \in DOMAIN file'[b] : file'[b][i].kind # "note"
      BY <2>1, <2>2, <2>4 DEF NotesMeanCapped
    <3>3. NotesLast'
      BY <2>9, <3>1 DEF NotesLast
    <3>4. NotesMeanCapped'
      BY <2>9, <3>2 DEF NotesMeanCapped
    <3>5. QED
      BY <3>3, <3>4
  <2>5. CASE \A i \in DOMAIN added : added[i].kind # "note" /\ (added[i].kind = "stub" \/ a \notin capped)
    <3>1. \A i, j \in DOMAIN f : i < j /\ f[i].kind = "note" => f[j].kind = "stub"
      <4> SUFFICES ASSUME NEW i \in DOMAIN f, NEW j \in DOMAIN f, i < j, f[i].kind = "note"
                   PROVE  f[j].kind = "stub"
        OBVIOUS
      <4>1. i \in DOMAIN g /\ g[i].kind = "note"
        BY <2>3, <2>5
      <4>2. a \in capped
        BY <1>1, <2>1, <4>1 DEF NotesMeanCapped
      <4>3. QED
        BY <1>1, <2>1, <2>3, <2>5, <4>1, <4>2 DEF NotesLast
    <3>2. a \notin capped' => \A i \in DOMAIN f : f[i].kind # "note"
      BY <1>1, <2>1, <2>3, <2>4, <2>5 DEF NotesMeanCapped
    <3>3. QED
      BY <3>1, <3>2, <2>9
  <2>6. CASE /\ a \notin capped /\ a \in capped'
             /\ \A i, j \in DOMAIN added : i < j => added[j].kind = "stub"
    <3>1. \A i \in DOMAIN g : g[i].kind # "note"
      BY <1>1, <2>1, <2>6 DEF NotesMeanCapped
    <3>2. \A i, j \in DOMAIN f : i < j /\ f[i].kind = "note" => f[j].kind = "stub"
      <4> SUFFICES ASSUME NEW i \in DOMAIN f, NEW j \in DOMAIN f, i < j, f[i].kind = "note"
                   PROVE  f[j].kind = "stub"
        OBVIOUS
      <4>1. i > m /\ i - m \in DOMAIN added
        BY <2>3, <3>1
      <4>2. i \in Int /\ j \in Int /\ j \notin DOMAIN g
        BY <2>2, <4>1
      <4>3. j > m /\ j - m \in DOMAIN added /\ f[j] = added[j - m] /\ i - m < j - m
        <5> HIDE DEF f, g, m
        <5>1. j \notin DOMAIN g
          BY <4>2
        <5>2. j > m /\ j - m \in DOMAIN added /\ f[j] = added[j - m]
          BY <2>3, <5>1
        <5>3. i - m < j - m
          BY <2>2, <4>2
        <5>4. QED
          BY <5>2, <5>3
      <4>4. QED
        BY <2>6, <4>1, <4>3
    <3>3. QED
      BY <2>6, <3>2, <2>9
  <2>7. QED
    BY <1>3, <2>5, <2>6
<1>9. CapsHold'
  <2>1. NotesInTheFirstLife'
    BY <1>8 DEF NotesInTheFirstLife
  <2>2. QED
    BY <1>6, <1>7, <2>1, CountedIsEnough, PTL
<1>10. QED
  BY <1>1, <1>6, <1>7, <1>8, <1>9 DEF CapsInv

KeepsCaps == UNCHANGED <<mode, file, bytes, capped, failures, restarts>>

LEMMA CapsStep == CapsInv /\ RecordInv /\ [Next]_vars => CapsInv'
<1> SUFFICES ASSUME CapsInv, RecordInv, [Next]_vars PROVE CapsInv'
  OBVIOUS
<1>1. ASSUME KeepsCaps PROVE CapsInv'
  <2>1. \A a \in Agents : Bodies(a)' = Bodies(a)
    BY <1>1 DEF KeepsCaps, Bodies
  <2>2. OnDisk' = OnDisk
    BY <2>1 DEF OnDisk
  <2>3. CapsTypeOK' /\ (Counted => Counted')
    BY <1>1, <2>1, <2>2 DEF KeepsCaps, CapsInv, CapsTypeOK, Counted
  <2>4. (NotesLast => NotesLast') /\ (NotesMeanCapped => NotesMeanCapped')
    BY <1>1 DEF KeepsCaps, NotesLast, NotesMeanCapped
  <2>5. CapsHold'
    BY <1>1, <2>1, <2>2 DEF KeepsCaps, CapsInv, CapsHold, OnDisk
  <2>6. QED
    BY <1>1, <2>3, <2>4, <2>5 DEF KeepsCaps, CapsInv
<1>2. CASE Tick \/ UNCHANGED vars
  BY <1>1, <1>2 DEF Tick, vars, process, bounds, KeepsCaps
<1>3. CASE Restart
  <2>1. /\ mode = "live" /\ mode' = "live" /\ file' = file /\ failures' = failures
        /\ bytes' = NoBytes /\ restarts' = restarts + 1 /\ restarts \in Nat
    BY <1>3 DEF Restart, NewProcess, CapsInv, CapsTypeOK
  <2>2. \A a \in Agents : Bodies(a)' = Bodies(a)
    BY <2>1 DEF Bodies
  <2>3. OnDisk' = OnDisk
    BY <2>2 DEF OnDisk
  <2>4. CapsTypeOK'
    BY <2>1, <2>2, <2>3 DEF CapsInv, CapsTypeOK, NoBytes
  <2>5. Counted'
    <3>1. /\ restarts' * AgentCap = restarts * AgentCap + AgentCap /\ restarts * AgentCap \in Nat
          /\ restarts' * TotalCap = restarts * TotalCap + TotalCap /\ restarts * TotalCap \in Nat
      BY <2>1, OneLifeMore, LimitAssumption
    <3>2. /\ bytes'["total"] = 0 /\ \A a \in Agents : bytes'[a] = 0
      BY <2>1 DEF NoBytes
    <3>3. Counted /\ CapsTypeOK
      BY <2>1 DEF CapsInv
    <3>4. ASSUME NEW a \in Agents
          PROVE  Cardinality(Bodies(a)') <= restarts' * AgentCap + bytes'[a] /\ bytes'[a] <= AgentCap
      <4>1. Cardinality(Bodies(a)) \in Nat /\ bytes[a] \in Nat
        BY <3>3, FS_CardinalityType DEF CapsTypeOK
      <4>2. Cardinality(Bodies(a)) <= restarts * AgentCap + bytes[a] /\ bytes[a] <= AgentCap
        BY <3>3 DEF Counted
      <4>3. QED
        BY <2>2, <3>1, <3>2, <4>1, <4>2, LimitAssumption
    <3>5. Cardinality(OnDisk') <= restarts' * TotalCap + bytes'["total"] /\ bytes'["total"] <= TotalCap
      <4>1. Cardinality(OnDisk) \in Nat /\ bytes["total"] \in Nat
        BY <3>3, FS_CardinalityType DEF CapsTypeOK
      <4>2. Cardinality(OnDisk) <= restarts * TotalCap + bytes["total"] /\ bytes["total"] <= TotalCap
        BY <3>3 DEF Counted
      <4>3. QED
        BY <2>3, <3>1, <3>2, <4>1, <4>2, LimitAssumption
    <3>6. QED
      BY <3>4, <3>5 DEF Counted
  <2>6. NotesInTheFirstLife' /\ restarts' # 0
    BY <2>1 DEF NotesInTheFirstLife
  <2>7. CapsHold'
    BY <2>4, <2>5, <2>6, CountedIsEnough, PTL
  <2>8. QED
    BY <2>4, <2>5, <2>6, <2>7 DEF CapsInv
<1>4. CASE StartReplay
  <2>1. /\ mode' = "replay" /\ UNCHANGED <<file, failures, restarts>> /\ bytes' = NoBytes
    BY <1>4 DEF StartReplay, NewProcess, bounds
  <2>2. \A a \in Agents : Bodies(a)' = Bodies(a)
    BY <2>1 DEF Bodies
  <2>3. OnDisk' = OnDisk
    BY <2>2 DEF OnDisk
  <2>4. CapsTypeOK'
    BY <2>1, <2>2, <2>3 DEF CapsInv, CapsTypeOK, NoBytes
  <2>5. CapsHold' /\ (NotesLast => NotesLast')
    BY <2>1, <2>2, <2>3 DEF CapsInv, CapsHold, NotesLast, OnDisk
  <2>6. QED
    BY <2>1, <2>4, <2>5 DEF CapsInv
<1>5. ASSUME NEW c \in Calls, Handle(c) PROVE CapsInv'
  <2>1. CASE Answered(c) \/ Aborted(c) \/ StreamEnds(c)
    <3>1. stage[c] \in InFlight /\ EndCall(c)
      BY <2>1 DEF Answered, Aborted, StreamEnds, InFlight
    <3>2. QED
      BY <3>1, CapsEnd
  <2>2. CASE ~(Answered(c) \/ Aborted(c) \/ StreamEnds(c))
    <3>1. KeepsCaps
      BY <1>5, <2>2 DEF Handle, TurnAway, Admit, RefuseBody, RefuseRate, Forward, Replay, StreamStarts, Relay,
                        TooLong, Drained, TimerFires, Close, process, bounds, KeepsCaps
    <3>2. QED
      BY <1>1, <3>1
  <2>3. QED
    BY <2>1, <2>2
<1>6. QED
  BY <1>2, <1>3, <1>4, <1>5 DEF Next

\* Whatever appends fail and however often the proxy restarts, each process's life adds at most a cap
\* of bodies to an agent's file and to all of them, and after the note come stubs only.
THEOREM CapsAreKept == Spec => []CapsHold
<1>1. Init => CapsInv
  <2> SUFFICES ASSUME Init PROVE CapsInv
    OBVIOUS
  <2>1. /\ file = [a \in Agents |-> <<>>] /\ bytes = NoBytes /\ restarts = 0 /\ failures = 0
    BY DEF Init
  <2>2. \A a \in Agents : file[a] = <<>> /\ DOMAIN file[a] = {}
    BY <2>1
  <2>3. OnDisk = {} /\ \A a \in Agents : Bodies(a) = {}
    BY <2>2 DEF OnDisk, Bodies
  <2>4. IsFiniteSet({}) /\ Cardinality({}) = 0
    BY FS_EmptySet
  <2>5. CapsTypeOK
    BY <2>1, <2>3, <2>4 DEF CapsTypeOK, NoBytes
  <2>6. Counted
    <3>1. bytes["total"] = 0 /\ \A a \in Agents : bytes[a] = 0
      BY <2>1 DEF NoBytes
    <3>2. 0 * AgentCap = 0 /\ 0 * TotalCap = 0
      BY LimitAssumption
    <3>3. Cardinality(OnDisk) = 0 /\ \A a \in Agents : Cardinality(Bodies(a)) = 0
      BY <2>3, <2>4
    <3>4. \A a \in Agents : Cardinality(Bodies(a)) <= restarts * AgentCap + bytes[a] /\ bytes[a] <= AgentCap
      BY <2>1, <3>1, <3>2, <3>3, LimitAssumption
    <3>5. Cardinality(OnDisk) <= restarts * TotalCap + bytes["total"] /\ bytes["total"] <= TotalCap
      BY <2>1, <3>1, <3>2, <3>3, LimitAssumption
    <3>6. QED
      BY <3>4, <3>5 DEF Counted
  <2>7. NotesLast /\ NotesMeanCapped
    BY <2>2 DEF NotesLast, NotesMeanCapped
  <2>8. CapsHold
    BY <2>5, <2>6, <2>7, CountedIsEnough DEF NotesInTheFirstLife
  <2>9. QED
    BY <2>5, <2>6, <2>7, <2>8 DEF CapsInv
<1>2. CapsInv => CapsHold
  BY DEF CapsInv
<1>3. QED
  BY <1>1, <1>2, CapsStep, RecordStart, RecordStep, SlotStart, SlotStep, PTL DEF Spec
=============================================================================
