-------------------------- MODULE GatedMiner_proofs --------------------------
(* Theorems about GatedMiner, for every bound, every kind of fault and any number of slots. *)
EXTENDS GatedMiner, TLAPS

USE SlotsAssumption, BoundsAssumption, FaultsAssumption DEF CallKinds

\* The shapes the actions build: a request for a stage is a call, and a fresh call is typed.
LEMMA RequestType ==
    ASSUME NEW kind \in CallKinds, NEW stage \in Stages
    PROVE  Request(kind, stage) \in Calls
  BY DEF Request, Stages, Calls

LEMMA NoCallType == NoCall \in Calls
  BY DEF NoCall, Calls

LEMMA NoStageType == NoStage \in Stages
  BY DEF NoStage, Stages

LEMMA LargerType ==
    ASSUME NEW a \in Nat, NEW b \in Nat
    PROVE  Larger(a, b) \in Nat /\ Larger(a, b) >= a /\ Larger(a, b) >= b
  BY DEF Larger

\* A typed head moves to a typed head, past the old one and never past the chain by more than it was.
LEMMA MoveHeadType ==
    ASSUME head \in Nat, chainHead \in Nat, chainHead > 0, MoveHead
    PROVE  head' \in Nat /\ (head + 1 <= chainHead => head' <= chainHead)
  BY DEF MoveHead, ReadBack, Larger

\* Giving up on a call keeps the record of what is left with the node typed.
LEMMA GiveUpType ==
    ASSUME TypeOK, CallFailed, GiveUpOnCall
    PROVE  /\ late' \in SUBSET [id : Nat, price : Nat, todo : SUBSET Slots, mines : BOOLEAN]
           /\ abandoned' \in 0..MaxLate
<1>1. Leftover \in SUBSET [id : Nat, price : Nat, todo : SUBSET Slots, mines : BOOLEAN]
  BY DEF Leftover, TypeOK, Calls
<1>2. Waiting => abandoned < MaxLate
  BY DEF CallFailed, Unanswered, Waiting
<1>3. QED
  BY <1>1, <1>2 DEF GiveUpOnCall, TypeOK

\* One more block keeps the record of blocks a function on the blocks mined.
LEMMA AddBlockType ==
    ASSUME TypeOK, NEW how \in {"none", "open", "nothing", "timedOut", "gaveUp", "late"},
           AddBlock(how)
    PROVE  /\ chainHead' \in Nat /\ chainHead' >= StartHead
           /\ blocks' \in [(StartHead + 1)..chainHead' ->
                            [prices : [Slots -> Nat],
                             gate : {"none", "open", "nothing", "timedOut", "gaveUp", "late"}]]
  BY DEF AddBlock, TypeOK

\* Marking a stage applied, the captured one or the current one, leaves a stage.
LEMMA AppliedType ==
    ASSUME NEW stage \in Stages
    PROVE  [stage EXCEPT !.applied = TRUE] \in Stages
  BY DEF Stages

LEMMA MarkType ==
    ASSUME TypeOK, MarkCaptured
    PROVE  staged' \in Stages
  BY AppliedType DEF TypeOK, MarkCaptured

\* What sending a request does to the miner's side of the state.
Sent == /\ call' \in Calls
        /\ trying' \in Stages
        /\ heldTicks' \in 0..(MaxHeldTicks - 1)
        /\ sent' \subseteq Nat

LEMMA SendMineType == ASSUME TypeOK, SendMine PROVE Sent /\ pc' = "mine"
  BY RequestType DEF TypeOK, SendMine, Sent

LEMMA SendCommitType == ASSUME TypeOK, SendCommit PROVE Sent /\ pc' = "commit"
<1>1. staged.forBlock \in Nat
  BY DEF TypeOK, Stages
<1>2. QED
  BY <1>1, RequestType DEF TypeOK, SendCommit, Sent

LEMMA SendApplyType ==
    ASSUME TypeOK, NEW next, SendApply(next) PROVE Sent /\ pc' = next
<1>1. staged.forBlock \in Nat
  BY DEF TypeOK, Stages
<1>2. QED
  BY <1>1, RequestType DEF TypeOK, SendApply, Sent

LEMMA CallFields ==
    ASSUME NEW c \in Calls
    PROVE  c.price \in Nat /\ c.todo \subseteq Slots /\ c.mines \in BOOLEAN
  BY DEF Calls

\* What serving part of a call leaves is a call.
LEMMA ServedCallType ==
    ASSUME NEW c \in Calls, NEW s \in Slots, NEW answer \in {"ok", "failed"}
    PROVE  /\ [c EXCEPT !.todo = @ \ {s}, !.touched = TRUE] \in Calls
           /\ [c EXCEPT !.todo = @ \ {s}, !.bad = TRUE, !.touched = TRUE] \in Calls
           /\ [c EXCEPT !.mines = FALSE, !.touched = TRUE] \in Calls
           /\ [c EXCEPT !.mines = FALSE, !.bad = TRUE, !.touched = TRUE] \in Calls
           /\ [c EXCEPT !.answer = answer] \in Calls
  BY DEF Calls

-----------------------------------------------------------------------------
(* The coordinator's turns *)

\* What the rest of the coordinator does to the miner in one turn: it hands over a newer stage of a
\* block that exists, it tells the miner to stop, or it does both, as a final pass that fails does.
Steers ==
    /\ \/ staged' = staged
       \/ \E b \in (staged.forBlock + 1)..chainHead : \E w \in StagedWrites :
             staged' = [forBlock |-> b, writes |-> w,
                        commit |-> BatchCommit /\ w # {}, applied |-> FALSE]
    /\ \/ UNCHANGED <<stopped, haltHead>>
       \/ stopped' = TRUE /\ NoteHalt
    /\ closing' = closing \/ closing' = TRUE
    /\ UNCHANGED <<pc, head, trying, heldTicks, gate, nodeVars, sent>>

\* A step of a system that holds the miner, the node and any such coordinator.
GatedStep == Miner \/ Node \/ Steers

\* Steps that leave the miner and the node alone are steps of that system too.
LEMMA NextIsGated == [Next]_vars => GatedStep
<1> SUFFICES ASSUME [Next]_vars PROVE GatedStep
  OBVIOUS
<1>1. CASE Miner \/ Node
  BY <1>1 DEF GatedStep
<1>2. CASE \E b \in (staged.forBlock + 1)..chainHead : \E w \in StagedWrites : Stage(b, w)
  BY <1>2 DEF Stage, history, GatedStep, Steers
<1>3. CASE Halt
  BY <1>3 DEF Halt, GatedStep, Steers
<1>4. CASE Stop
  BY <1>4 DEF Stop, GatedStep, Steers
<1>5. CASE UNCHANGED vars
  BY <1>5 DEF vars, minerVars, history, GatedStep, Steers
<1>6. QED
  BY <1>1, <1>2, <1>3, <1>4, <1>5 DEF Next, Coordinator, Finished

-----------------------------------------------------------------------------
(* Type correctness *)

\* Every action of the miner, of the node and of the coordinator keeps every variable in its shape.
LEMMA TypeStep == TypeOK /\ GatedStep => TypeOK'
<1> SUFFICES ASSUME TypeOK, GatedStep PROVE TypeOK'
  OBVIOUS
<1>1. CASE BeginTick
  BY <1>1, LargerType DEF TypeOK, minerVars, nodeVars, history, BeginTick
<1>2. CASE PassGate
  BY <1>2, SendMineType, SendCommitType, SendApplyType DEF TypeOK, minerVars, nodeVars, history, PassGate, Sent
<1>3. CASE CommitOk
  BY <1>3, MarkType, MoveHeadType, NoCallType DEF TypeOK, minerVars, nodeVars, history, CommitOk
<1>4. CASE CommitFails
  BY <1>4, GiveUpType, SendMineType, SendApplyType DEF TypeOK, minerVars, nodeVars, history, CommitFails, Sent
<1>5. CASE ApplyOk
  BY <1>5, MarkType, SendMineType DEF TypeOK, minerVars, nodeVars, history, ApplyOk, Sent
<1>6. CASE ApplyRetry
  BY <1>6, GiveUpType, RequestType DEF TypeOK, minerVars, nodeVars, history, ApplyRetry
<1>7. CASE ApplyHeld
  BY <1>7, GiveUpType, NoCallType DEF TypeOK, minerVars, nodeVars, history, ApplyHeld
<1>8. CASE ApplyGivenUp
  BY <1>8, GiveUpType, SendMineType, AppliedType DEF TypeOK, minerVars, nodeVars, history, ApplyGivenUp, Sent
<1>9. CASE MineOk
  BY <1>9, MoveHeadType, NoCallType DEF TypeOK, minerVars, nodeVars, history, MineOk
<1>10. CASE MineFails
  BY <1>10, GiveUpType, NoCallType DEF TypeOK, minerVars, nodeVars, history, MineFails
<1>11. CASE LeaveLoop
  BY <1>11 DEF TypeOK, minerVars, nodeVars, history, LeaveLoop
<1>12. CASE StopFlush
  BY <1>12, SendApplyType DEF TypeOK, minerVars, nodeVars, history, StopFlush, Sent
<1>13. CASE StopOk
  BY <1>13, MarkType, NoCallType DEF TypeOK, minerVars, nodeVars, history, StopOk
<1>14. CASE StopFails
  BY <1>14, GiveUpType, NoCallType DEF TypeOK, minerVars, nodeVars, history, StopFails
<1>15. CASE NodeWrites
  <2>1. PICK s \in call.todo :
          /\ storage' = [storage EXCEPT ![s] = call.price]
          /\ call' = [call EXCEPT !.todo = @ \ {s}, !.touched = TRUE]
    BY <1>15 DEF NodeWrites
  <2>2. call \in Calls /\ s \in Slots /\ call.price \in Nat
    BY CallFields DEF TypeOK
  <2>3. storage' \in [Slots -> Nat] /\ call' \in Calls
    BY <2>1, <2>2, ServedCallType DEF TypeOK
  <2>4. QED
    BY <1>15, <2>3 DEF TypeOK, minerVars, history, NodeWrites
<1>16. CASE NodeMines
  BY <1>16, AddBlockType, ServedCallType DEF TypeOK, minerVars, nodeVars, history, NodeMines
<1>17. CASE NodeAnswers
  BY <1>17, ServedCallType DEF TypeOK, minerVars, nodeVars, history, NodeAnswers
<1>18. CASE NodeRefuses
  BY <1>18, ServedCallType DEF TypeOK, minerVars, nodeVars, history, NodeRefuses
<1>19. CASE NodeDrops
  <2>1. call \in Calls /\ call.todo \subseteq Slots
    BY CallFields DEF TypeOK
  <2>2. call' \in Calls
    <3>1. CASE \E s \in call.todo :
                 call' = [call EXCEPT !.todo = @ \ {s}, !.bad = TRUE, !.touched = TRUE]
      BY <2>1, <3>1, ServedCallType
    <3>2. CASE call' = [call EXCEPT !.mines = FALSE, !.bad = TRUE, !.touched = TRUE]
      BY <2>1, <3>2, ServedCallType
    <3>3. CASE call' = [call EXCEPT !.answer = "failed"]
      BY <2>1, <3>3, ServedCallType
    <3>4. QED
      BY <1>19, <3>1, <3>2, <3>3 DEF NodeDrops
  <2>3. QED
    BY <1>19, <2>2 DEF TypeOK, minerVars, history, NodeDrops
<1>20. CASE LateWrites
  <2> DEFINE Left == [id : Nat, price : Nat, todo : SUBSET Slots, mines : BOOLEAN]
  <2> PICK r \in late : \E s \in r.todo :
          /\ storage' = [storage EXCEPT ![s] = r.price]
          /\ late' = (late \ {r}) \cup
                     (IF r.todo = {s} /\ ~r.mines THEN {}
                      ELSE {[r EXCEPT !.todo = @ \ {s}]})
    BY <1>20 DEF LateWrites
  <2>1. PICK s \in r.todo :
          /\ storage' = [storage EXCEPT ![s] = r.price]
          /\ late' = (late \ {r}) \cup
                     (IF r.todo = {s} /\ ~r.mines THEN {}
                      ELSE {[r EXCEPT !.todo = @ \ {s}]})
    OBVIOUS
  <2>2. r \in Left /\ r.price \in Nat /\ s \in Slots
    BY DEF TypeOK
  <2>3. [r EXCEPT !.todo = @ \ {s}] \in Left
    BY <2>2
  <2>4. storage' \in [Slots -> Nat] /\ late' \in SUBSET Left
    <3>1. late \in SUBSET Left /\ storage \in [Slots -> Nat]
      BY DEF TypeOK
    <3>2. QED
      BY <2>1, <2>2, <2>3, <3>1
  <2>5. QED
    BY <1>20, <2>4 DEF TypeOK, minerVars, history, LateWrites
<1>21. CASE LateMines
  BY <1>21, AddBlockType DEF TypeOK, minerVars, nodeVars, history, LateMines
<1>22. CASE Steers
  <2>1. staged' \in Stages
    <3>1. CASE staged' = staged
      BY <3>1 DEF TypeOK
    <3>2. ASSUME NEW b \in (staged.forBlock + 1)..chainHead, NEW w \in StagedWrites,
                 staged' = [forBlock |-> b, writes |-> w,
                            commit |-> BatchCommit /\ w # {}, applied |-> FALSE]
          PROVE  staged' \in Stages
      <4>1. b \in Nat /\ w \in SUBSET Slots
        BY DEF TypeOK, Stages, StagedWrites
      <4>2. (BatchCommit /\ w # {}) \in BOOLEAN
        OBVIOUS
      <4>3. QED
        BY <3>2, <4>1, <4>2 DEF Stages
    <3>3. QED
      BY <1>22, <3>1, <3>2 DEF Steers
  <2>2. stopped' \in BOOLEAN /\ closing' \in BOOLEAN /\ haltHead' \in Nat
    BY <1>22 DEF Steers, NoteHalt, TypeOK
  <2>3. UNCHANGED <<pc, head, trying, heldTicks, gate, nodeVars, sent>>
    BY <1>22 DEF Steers
  <2>4. QED
    BY <2>1, <2>2, <2>3 DEF TypeOK, nodeVars
<1>23. QED
  BY <1>1, <1>2, <1>3, <1>4, <1>5, <1>6, <1>7, <1>8, <1>9, <1>10, <1>11, <1>12, <1>13, <1>14, <1>15, <1>16, <1>17, <1>18, <1>19, <1>20, <1>21, <1>22
  DEF GatedStep, Miner, Node, NodeServes

LEMMA TypeStart == Init => TypeOK
<1> SUFFICES ASSUME Init PROVE TypeOK
  OBVIOUS
<1>1. (StartHead + 1)..StartHead = {}
  OBVIOUS
<1>2. blocks \in [(StartHead + 1)..chainHead ->
                   [prices : [Slots -> Nat],
                    gate : {"none", "open", "nothing", "timedOut", "gaveUp", "late"}]]
  BY <1>1 DEF Init
<1>3. StartHead - 1 \in Nat
  OBVIOUS
<1>4. storage \in [Slots -> Nat]
  BY <1>3 DEF Init
<1>5. head \in Nat /\ chainHead \in Nat /\ chainHead >= StartHead /\ haltHead \in Nat
  BY DEF Init
<1>6. staged \in Stages /\ trying \in Stages /\ call \in Calls
  BY NoStageType, NoCallType DEF Init
<1>7. /\ heldTicks \in 0..(MaxHeldTicks - 1)
      /\ abandoned \in 0..MaxLate
      /\ late \in SUBSET [id : Nat, price : Nat, todo : SUBSET Slots, mines : BOOLEAN]
      /\ sent \subseteq Nat
  BY DEF Init
<1>8. /\ pc = "tick"
      /\ gate = "none"
      /\ stopped \in BOOLEAN
      /\ closing \in BOOLEAN
  BY DEF Init
<1>9. QED
  BY <1>2, <1>4, <1>5, <1>6, <1>7, <1>8 DEF TypeOK

\* The model's variables always have their shapes.
THEOREM TypeCorrect == Spec => []TypeOK
<1>1. TypeOK /\ [Next]_vars => TypeOK'
  BY TypeStep, NextIsGated
<1>2. QED
  BY <1>1, TypeStart, PTL DEF Spec

-----------------------------------------------------------------------------
(* The miner's head never runs ahead of the chain *)

\* HeadExists is not inductive: a confirmed mine moves the head by one whatever is read back, so it
\* needs that a call that can still be confirmed, once its mine is done, put a block above the head.
\* A call is only of the kind its wait is for, and none is open between ticks.
CallMatchesWait ==
    /\ pc = "commit" => call.kind = "commit"
    /\ pc = "mine" => call.kind = "mine"
    /\ pc \in {"tick", "gate", "exited", "done"} => call = NoCall

ConfirmedMeansServed == call.answer = "ok" => ~call.mines /\ ~call.bad

MinedAboveHead ==
    call.kind \in {"commit", "mine"} /\ ~call.mines /\ ~call.bad => head + 1 <= chainHead

HeadInv == HeadExists /\ CallMatchesWait /\ ConfirmedMeansServed /\ MinedAboveHead

\* A request just sent has not mined anything, so it claims nothing about the head.
LEMMA FreshRequest ==
    ASSUME NEW kind \in CallKinds, NEW stage
    PROVE  /\ Request(kind, stage).kind = kind
           /\ Request(kind, stage).mines = (kind # "apply")
           /\ Request(kind, stage).answer = "open"
  BY DEF Request

LEMMA FreshNoCall ==
    NoCall.kind = "none" /\ NoCall.answer = "none"
  BY DEF NoCall

\* Sending any request re-establishes what the invariant says of the call and the wait.
CallInv == CallMatchesWait /\ ConfirmedMeansServed /\ MinedAboveHead

LEMMA SendMineInv == ASSUME SendMine PROVE CallInv'
<1>1. pc' = "mine" /\ call' = Request("mine", staged)
  BY DEF SendMine
<1>2. call'.kind = "mine" /\ call'.mines = TRUE /\ call'.answer = "open"
  BY <1>1, FreshRequest
<1>3. QED
  BY <1>1, <1>2 DEF CallInv, CallMatchesWait, ConfirmedMeansServed, MinedAboveHead

LEMMA SendCommitInv == ASSUME SendCommit PROVE CallInv'
<1>1. pc' = "commit" /\ call' = Request("commit", staged)
  BY DEF SendCommit
<1>2. call'.kind = "commit" /\ call'.mines = TRUE /\ call'.answer = "open"
  BY <1>1, FreshRequest
<1>3. QED
  BY <1>1, <1>2 DEF CallInv, CallMatchesWait, ConfirmedMeansServed, MinedAboveHead

LEMMA SendApplyInv ==
    ASSUME NEW next \in {"apply1", "stop1"}, SendApply(next) PROVE CallInv'
  BY FreshRequest DEF SendApply, CallInv, CallMatchesWait, ConfirmedMeansServed, MinedAboveHead

LEMMA NoCallInv ==
    ASSUME pc' \in {"tick", "done"}, call' = NoCall PROVE CallInv'
  BY FreshNoCall DEF CallInv, CallMatchesWait, ConfirmedMeansServed, MinedAboveHead

\* Every step keeps the invariant.
LEMMA HeadStep == TypeOK /\ HeadInv /\ GatedStep => HeadInv'
<1> SUFFICES ASSUME TypeOK, HeadInv, GatedStep PROVE HeadInv'
  OBVIOUS
<1> USE DEF HeadInv, HeadExists
<1>1. CASE BeginTick
  BY <1>1, LargerType DEF BeginTick, TypeOK, Larger, nodeVars, NoCall, CallMatchesWait, ConfirmedMeansServed, MinedAboveHead
<1>2. CASE PassGate
  BY <1>2, SendMineInv, SendCommitInv, SendApplyInv DEF PassGate, CallInv
<1>3. CASE CommitOk
  BY <1>3, NoCallInv, MoveHeadType DEF CommitOk, CallOk, TypeOK, CallInv, CallMatchesWait, ConfirmedMeansServed, MinedAboveHead
<1>4. CASE CommitFails
  BY <1>4, SendMineInv, SendApplyInv DEF CommitFails, CallInv
<1>5. CASE ApplyOk
  BY <1>5, SendMineInv DEF ApplyOk, CallInv
<1>6. CASE ApplyRetry
  BY <1>6, FreshRequest DEF ApplyRetry, CallMatchesWait, ConfirmedMeansServed, MinedAboveHead
<1>7. CASE ApplyHeld
  BY <1>7, NoCallInv DEF ApplyHeld, CallInv
<1>8. CASE ApplyGivenUp
  BY <1>8, SendMineInv DEF ApplyGivenUp, CallInv
<1>9. CASE MineOk
  BY <1>9, NoCallInv, MoveHeadType DEF MineOk, CallOk, TypeOK, CallInv, CallMatchesWait, ConfirmedMeansServed, MinedAboveHead
<1>10. CASE MineFails
  BY <1>10, NoCallInv DEF MineFails, CallInv
<1>11. CASE LeaveLoop
  BY <1>11 DEF LeaveLoop, nodeVars, CallMatchesWait, ConfirmedMeansServed, MinedAboveHead
<1>12. CASE StopFlush
  BY <1>12, SendApplyInv DEF StopFlush, CallInv, CallMatchesWait, ConfirmedMeansServed, MinedAboveHead
<1>13. CASE StopOk
  BY <1>13, NoCallInv DEF StopOk, CallInv
<1>14. CASE StopFails
  BY <1>14, NoCallInv DEF StopFails, CallInv
<1>15. CASE NodeWrites
  <2>1. PICK s \in call.todo : call' = [call EXCEPT !.todo = @ \ {s}, !.touched = TRUE]
    BY <1>15 DEF NodeWrites
  <2>2. /\ call'.kind = call.kind /\ call'.mines = call.mines
        /\ call'.bad = call.bad /\ call'.answer = call.answer
    BY <2>1 DEF TypeOK, Calls
  <2>3. UNCHANGED <<pc, head, chainHead>> /\ call # NoCall
    BY <1>15, FreshNoCall DEF NodeWrites, minerVars, Waiting
  <2>4. QED
    BY <2>2, <2>3 DEF CallMatchesWait, ConfirmedMeansServed, MinedAboveHead
<1>16. CASE NodeMines
  BY <1>16 DEF NodeMines, AddBlock, Waiting, TypeOK, Calls, minerVars, NoCall, CallMatchesWait, ConfirmedMeansServed, MinedAboveHead
<1>17. CASE NodeAnswers
  BY <1>17 DEF NodeAnswers, Waiting, TypeOK, Calls, minerVars, NoCall, CallMatchesWait, ConfirmedMeansServed, MinedAboveHead
<1>18. CASE NodeRefuses
  BY <1>18 DEF NodeRefuses, Waiting, TypeOK, Calls, minerVars, NoCall, CallMatchesWait, ConfirmedMeansServed, MinedAboveHead
<1>19. CASE NodeDrops
  <2>1. UNCHANGED <<pc, head, chainHead>> /\ call # NoCall /\ call.answer = "open"
    BY <1>19, FreshNoCall DEF NodeDrops, minerVars, Waiting
  <2>2. \/ call'.kind = call.kind /\ call'.bad /\ call'.answer = "open"
        \/ /\ call'.kind = call.kind /\ call'.mines = call.mines /\ call'.bad = call.bad
           /\ call'.answer = "failed"
    <3>1. CASE \E s \in call.todo :
                 call' = [call EXCEPT !.todo = @ \ {s}, !.bad = TRUE, !.touched = TRUE]
      BY <2>1, <3>1 DEF TypeOK, Calls
    <3>2. CASE call' = [call EXCEPT !.mines = FALSE, !.bad = TRUE, !.touched = TRUE]
      BY <2>1, <3>2 DEF TypeOK, Calls
    <3>3. CASE call' = [call EXCEPT !.answer = "failed"]
      BY <2>1, <3>3 DEF TypeOK, Calls
    <3>4. QED
      BY <1>19, <3>1, <3>2, <3>3 DEF NodeDrops
  <2>3. QED
    BY <2>1, <2>2 DEF CallMatchesWait, ConfirmedMeansServed, MinedAboveHead
<1>20. CASE LateWrites
  BY <1>20 DEF LateWrites, minerVars, CallMatchesWait, ConfirmedMeansServed, MinedAboveHead
<1>21. CASE LateMines
  BY <1>21 DEF LateMines, AddBlock, TypeOK, minerVars, CallMatchesWait, ConfirmedMeansServed, MinedAboveHead
<1>22. CASE Steers
  BY <1>22 DEF Steers, nodeVars, CallMatchesWait, ConfirmedMeansServed, MinedAboveHead
<1>23. QED
  BY <1>1, <1>2, <1>3, <1>4, <1>5, <1>6, <1>7, <1>8, <1>9, <1>10, <1>11, <1>12, <1>13, <1>14, <1>15, <1>16, <1>17, <1>18, <1>19, <1>20, <1>21, <1>22
  DEF GatedStep, Miner, Node, NodeServes

LEMMA HeadStart == Init => HeadInv
  BY FreshNoCall DEF Init, HeadInv, HeadExists, CallMatchesWait, ConfirmedMeansServed, MinedAboveHead

\* The miner never believes in a block the node does not have, whatever fails, is lost or is late.
THEOREM HeadNeverAhead == Spec => []HeadExists
<1>1. TypeOK /\ HeadInv /\ [Next]_vars => HeadInv'
  BY HeadStep, NextIsGated
<1>2. HeadInv => HeadExists
  BY DEF HeadInv
<1>3. QED
  BY <1>1, <1>2, HeadStart, TypeCorrect, PTL DEF Spec

-----------------------------------------------------------------------------
(* When every block mined is confirmed *)

\* No deadline passes, and a call that has mined never fails: its batch is not one of writes and a
\* mine, and the block number is read.  What the node refuses outright, and the writes it drops from
\* a request of its own, are left free.
ConfirmedMines == MaxLate = 0 /\ (Partial => ~BatchCommit /\ "mine" \notin MayFail)

Mined == pc \in {"commit", "mine"} /\ ~call.mines

\* A call is of the kind its wait is for.
WaitIsForCall ==
    /\ pc = "commit" => call.kind = "commit" /\ BatchCommit
    /\ pc = "mine" => call.kind = "mine"
    /\ pc \in {"apply1", "apply2", "stop1", "stop2"} => call.kind = "apply"
    /\ pc \in {"tick", "gate", "exited", "done"} => call.kind = "none"

\* What the answers the miner waits for may say.
SureCall ==
    /\ call.kind \notin {"commit", "mine"} => ~call.mines
    /\ call.kind = "mine" => call.todo = {}
    /\ call.answer = "ok" => call.todo = {} /\ ~call.mines /\ ~call.bad
    /\ call.bad => call.kind = "apply" /\ Partial /\ call.touched

\* The miner's head is the chain's, but for the block it is about to hear of.
SureHead ==
    /\ late = {}
    /\ staged.forBlock <= chainHead
    /\ staged.commit => BatchCommit
    /\ IF Mined THEN chainHead = head + 1 /\ call.touched /\ call.answer # "failed" /\ call.todo = {}
       ELSE chainHead = head

SureInv == WaitIsForCall /\ SureCall /\ SureHead

\* A call that failed is not waited for any longer, and leaves nothing with the node.
LEMMA SureFailure ==
    ASSUME ConfirmedMines, TypeOK, SureInv, CallFailed
    PROVE  /\ call.answer = "failed" /\ ~Mined
           /\ GiveUpOnCall => UNCHANGED <<late, abandoned>>
<1>1. ~Unanswered
  BY DEF Unanswered, ConfirmedMines, TypeOK
<1>2. call.answer = "failed"
  BY <1>1 DEF CallFailed
<1>3. ~Mined
  BY <1>2 DEF SureInv, SureHead
<1>4. Leftover = {} /\ ~Waiting
  BY <1>2 DEF Leftover, Waiting
<1>5. QED
  BY <1>2, <1>3, <1>4 DEF GiveUpOnCall

\* The fields of a request for a stage.
LEMMA RequestFields ==
    ASSUME NEW kind \in CallKinds, NEW stage
    PROVE  LET r == Request(kind, stage) IN
           /\ r.kind = kind /\ r.price = stage.forBlock /\ r.answer = "open"
           /\ r.todo = (IF kind = "mine" THEN {} ELSE stage.writes)
           /\ r.mines = (kind # "apply") /\ r.bad = FALSE /\ r.touched = FALSE
BY DEF Request

LEMMA NoCallFields ==
    /\ NoCall.kind = "none" /\ NoCall.answer = "none" /\ NoCall.todo = {}
    /\ NoCall.mines = FALSE /\ NoCall.bad = FALSE /\ NoCall.touched = FALSE
BY DEF NoCall

\* What a step of the node does to the fields of the call and to the rest.
LEMMA WritesEffect ==
    ASSUME TypeOK, NodeWrites
    PROVE  /\ UNCHANGED <<minerVars, late, abandoned, chainHead, blocks, history>>
           /\ call.answer = "open"
           /\ \E s \in call.todo \cap Slots :
                /\ storage' = [storage EXCEPT ![s] = call.price]
                /\ call'.todo = call.todo \ {s}
           /\ call'.kind = call.kind /\ call'.price = call.price /\ call'.mines = call.mines
           /\ call'.bad = call.bad /\ call'.touched = TRUE /\ call'.answer = "open"
<1>1. PICK s \in call.todo :
          /\ storage' = [storage EXCEPT ![s] = call.price]
          /\ call' = [call EXCEPT !.todo = @ \ {s}, !.touched = TRUE]
  BY DEF NodeWrites
<1>2. s \in Slots
  BY CallFields DEF TypeOK
<1>3. QED
  BY <1>1, <1>2 DEF NodeWrites, Waiting, TypeOK, Calls

LEMMA MinesEffect ==
    ASSUME TypeOK, NodeMines
    PROVE  /\ UNCHANGED <<minerVars, late, abandoned, storage, history>>
           /\ call.answer = "open" /\ call.todo = {} /\ call.mines /\ AddBlock(gate)
           /\ call'.kind = call.kind /\ call'.price = call.price /\ call'.mines = FALSE
           /\ call'.bad = call.bad /\ call'.touched = TRUE /\ call'.answer = "open" /\ call'.todo = {}
BY DEF NodeMines, Waiting, TypeOK, Calls

LEMMA AnswersEffect ==
    ASSUME TypeOK, NodeAnswers
    PROVE  /\ UNCHANGED <<minerVars, late, abandoned, chainHead, storage, blocks, history>>
           /\ call.answer = "open" /\ call.todo = {} /\ ~call.mines
           /\ call'.kind = call.kind /\ call'.price = call.price /\ call'.mines = FALSE
           /\ call'.bad = call.bad /\ call'.touched = call.touched /\ call'.todo = {}
           /\ call'.answer = IF call.bad THEN "failed" ELSE "ok"
BY DEF NodeAnswers, Waiting, TypeOK, Calls

LEMMA RefusesEffect ==
    ASSUME TypeOK, NodeRefuses
    PROVE  /\ UNCHANGED <<minerVars, late, abandoned, chainHead, storage, blocks, history>>
           /\ call.answer = "open" /\ ~call.touched /\ call.kind \in MayFail
           /\ call'.kind = call.kind /\ call'.price = call.price /\ call'.mines = call.mines
           /\ call'.bad = call.bad /\ call'.touched = call.touched /\ call'.todo = call.todo
           /\ call'.answer = "failed"
BY DEF NodeRefuses, Waiting, TypeOK, Calls

\* Only a write of an apply is dropped: no commit is sent, and no mine is half done.
LEMMA DropsEffect ==
    ASSUME ConfirmedMines, TypeOK, SureInv, NodeDrops
    PROVE  /\ UNCHANGED <<minerVars, late, abandoned, chainHead, storage, blocks, history>>
           /\ Partial /\ call.answer = "open" /\ call.kind = "apply"
           /\ "apply" \in MayFail
           /\ \E s \in call.todo \cap Slots : call'.todo = call.todo \ {s}
           /\ call'.kind = "apply" /\ call'.price = call.price /\ call'.mines = call.mines
           /\ call'.bad = TRUE /\ call'.touched = TRUE /\ call'.answer = "open"
<1>1. call.kind \in MayFail /\ Partial /\ call.answer = "open"
  BY DEF NodeDrops, Waiting
<1>2. call.kind \in {"read", "commit", "apply", "mine", "none"}
  BY DEF TypeOK, Calls
<1>3. pc = "commit" => FALSE
  BY <1>1 DEF ConfirmedMines, SureInv, WaitIsForCall
<1>4. call.kind = "apply"
  BY <1>1, <1>2, <1>3 DEF ConfirmedMines, SureInv, WaitIsForCall, TypeOK
<1>5. ~call.mines
  BY <1>4 DEF SureInv, SureCall
<1>6. PICK s \in call.todo :
          call' = [call EXCEPT !.todo = @ \ {s}, !.bad = TRUE, !.touched = TRUE]
  BY <1>4, <1>5 DEF NodeDrops
<1>7. s \in Slots
  BY CallFields DEF TypeOK
<1>8. QED
  BY <1>1, <1>4, <1>6, <1>7 DEF NodeDrops, TypeOK, Calls

\* A step of the coordinator moves the stage on, never past the chain, or leaves it.
LEMMA SteersEffect ==
    ASSUME TypeOK, Steers
    PROVE  /\ UNCHANGED <<pc, head, trying, heldTicks, gate, sent>>
           /\ UNCHANGED <<call, late, abandoned, chainHead, storage, blocks>>
           /\ \/ staged' = staged
              \/ /\ staged'.forBlock \in (staged.forBlock + 1)..chainHead
                 /\ ~staged'.applied /\ staged'.writes \in StagedWrites
                 /\ staged'.commit => BatchCommit
BY DEF Steers, nodeVars

\* Marking a stage applied changes nothing else of it.
LEMMA MarkEffect ==
    ASSUME TypeOK, MarkCaptured
    PROVE  /\ staged'.forBlock = staged.forBlock /\ staged'.writes = staged.writes
           /\ staged'.commit = staged.commit
           /\ staged'.applied = (staged.applied \/ staged.forBlock = trying.forBlock)
BY DEF MarkCaptured, TypeOK, Stages

LEMMA SureStart == Init => SureInv
BY NoCallFields DEF Init, SureInv, WaitIsForCall, SureCall, SureHead, Mined, NoStage

\* A request just sent has done nothing yet, and is for the stage of that moment.
JustSent(kind) ==
    /\ call'.kind = kind /\ call'.price = staged.forBlock /\ call'.answer = "open"
    /\ ~call'.bad /\ ~call'.touched

LEMMA MineSent ==
    ASSUME SendMine
    PROVE  /\ JustSent("mine") /\ call'.mines /\ call'.todo = {}
           /\ pc' = "mine" /\ UNCHANGED <<trying, sent>>
<1> DEFINE r == Request("mine", staged)
<1>1. call' = r
  BY DEF SendMine
<1>2. /\ r.kind = "mine" /\ r.price = staged.forBlock /\ r.answer = "open"
      /\ r.todo = {} /\ r.mines = TRUE /\ ~r.bad /\ ~r.touched
  BY RequestFields
<1> HIDE DEF r
<1>3. QED
  BY <1>1, <1>2 DEF SendMine, JustSent

LEMMA CommitSent ==
    ASSUME SendCommit
    PROVE  /\ JustSent("commit") /\ call'.mines /\ call'.todo = staged.writes
           /\ pc' = "commit" /\ trying' = staged
<1> DEFINE r == Request("commit", staged)
<1>1. call' = r
  BY DEF SendCommit
<1>2. /\ r.kind = "commit" /\ r.price = staged.forBlock /\ r.answer = "open"
      /\ r.todo = staged.writes /\ r.mines = TRUE /\ ~r.bad /\ ~r.touched
  BY RequestFields
<1> HIDE DEF r
<1>3. QED
  BY <1>1, <1>2 DEF SendCommit, JustSent

LEMMA ApplySent ==
    ASSUME NEW next, SendApply(next)
    PROVE  /\ JustSent("apply") /\ ~call'.mines /\ call'.todo = staged.writes
           /\ pc' = next /\ trying' = staged
<1> DEFINE r == Request("apply", staged)
<1>1. call' = r
  BY DEF SendApply
<1>2. /\ r.kind = "apply" /\ r.price = staged.forBlock /\ r.answer = "open"
      /\ r.todo = staged.writes /\ r.mines = FALSE /\ ~r.bad /\ ~r.touched
  BY RequestFields
<1> HIDE DEF r
<1>3. QED
  BY <1>1, <1>2 DEF SendApply, JustSent

\* Every step keeps the miner's head where the chain's is.
LEMMA SureStep ==
    ASSUME ConfirmedMines, TypeOK, SureInv, GatedStep PROVE SureInv'
<1> USE DEF SureInv, WaitIsForCall, SureCall, SureHead, Mined
<1>1. CASE BeginTick
  BY <1>1 DEF BeginTick, TypeOK, Larger, nodeVars
<1>2. CASE PassGate
  <2>1. SendMine \/ (SendCommit /\ staged.commit) \/ SendApply("apply1")
    BY <1>2 DEF PassGate
  <2>2. UNCHANGED <<head, staged, late, chainHead>> /\ pc = "gate"
    BY <1>2 DEF PassGate
  <2>3. CASE SendMine
    BY <2>2, <2>3, MineSent DEF JustSent
  <2>4. CASE SendCommit /\ staged.commit
    BY <2>2, <2>4, CommitSent DEF JustSent
  <2>5. CASE SendApply("apply1")
    BY <2>2, <2>5, ApplySent DEF JustSent
  <2>6. QED
    BY <2>1, <2>3, <2>4, <2>5
<1>3. CASE CommitOk
  <2>1. head' = chainHead
    BY <1>3 DEF CommitOk, CallOk, MoveHead, ReadBack, Larger, TypeOK
  <2>2. QED
    BY <1>3, <2>1, MarkEffect, NoCallFields DEF CommitOk, CallOk
<1>4. CASE CommitFails
  <2>1. SendMine \/ SendApply("apply1")
    BY <1>4 DEF CommitFails
  <2>2. UNCHANGED <<head, staged, chainHead, late>> /\ ~Mined
    BY <1>4, SureFailure DEF CommitFails
  <2>3. CASE SendMine
    BY <2>2, <2>3, MineSent DEF JustSent
  <2>4. CASE SendApply("apply1")
    BY <2>2, <2>4, ApplySent DEF JustSent
  <2>5. QED
    BY <2>1, <2>3, <2>4
<1>5. CASE ApplyOk
  <2>1. SendMine /\ UNCHANGED <<head, late, chainHead>> /\ MarkCaptured /\ ~Mined
    BY <1>5 DEF ApplyOk
  <2>2. QED
    BY <2>1, MineSent, MarkEffect DEF JustSent
<1>6. CASE ApplyRetry
  <2>1. UNCHANGED <<head, staged, chainHead, late>> /\ ~Mined /\ pc' \in {"apply2", "stop2"}
    BY <1>6, SureFailure DEF ApplyRetry
  <2>2. call'.kind = "apply" /\ ~call'.mines /\ call'.answer = "open" /\ ~call'.bad
    BY <1>6, RequestFields DEF ApplyRetry
  <2>3. QED
    BY <2>1, <2>2
<1>7. CASE ApplyHeld
  BY <1>7, SureFailure, NoCallFields DEF ApplyHeld
<1>8. CASE ApplyGivenUp
  <2>1. SendMine /\ UNCHANGED <<head, late, chainHead>> /\ ~Mined
    BY <1>8, SureFailure DEF ApplyGivenUp
  <2>2. staged'.forBlock = staged.forBlock /\ staged'.commit = staged.commit
    BY <1>8 DEF ApplyGivenUp, TypeOK, Stages
  <2>3. QED
    BY <2>1, <2>2, MineSent DEF JustSent
<1>9. CASE MineOk
  <2>1. head' = chainHead
    BY <1>9 DEF MineOk, CallOk, MoveHead, ReadBack, Larger, TypeOK
  <2>2. QED
    BY <1>9, <2>1, NoCallFields DEF MineOk
<1>10. CASE MineFails
  BY <1>10, SureFailure, NoCallFields DEF MineFails
<1>11. CASE LeaveLoop
  BY <1>11 DEF LeaveLoop, nodeVars
<1>12. CASE StopFlush
  <2>1. UNCHANGED <<head, staged, chainHead, late>> /\ pc = "exited"
    BY <1>12 DEF StopFlush
  <2>2. CASE SendApply("stop1")
    BY <2>1, <2>2, ApplySent DEF JustSent
  <2>3. CASE pc' = "done" /\ call' = call
    BY <2>1, <2>3
  <2>4. QED
    BY <1>12, <2>2, <2>3 DEF StopFlush
<1>13. CASE StopOk
  BY <1>13, MarkEffect, NoCallFields DEF StopOk
<1>14. CASE StopFails
  BY <1>14, SureFailure, NoCallFields DEF StopFails
<1>15. CASE NodeWrites
  BY <1>15, WritesEffect DEF minerVars
<1>16. CASE NodeMines
  <2>1. /\ UNCHANGED <<pc, head, staged, late>>
        /\ call.mines /\ ~call.bad /\ call.kind \in {"commit", "mine"} /\ pc \in {"commit", "mine"}
        /\ call'.kind = call.kind /\ ~call'.mines /\ call'.touched /\ call'.answer = "open"
        /\ call'.todo = {} /\ ~call'.bad
    BY <1>16, MinesEffect DEF minerVars, TypeOK
  <2>2. chainHead' = chainHead + 1 /\ chainHead = head
    BY <1>16, <2>1, MinesEffect DEF AddBlock
  <2>3. staged.forBlock <= chainHead'
    BY <2>2 DEF TypeOK, Stages
  <2>4. UNCHANGED <<head, staged, late>> /\ staged'.commit = staged.commit
    BY <2>1
  <2>5. QED
    BY <2>1, <2>2, <2>3, <2>4
<1>17. CASE NodeAnswers
  BY <1>17, AnswersEffect DEF minerVars
<1>18. CASE NodeRefuses
  BY <1>18, RefusesEffect DEF minerVars
<1>19. CASE NodeDrops
  BY <1>19, DropsEffect DEF minerVars
<1>20. CASE LateWrites \/ LateMines
  BY <1>20 DEF LateWrites, LateMines
<1>21. CASE Steers
  BY <1>21, SteersEffect
<1>22. QED
  BY <1>1, <1>2, <1>3, <1>4, <1>5, <1>6, <1>7, <1>8, <1>9, <1>10, <1>11, <1>12, <1>13, <1>14, <1>15, <1>16, <1>17, <1>18, <1>19, <1>20, <1>21
  DEF GatedStep, Miner, Node, NodeServes

-----------------------------------------------------------------------------
(* One block after a halt *)

\* A block is on its way: nothing looks at `stopped` any more before it is mined.
BlockUnderWay == pc \in {"apply1", "apply2"} \/ (pc \in {"commit", "mine"} /\ call.mines)

HaltInv ==
    stopped => chainHead <= haltHead + 1 /\ (BlockUnderWay => chainHead <= haltHead)

LEMMA HaltStep ==
    ASSUME ConfirmedMines, TypeOK, SureInv, HaltInv, GatedStep PROVE HaltInv'
<1> USE DEF HaltInv, BlockUnderWay
<1>1. CASE PassGate \/ BeginTick
  BY <1>1 DEF PassGate, BeginTick
<1>2. CASE CommitFails
  <2>1. call.answer = "failed" /\ call.mines /\ pc = "commit"
    BY <1>2, SureFailure DEF CommitFails, Mined
  <2>2. UNCHANGED <<stopped, chainHead, haltHead>>
    BY <1>2 DEF CommitFails
  <2>3. QED
    BY <2>1, <2>2
<1>3. CASE ApplyOk \/ ApplyGivenUp \/ ApplyRetry
  <2>1. /\ UNCHANGED <<stopped, chainHead, haltHead>>
        /\ BlockUnderWay' => BlockUnderWay
    BY <1>3 DEF ApplyOk, ApplyGivenUp, ApplyRetry, history
  <2>2. QED
    BY <2>1
<1>4. CASE CommitOk \/ ApplyHeld \/ MineOk \/ MineFails \/ LeaveLoop \/ StopFlush \/ StopOk \/ StopFails
  <2>1. UNCHANGED <<stopped, chainHead, haltHead>> /\ ~BlockUnderWay'
    BY <1>4, ApplySent DEF CommitOk, ApplyHeld, MineOk, MineFails, LeaveLoop, StopFlush, StopOk, StopFails, history, nodeVars, SendApply
  <2>2. QED
    BY <2>1
<1>5. CASE NodeMines
  <2>1. call.mines /\ ~call'.mines /\ pc' = pc /\ stopped' = stopped /\ haltHead' = haltHead
        /\ chainHead' = chainHead + 1
    BY <1>5, MinesEffect DEF minerVars, history, AddBlock
  <2>2. pc \in {"commit", "mine"}
    BY <2>1 DEF SureInv, SureCall, WaitIsForCall, TypeOK
  <2>3. QED
    BY <2>1, <2>2 DEF TypeOK
<1>6. CASE NodeWrites \/ NodeAnswers \/ NodeRefuses \/ NodeDrops
  <2>1. UNCHANGED <<minerVars, chainHead, history>> /\ call'.mines = call.mines
    BY <1>6, WritesEffect, AnswersEffect, RefusesEffect, DropsEffect DEF TypeOK, Calls
  <2>2. QED
    BY <2>1 DEF minerVars, history
<1>7. CASE LateWrites \/ LateMines
  BY <1>7 DEF LateWrites, LateMines, SureInv, SureHead
<1>8. CASE Steers
  <2>1. UNCHANGED <<pc, call, chainHead>>
    BY <1>8, SteersEffect
  <2>2. \/ UNCHANGED <<stopped, haltHead>>
        \/ stopped' /\ haltHead' = IF stopped THEN haltHead ELSE chainHead
    BY <1>8 DEF Steers, NoteHalt
  <2>3. CASE UNCHANGED <<stopped, haltHead>>
    BY <2>1, <2>3
  <2>4. CASE ~stopped /\ haltHead' = chainHead
    BY <2>1, <2>4 DEF TypeOK
  <2>5. QED
    BY <2>2, <2>3, <2>4
<1>9. QED
  BY <1>1, <1>2, <1>3, <1>4, <1>5, <1>6, <1>7, <1>8
  DEF GatedStep, Miner, Node, NodeServes

\* Told to stop, the miner adds at most the block it was working on.
THEOREM AtMostOneMore == ASSUME ConfirmedMines PROVE Spec => []OneBlockAfterHalt
<1>1. Init => HaltInv
  BY DEF Init, HaltInv
<1>2. TypeOK /\ SureInv /\ [Next]_vars => SureInv'
  BY SureStep, NextIsGated
<1>3. TypeOK /\ SureInv /\ HaltInv /\ [Next]_vars => HaltInv'
  BY HaltStep, NextIsGated
<1>4. HaltInv => OneBlockAfterHalt
  BY DEF HaltInv, OneBlockAfterHalt
<1>5. QED
  BY <1>1, <1>2, <1>3, <1>4, SureStart, TypeCorrect, PTL DEF Spec

-----------------------------------------------------------------------------
(* A block mined through an open gate carries its pass's prices *)

\* From the moment the gate opened until the block is mined, the stage is the head's, and what the
\* node was asked to write and has written is that stage.
OpenGate ==
    gate = "open" /\ ~Mined =>
        /\ pc \in {"commit", "apply1", "apply2"} =>
             /\ staged.forBlock = chainHead /\ staged.writes = Slots /\ ~staged.applied
             /\ trying.forBlock = chainHead /\ trying.writes = Slots
             /\ call.price = chainHead
             /\ ~call.bad => \A s \in Slots \ call.todo : storage[s] = chainHead
        /\ pc = "mine" => \A s \in Slots : storage[s] = chainHead

WholeStage == staged.writes \in {{}, Slots}

PricedInv == WholeStage /\ OpenGate /\ PricedByItsPass

\* A stage is whole: the passes hand over every slot or none, and marking it leaves its writes.
LEMMA WholeStep ==
    ASSUME TypeOK, WholeStage, GatedStep PROVE WholeStage'
<1> USE DEF WholeStage
<1>1. CASE Steers
  BY <1>1, SteersEffect DEF StagedWrites
<1>2. CASE CommitOk \/ ApplyOk \/ StopOk
  BY <1>2, MarkEffect DEF CommitOk, ApplyOk, StopOk
<1>3. CASE ApplyGivenUp
  BY <1>3 DEF ApplyGivenUp, TypeOK, Stages
<1>4. CASE Node
  BY <1>4 DEF Node, NodeServes, NodeWrites, NodeMines, NodeAnswers, NodeRefuses, NodeDrops, LateWrites, LateMines, minerVars
<1>5. CASE Miner /\ ~CommitOk /\ ~ApplyOk /\ ~StopOk /\ ~ApplyGivenUp
  BY <1>5 DEF Miner, BeginTick, PassGate, CommitFails, ApplyRetry, ApplyHeld, MineOk, MineFails, LeaveLoop, StopFlush, StopFails
<1>6. QED
  BY <1>1, <1>2, <1>3, <1>4, <1>5 DEF GatedStep

\* The miner's own steps, and the coordinator's, leave the record of blocks alone.
LEMMA OnlyMinesAddBlocks ==
    ASSUME GatedStep, ~NodeMines, ~LateMines
    PROVE  UNCHANGED <<blocks, chainHead>>
<1>1. CASE Miner
  BY <1>1 DEF Miner, BeginTick, PassGate, CommitOk, CommitFails, ApplyOk, ApplyRetry, ApplyHeld, ApplyGivenUp, MineOk, MineFails, LeaveLoop, StopFlush, StopOk, StopFails, nodeVars
<1>2. CASE Node
  BY <1>2 DEF Node, NodeServes, NodeWrites, NodeAnswers, NodeRefuses, NodeDrops, LateWrites
<1>3. CASE Steers
  BY <1>3 DEF Steers, nodeVars
<1>4. QED
  BY <1>1, <1>2, <1>3 DEF GatedStep

\* A new block takes the state of the moment and leaves the older blocks alone.
LEMMA AddBlockEffect ==
    ASSUME TypeOK, NEW how, AddBlock(how)
    PROVE  /\ chainHead' = chainHead + 1
           /\ DOMAIN blocks' = (StartHead + 1)..(chainHead + 1)
           /\ DOMAIN blocks = (StartHead + 1)..chainHead
           /\ blocks'[chainHead + 1] = [prices |-> storage, gate |-> how]
           /\ \A b \in DOMAIN blocks : blocks'[b] = blocks[b]
BY DEF AddBlock, TypeOK

\* The node only writes for a request of the wait it belongs to.
LEMMA WritesWhen ==
    ASSUME TypeOK, SureInv, CallMatchesWait, NodeWrites
    PROVE  pc \in {"commit", "apply1", "apply2", "stop1", "stop2"} /\ ~Mined
<1>1. call.todo # {}
  BY WritesEffect
<1>2. pc # "mine" /\ ~Mined
  BY <1>1 DEF SureInv, SureCall, SureHead, WaitIsForCall
<1>3. pc \notin {"tick", "gate", "exited", "done"}
  BY <1>1, NoCallFields DEF CallMatchesWait
<1>4. QED
  BY <1>2, <1>3 DEF TypeOK

LEMMA OpenStep ==
    ASSUME ConfirmedMines, TypeOK, SureInv, CallMatchesWait, WholeStage, OpenGate, GatedStep
    PROVE  OpenGate'
<1>a. SUFFICES ASSUME gate' = "open", ~Mined'
               PROVE  /\ (pc \in {"commit", "apply1", "apply2"})' =>
                           /\ staged'.forBlock = chainHead' /\ staged'.writes = Slots /\ ~staged'.applied
                           /\ trying'.forBlock = chainHead' /\ trying'.writes = Slots
                           /\ call'.price = chainHead'
                           /\ ~call'.bad => \A s \in Slots \ call'.todo : storage'[s] = chainHead'
                      /\ pc' = "mine" => \A s \in Slots : storage'[s] = chainHead'
  BY DEF OpenGate
<1> USE DEF OpenGate
<1>1. CASE PassGate
  <2>1. pc = "gate" /\ UNCHANGED <<head, staged, chainHead, storage>> /\ ~Mined
    BY <1>1 DEF PassGate, Mined
  <2>2. Ready /\ staged.writes # {}
    BY <1>1, <1>a DEF PassGate
  <2>3. staged.forBlock = chainHead /\ ~staged.applied /\ staged.writes = Slots
    BY <2>1, <2>2 DEF Ready, SureInv, SureHead, WholeStage, TypeOK, Stages
  <2>4. SendCommit \/ SendApply("apply1")
    BY <1>1, <2>3 DEF PassGate
  <2>5. QED
    BY <2>1, <2>3, <2>4, CommitSent, ApplySent DEF JustSent
<1>2. CASE CommitFails
  <2>1. pc = "commit" /\ ~Mined /\ UNCHANGED <<staged, chainHead, storage, gate>>
    BY <1>2, SureFailure DEF CommitFails
  <2>2. staged.forBlock = chainHead /\ staged.writes = Slots /\ ~staged.applied
    BY <2>1, <1>a
  <2>3. SendApply("apply1")
    BY <1>2, <2>2 DEF CommitFails
  <2>4. QED
    BY <2>1, <2>2, <2>3, ApplySent DEF JustSent
<1>3. CASE ApplyOk
  <2>1. pc \in {"apply1", "apply2"} /\ ~Mined /\ UNCHANGED <<chainHead, storage, gate>> /\ pc' = "mine"
    BY <1>3, MineSent DEF ApplyOk, Mined
  <2>2. call.todo = {} /\ ~call.bad
    BY <1>3 DEF ApplyOk, CallOk, SureInv, SureCall
  <2>3. QED
    BY <2>1, <2>2, <1>a
<1>4. CASE ApplyRetry
  <2>1. UNCHANGED <<staged, trying, chainHead, storage, gate>> /\ call' = Request("apply", trying)
        /\ \/ pc = "apply1" /\ pc' = "apply2"
           \/ pc' = "stop2"
    BY <1>4 DEF ApplyRetry
  <2>2. call'.price = trying.forBlock /\ call'.todo = trying.writes
    BY <2>1, RequestFields
  <2>3. CASE pc = "apply1" /\ pc' = "apply2"
    BY <2>1, <2>2, <2>3, <1>a DEF Mined
  <2>4. QED
    BY <2>1, <2>3
<1>5. CASE ApplyGivenUp
  BY <1>5, <1>a DEF ApplyGivenUp
<1>6. CASE BeginTick \/ CommitOk \/ ApplyHeld \/ MineOk \/ MineFails \/ LeaveLoop \/ StopFlush \/ StopOk \/ StopFails
  <2>1. pc' \in {"tick", "gate", "exited", "done", "stop1"}
    BY <1>6, ApplySent DEF BeginTick, CommitOk, ApplyHeld, MineOk, MineFails, LeaveLoop, StopFlush, StopOk, StopFails
  <2>2. QED
    BY <2>1
<1>7. CASE NodeWrites
  <2>1. PICK s \in call.todo \cap Slots :
            /\ storage' = [storage EXCEPT ![s] = call.price]
            /\ call'.todo = call.todo \ {s}
    BY <1>7, WritesEffect
  <2>2. /\ UNCHANGED <<pc, staged, trying, gate, chainHead>> /\ call'.price = call.price
        /\ call'.bad = call.bad
    BY <1>7, WritesEffect DEF minerVars
  <2>3. pc # "mine" /\ ~Mined
    BY <1>7, WritesWhen
  <2>4. storage \in [Slots -> Nat]
    BY DEF TypeOK
  <2>5. QED
    BY <2>1, <2>2, <2>3, <2>4, <1>a
<1>8. CASE NodeMines
  <2>1. pc' = pc /\ call.kind \in {"commit", "mine"} /\ ~call'.mines
    BY <1>8, MinesEffect DEF minerVars, SureInv, SureCall
  <2>2. Mined'
    BY <2>1 DEF Mined, SureInv, WaitIsForCall, TypeOK
  <2>3. QED
    BY <2>2, <1>a
<1>9. CASE NodeAnswers \/ NodeRefuses \/ NodeDrops
  <2>1. /\ UNCHANGED <<pc, staged, trying, gate, chainHead, storage>> /\ call'.price = call.price
        /\ call'.mines = call.mines
        /\ call'.bad \/ (call'.bad = call.bad /\ call'.todo = call.todo)
    BY <1>9, AnswersEffect, RefusesEffect, DropsEffect DEF minerVars, TypeOK, Calls
  <2>2. QED
    BY <2>1, <1>a DEF Mined
<1>10. CASE LateWrites \/ LateMines
  BY <1>10 DEF LateWrites, LateMines, SureInv, SureHead
<1>11. CASE Steers
  <2>1. UNCHANGED <<pc, trying, gate, chainHead, storage, call>>
    BY <1>11, SteersEffect
  <2>2. staged' = staged \/ staged'.forBlock \in (staged.forBlock + 1)..chainHead
    BY <1>11, SteersEffect
  <2>3. CASE staged' = staged
    BY <2>1, <2>3, <1>a DEF Mined
  <2>4. CASE staged.forBlock < chainHead
    BY <2>1, <2>4, <1>a DEF Mined, TypeOK
  <2>5. QED
    BY <2>2, <2>3, <2>4 DEF TypeOK, Stages
<1>12. QED
  BY <1>1, <1>2, <1>3, <1>4, <1>5, <1>6, <1>7, <1>8, <1>9, <1>10, <1>11
  DEF GatedStep, Miner, Node, NodeServes

LEMMA PricedStep ==
    ASSUME ConfirmedMines, TypeOK, SureInv, CallMatchesWait, PricedInv, GatedStep
    PROVE  PricedInv'
<1>1. WholeStage' /\ OpenGate'
  BY WholeStep, OpenStep DEF PricedInv
<1>2. PricedByItsPass'
  <2>1. CASE NodeMines
    <3>1. AddBlock(gate) /\ call.mines /\ call.todo = {} /\ UNCHANGED gate
      BY <2>1, MinesEffect DEF minerVars
    <3>2. call.kind \in {"commit", "mine"} /\ ~call.bad /\ pc \in {"commit", "mine"} /\ ~Mined
      BY <3>1 DEF SureInv, SureCall, WaitIsForCall, TypeOK, Mined
    <3>3. gate = "open" => \A s \in Slots : storage[s] = chainHead
      BY <3>1, <3>2 DEF PricedInv, OpenGate
    <3>4. SUFFICES ASSUME NEW b \in DOMAIN blocks', blocks'[b].gate = "open"
                   PROVE  \A s \in Slots : blocks'[b].prices[s] = b - 1
      BY DEF PricedByItsPass
    <3>5. /\ DOMAIN blocks' = (StartHead + 1)..(chainHead + 1)
          /\ DOMAIN blocks = (StartHead + 1)..chainHead
          /\ blocks'[chainHead + 1] = [prices |-> storage, gate |-> gate]
          /\ \A c \in DOMAIN blocks : blocks'[c] = blocks[c]
          /\ chainHead \in Nat
      BY <3>1, AddBlockEffect DEF TypeOK
    <3>6. CASE b = chainHead + 1
      BY <3>3, <3>4, <3>5, <3>6
    <3>7. CASE b \in DOMAIN blocks
      BY <3>4, <3>5, <3>7 DEF PricedInv, PricedByItsPass
    <3>8. QED
      BY <3>4, <3>5, <3>6, <3>7
  <2>2. CASE ~NodeMines
    <3>1. ~LateMines
      BY DEF LateMines, SureInv, SureHead
    <3>2. QED
      BY <2>2, <3>1, OnlyMinesAddBlocks DEF PricedInv, PricedByItsPass
  <2>3. QED
    BY <2>1, <2>2
<1>3. QED
  BY <1>1, <1>2 DEF PricedInv

LEMMA PricedStart == Init => PricedInv
BY DEF Init, PricedInv, WholeStage, OpenGate, PricedByItsPass, NoStage

\* SureInv, HeadInv and TypeOK, the ground every further invariant stands on.
GroundInv == TypeOK /\ HeadInv /\ SureInv

LEMMA GroundStart == Init => GroundInv
BY TypeStart, HeadStart, SureStart DEF GroundInv

LEMMA GroundStep == ConfirmedMines /\ GroundInv /\ GatedStep => GroundInv'
BY TypeStep, HeadStep, SureStep DEF GroundInv

\* While every answer comes and every mine is confirmed or refused, a block that went out through an
\* open gate carries the set its parent's pass computed, whatever writes fail and however often.
THEOREM PricedByThePass == ASSUME ConfirmedMines PROVE Spec => []PricedByItsPass
<1>1. GroundInv /\ [Next]_vars => GroundInv'
  BY GroundStep, NextIsGated
<1>2. GroundInv /\ PricedInv /\ [Next]_vars => PricedInv'
  BY PricedStep, NextIsGated DEF GroundInv, HeadInv
<1>3. PricedInv => PricedByItsPass
  BY DEF PricedInv
<1>4. QED
  BY <1>1, <1>2, <1>3, GroundStart, PricedStart, PTL DEF Spec

-----------------------------------------------------------------------------
(* A block is built on a half-written set only after a give-up *)

\* A batch that lost part of its work is not followed by a stage with nothing to write, which would
\* mine the leftover as if it were priced.
WholeStagesIfPartial == Partial => ~PassesFail

Uniform == \A s, t \in Slots : storage[s] = storage[t]
RepeatsHead == chainHead \in DOMAIN blocks /\ storage = blocks[chainHead].prices
Settled == Uniform \/ RepeatsHead

FailedUntouched == call.answer = "failed" => Partial \/ ~call.touched
MinesNeverFailHalf == call.kind = "mine" /\ call.answer = "failed" => ~Partial

\* What a write in progress leaves behind is not mined on: a set half written is either finished,
\* tried again, or given up on.
HalfWritten ==
    /\ pc \in {"tick", "gate"} => Settled \/ (Partial /\ ~staged.applied)
    /\ Mined => Settled
    /\ pc = "mine" => Settled \/ (call.mines /\ gate = "gaveUp" /\ Partial)
    /\ pc \in {"commit", "apply1", "apply2"} /\ ~Mined =>
         /\ ~staged.applied
         /\ trying.writes \in {{}, Slots}
         /\ Partial => trying.writes = Slots
         /\ call.price = trying.forBlock
         /\ ~call.touched => call.todo = trying.writes /\ (Settled \/ Partial)
         /\ call.touched /\ ~call.bad =>
              /\ trying.writes = Slots
              /\ \A s \in Slots \ call.todo : storage[s] = call.price

WholePending == WholeStage /\ (~PassesFail /\ ~staged.applied => staged.writes = Slots)

MixedInv ==
    WholePending /\ FailedUntouched /\ MinesNeverFailHalf /\ HalfWritten /\ MixedOnlyAfterGiveUp

\* How a call can have failed.
LEMMA FailureStep ==
    ASSUME ConfirmedMines, GroundInv, FailedUntouched, MinesNeverFailHalf, GatedStep
    PROVE  FailedUntouched' /\ MinesNeverFailHalf'
<1> USE DEF FailedUntouched, MinesNeverFailHalf, GroundInv
<1>1. CASE NodeWrites \/ NodeMines \/ NodeDrops
  BY <1>1, WritesEffect, MinesEffect, DropsEffect
<1>2. CASE NodeAnswers
  BY <1>2, AnswersEffect DEF SureInv, SureCall
<1>3. CASE NodeRefuses
  BY <1>3, RefusesEffect DEF ConfirmedMines
<1>4. CASE LateWrites \/ LateMines
  BY <1>4 DEF LateWrites, LateMines
<1>5. CASE Steers
  BY <1>5, SteersEffect
<1>6. CASE Miner
  <2>1. call' = call \/ call' = NoCall \/ call'.answer = "open"
    <3>1. CASE BeginTick \/ LeaveLoop \/ CommitOk \/ ApplyHeld \/ MineOk \/ MineFails \/ StopOk \/ StopFails
      BY <3>1 DEF BeginTick, LeaveLoop, CommitOk, ApplyHeld, MineOk, MineFails, StopOk, StopFails, nodeVars
    <3>2. CASE ApplyRetry
      BY <3>2, RequestFields DEF ApplyRetry
    <3>3. CASE PassGate \/ CommitFails \/ ApplyOk \/ ApplyGivenUp \/ StopFlush
      BY <3>3, MineSent, CommitSent, ApplySent DEF PassGate, CommitFails, ApplyOk, ApplyGivenUp, StopFlush, JustSent
    <3>4. QED
      BY <1>6, <3>1, <3>2, <3>3 DEF Miner
  <2>2. QED
    BY <2>1, NoCallFields
<1>7. QED
  BY <1>1, <1>2, <1>3, <1>4, <1>5, <1>6 DEF GatedStep, Node, NodeServes

LEMMA PendingStep ==
    ASSUME TypeOK, WholePending, GatedStep PROVE WholePending'
<1> USE DEF WholePending
<1>1. WholeStage'
  BY WholeStep
<1>2. CASE Steers
  BY <1>1, <1>2, SteersEffect DEF StagedWrites
<1>3. CASE CommitOk \/ ApplyOk \/ StopOk
  BY <1>1, <1>3, MarkEffect DEF CommitOk, ApplyOk, StopOk
<1>4. CASE ApplyGivenUp
  BY <1>1, <1>4 DEF ApplyGivenUp, TypeOK, Stages
<1>5. CASE Node
  BY <1>1, <1>5 DEF Node, NodeServes, NodeWrites, NodeMines, NodeAnswers, NodeRefuses, NodeDrops, LateWrites, LateMines, minerVars
<1>6. CASE Miner /\ ~CommitOk /\ ~ApplyOk /\ ~StopOk /\ ~ApplyGivenUp
  BY <1>1, <1>6 DEF Miner, BeginTick, PassGate, CommitFails, ApplyRetry, ApplyHeld, MineOk, MineFails, LeaveLoop, StopFlush, StopFails
<1>7. QED
  BY <1>2, <1>3, <1>4, <1>5, <1>6 DEF GatedStep

\* A stage just sent for writing, from a state that is settled or may be half written already.
LEMMA WritesSent ==
    ASSUME TypeOK, WholeStagesIfPartial, WholePending, ~staged.applied, Settled \/ Partial,
           UNCHANGED <<storage, blocks, chainHead, staged>>,
           (SendCommit /\ pc' = "commit") \/ (SendApply("apply1") /\ pc' = "apply1")
    PROVE  HalfWritten'
<1>1. /\ call'.price = staged.forBlock /\ ~call'.touched /\ call'.todo = staged.writes
      /\ trying' = staged /\ (pc' = "commit" => call'.mines)
  BY CommitSent, ApplySent DEF JustSent
<1>2. Settled' = Settled
  BY DEF Settled, Uniform, RepeatsHead
<1>3. ~Mined'
  BY <1>1 DEF Mined
<1>4. staged.writes \in {{}, Slots} /\ (Partial => staged.writes = Slots)
  BY DEF WholePending, WholeStage, WholeStagesIfPartial
<1>5. QED
  BY <1>1, <1>2, <1>3, <1>4 DEF HalfWritten

LEMMA HalfStep ==
    ASSUME ConfirmedMines, WholeStagesIfPartial, GroundInv, FailedUntouched, MinesNeverFailHalf,
           WholePending, HalfWritten, GatedStep
    PROVE  HalfWritten'
<1> USE DEF GroundInv, HeadInv
<1>s. UNCHANGED <<storage, blocks, chainHead>> => Settled' = Settled
  BY DEF Settled, Uniform, RepeatsHead
<1>1. CASE PassGate
  <2>1. pc = "gate" /\ UNCHANGED <<storage, blocks, chainHead, staged>>
    BY <1>1 DEF PassGate
  <2>2. Settled \/ (Partial /\ ~staged.applied)
    BY <2>1 DEF HalfWritten
  <2>3. CASE staged.applied
    <3>1. SendMine
      BY <1>1, <2>3 DEF PassGate
    <3>2. QED
      BY <2>1, <2>2, <2>3, <3>1, <1>s, MineSent DEF HalfWritten, Mined
  <2>4. CASE ~staged.applied
    <3>1. SendCommit \/ SendApply("apply1")
      BY <1>1, <2>4 DEF PassGate
    <3>2. QED
      BY <2>1, <2>2, <2>4, <3>1, CommitSent, ApplySent, WritesSent
  <2>5. QED
    BY <2>3, <2>4
<1>2. CASE CommitFails
  <2>1. pc = "commit" /\ ~Mined /\ UNCHANGED <<storage, blocks, chainHead, staged>>
        /\ call.answer = "failed"
    BY <1>2, SureFailure DEF CommitFails
  <2>2. ~staged.applied /\ (Settled \/ Partial)
    BY <2>1 DEF HalfWritten, FailedUntouched
  <2>3. SendApply("apply1")
    BY <1>2, <2>2 DEF CommitFails
  <2>4. QED
    BY <2>1, <2>2, <2>3, ApplySent, WritesSent
<1>3. CASE ApplyOk
  <2>1. pc \in {"apply1", "apply2"} /\ ~Mined /\ UNCHANGED <<storage, blocks, chainHead>> /\ SendMine
    BY <1>3 DEF ApplyOk, Mined
  <2>2. call.todo = {} /\ ~call.bad
    BY <1>3 DEF ApplyOk, CallOk, SureInv, SureCall
  <2>3. Settled
    <3>1. CASE call.touched
      BY <2>1, <2>2, <3>1 DEF HalfWritten, Settled, Uniform
    <3>2. CASE ~call.touched
      BY <2>1, <2>2, <3>2 DEF HalfWritten
    <3>3. QED
      BY <3>1, <3>2
  <2>4. QED
    BY <2>1, <2>3, <1>s, MineSent DEF HalfWritten, Mined
<1>4. CASE ApplyRetry
  <2>1. UNCHANGED <<storage, blocks, chainHead, staged, trying>> /\ call' = Request("apply", trying)
        /\ \/ pc = "apply1" /\ pc' = "apply2"
           \/ pc' = "stop2"
    BY <1>4 DEF ApplyRetry
  <2>2. call'.price = trying.forBlock /\ call'.todo = trying.writes /\ ~call'.touched
    BY <2>1, RequestFields
  <2>3. call.answer = "failed"
    BY <1>4, SureFailure DEF ApplyRetry
  <2>4. CASE pc = "apply1" /\ pc' = "apply2"
    <3>1. ~Mined /\ ~Mined'
      BY <2>4 DEF Mined
    <3>2. Settled \/ Partial
      BY <2>3, <2>4, <3>1 DEF HalfWritten, FailedUntouched
    <3>3. QED
      BY <2>1, <2>2, <2>4, <3>1, <3>2, <1>s DEF HalfWritten
  <2>5. CASE pc' = "stop2"
    BY <2>5 DEF HalfWritten, Mined
  <2>6. QED
    BY <2>1, <2>4, <2>5
<1>5. CASE ApplyHeld \/ ApplyGivenUp
  <2>1. pc = "apply2" /\ ~Mined /\ UNCHANGED <<storage, blocks, chainHead>> /\ call.answer = "failed"
    BY <1>5, SureFailure DEF ApplyHeld, ApplyGivenUp
  <2>2. ~staged.applied /\ (Settled \/ Partial)
    BY <2>1 DEF HalfWritten, FailedUntouched
  <2>3. CASE ApplyHeld
    BY <2>1, <2>2, <2>3, <1>s DEF ApplyHeld, HalfWritten, Mined
  <2>4. CASE ApplyGivenUp
    <3>1. pc' = "mine" /\ call'.mines /\ gate' = "gaveUp"
      BY <2>4, MineSent DEF ApplyGivenUp
    <3>2. QED
      BY <2>1, <2>2, <3>1, <1>s DEF HalfWritten, Mined
  <2>5. QED
    BY <1>5, <2>3, <2>4
<1>6. CASE CommitOk \/ MineOk
  <2>1. /\ pc \in {"commit", "mine"} /\ Mined /\ pc' = "tick"
        /\ UNCHANGED <<storage, blocks, chainHead>>
    BY <1>6 DEF CommitOk, MineOk, CallOk, Mined, SureInv, SureCall
  <2>2. QED
    BY <2>1, <1>s DEF HalfWritten, Mined
<1>7. CASE MineFails
  <2>1. pc = "mine" /\ call.answer = "failed" /\ pc' = "tick" /\ UNCHANGED <<storage, blocks, chainHead>>
    BY <1>7, SureFailure DEF MineFails
  <2>2. ~Partial
    BY <2>1 DEF SureInv, WaitIsForCall, MinesNeverFailHalf
  <2>3. QED
    BY <2>1, <2>2, <1>s DEF HalfWritten, Mined
<1>8. CASE BeginTick
  BY <1>8, <1>s DEF BeginTick, nodeVars, HalfWritten, Mined
<1>9. CASE LeaveLoop \/ StopFlush \/ StopOk \/ StopFails
  <2>1. pc' \in {"exited", "done", "stop1"}
    BY <1>9, ApplySent DEF LeaveLoop, StopFlush, StopOk, StopFails
  <2>2. QED
    BY <2>1 DEF HalfWritten, Mined
<1>10. CASE NodeWrites
  <2>1. PICK s \in call.todo \cap Slots :
            /\ storage' = [storage EXCEPT ![s] = call.price]
            /\ call'.todo = call.todo \ {s}
    BY <1>10, WritesEffect
  <2>2. /\ UNCHANGED <<pc, staged, trying, gate>> /\ call'.price = call.price
        /\ call'.bad = call.bad /\ call'.mines = call.mines /\ call'.touched
    BY <1>10, WritesEffect DEF minerVars
  <2>3. pc \in {"commit", "apply1", "apply2", "stop1", "stop2"} /\ ~Mined /\ ~Mined'
    BY <1>10, <2>2, WritesWhen DEF Mined
  <2>4. storage \in [Slots -> Nat]
    BY DEF TypeOK
  <2>5. CASE pc \in {"stop1", "stop2"}
    BY <2>2, <2>3, <2>5 DEF HalfWritten
  <2>6. CASE pc \in {"commit", "apply1", "apply2"}
    <3>1. ~call.bad => trying.writes = Slots /\ \A t \in Slots \ call.todo : storage[t] = call.price
      BY <2>1, <2>3, <2>6 DEF HalfWritten
    <3>2. ~call.bad => \A t \in Slots \ call'.todo : storage'[t] = call.price
      BY <2>1, <2>4, <3>1
    <3>3. QED
      BY <2>2, <2>3, <2>6, <3>1, <3>2 DEF HalfWritten
  <2>7. QED
    BY <2>3, <2>5, <2>6
<1>11. CASE NodeMines
  <2>1. AddBlock(gate) /\ UNCHANGED storage /\ pc' = pc
    BY <1>11, MinesEffect DEF minerVars
  <2>2. /\ chainHead' = chainHead + 1
        /\ DOMAIN blocks' = (StartHead + 1)..(chainHead + 1)
        /\ blocks'[chainHead + 1] = [prices |-> storage, gate |-> gate]
    BY <2>1, AddBlockEffect
  <2>3. RepeatsHead'
    BY <2>1, <2>2 DEF RepeatsHead, TypeOK
  <2>4. call.kind \in {"commit", "mine"} /\ ~call'.mines
    BY <1>11, MinesEffect DEF SureInv, SureCall
  <2>5. Mined'
    BY <2>1, <2>4 DEF Mined, SureInv, WaitIsForCall, TypeOK
  <2>6. QED
    BY <2>1, <2>3, <2>5 DEF HalfWritten, Settled, Mined
<1>12. CASE NodeAnswers \/ NodeRefuses
  <2>1. /\ UNCHANGED <<pc, staged, trying, gate, chainHead, storage, blocks>> /\ call'.price = call.price
        /\ call'.mines = call.mines /\ call'.bad = call.bad /\ call'.todo = call.todo
        /\ call'.touched = call.touched
    BY <1>12, AnswersEffect, RefusesEffect DEF minerVars, TypeOK, Calls
  <2>2. QED
    BY <2>1, <1>s DEF Mined, HalfWritten
<1>13. CASE NodeDrops
  <2>1. /\ UNCHANGED <<pc, staged, trying, gate, chainHead, storage, blocks>> /\ call'.price = call.price
        /\ call'.mines = call.mines /\ call'.bad /\ call'.touched /\ call.kind = "apply"
    BY <1>13, DropsEffect DEF minerVars
  <2>2. QED
    BY <2>1, <1>s DEF Mined, HalfWritten
<1>14. CASE LateWrites \/ LateMines
  BY <1>14 DEF LateWrites, LateMines, SureInv, SureHead
<1>15. CASE Steers
  BY <1>15, <1>s, SteersEffect DEF Mined, HalfWritten
<1>16. QED
  BY <1>1, <1>2, <1>3, <1>4, <1>5, <1>6, <1>7, <1>8, <1>9, <1>10, <1>11, <1>12, <1>13, <1>14, <1>15
  DEF GatedStep, Miner, Node, NodeServes

\* The state a block is built on, when the node mines it.
LEMMA MinedOn ==
    ASSUME ConfirmedMines, GroundInv, HalfWritten, NodeMines
    PROVE  Settled \/ gate = "gaveUp"
<1> USE DEF GroundInv
<1>1. call.mines /\ call.todo = {}
  BY MinesEffect
<1>2. call.kind \in {"commit", "mine"} /\ ~call.bad /\ pc \in {"commit", "mine"} /\ ~Mined
  BY <1>1 DEF SureInv, SureCall, WaitIsForCall, TypeOK, Mined
<1>3. CASE pc = "mine"
  BY <1>3 DEF HalfWritten
<1>4. CASE pc = "commit" /\ call.touched
  BY <1>1, <1>2, <1>4 DEF HalfWritten, Settled, Uniform
<1>5. CASE pc = "commit" /\ ~call.touched
  <2>1. ~Partial
    BY <1>5 DEF SureInv, WaitIsForCall, ConfirmedMines
  <2>2. QED
    BY <1>2, <1>5, <2>1 DEF HalfWritten
<1>6. QED
  BY <1>2, <1>3, <1>4, <1>5

LEMMA MixedStep ==
    ASSUME ConfirmedMines, WholeStagesIfPartial, GroundInv, MixedInv, GatedStep
    PROVE  MixedInv'
<1>1. FailedUntouched' /\ MinesNeverFailHalf' /\ WholePending' /\ HalfWritten'
  BY FailureStep, PendingStep, HalfStep DEF MixedInv, GroundInv
<1>2. MixedOnlyAfterGiveUp'
  <2>1. CASE NodeMines
    <3>1. AddBlock(gate)
      BY <2>1, MinesEffect DEF GroundInv
    <3>2. /\ DOMAIN blocks' = (StartHead + 1)..(chainHead + 1)
          /\ DOMAIN blocks = (StartHead + 1)..chainHead
          /\ blocks'[chainHead + 1] = [prices |-> storage, gate |-> gate]
          /\ \A c \in DOMAIN blocks : blocks'[c] = blocks[c]
          /\ chainHead \in Nat /\ chainHead + 1 - 1 = chainHead
      BY <3>1, AddBlockEffect DEF TypeOK, GroundInv
    <3>3. Settled \/ gate = "gaveUp"
      BY <2>1, MinedOn DEF MixedInv
    <3>4. SUFFICES ASSUME NEW b \in DOMAIN blocks', Mixed(b)'
                   PROVE  blocks'[b].gate = "gaveUp" \/ RepeatsParent(b)'
      BY DEF MixedOnlyAfterGiveUp
    <3>5. CASE b = chainHead + 1
      <4>1. CASE Uniform
        BY <3>2, <3>4, <3>5, <4>1 DEF Uniform, Mixed
      <4>2. CASE RepeatsHead
        <5>1. blocks'[chainHead].prices = storage /\ chainHead \in DOMAIN blocks'
          BY <3>2, <4>2 DEF RepeatsHead
        <5>2. QED
          BY <3>2, <3>5, <5>1 DEF RepeatsParent
      <4>3. QED
        BY <3>2, <3>3, <3>5, <4>1, <4>2 DEF Settled
    <3>6. CASE b \in DOMAIN blocks
      <4>1. Mixed(b)
        BY <3>2, <3>4, <3>6 DEF Mixed
      <4>2. CASE blocks[b].gate = "gaveUp"
        BY <3>2, <3>6, <4>2
      <4>3. CASE RepeatsParent(b)
        BY <3>2, <3>6, <4>3 DEF RepeatsParent
      <4>4. QED
        BY <3>6, <4>1, <4>2, <4>3 DEF MixedInv, MixedOnlyAfterGiveUp
    <3>7. QED
      BY <3>2, <3>4, <3>5, <3>6
  <2>2. CASE ~NodeMines
    <3>1. ~LateMines
      BY DEF LateMines, SureInv, SureHead, GroundInv
    <3>2. QED
      BY <2>2, <3>1, OnlyMinesAddBlocks DEF MixedInv, MixedOnlyAfterGiveUp, Mixed, RepeatsParent
  <2>3. QED
    BY <2>1, <2>2
<1>3. QED
  BY <1>1, <1>2 DEF MixedInv

LEMMA MixedStart == Init => MixedInv
<1> SUFFICES ASSUME Init PROVE MixedInv
  OBVIOUS
<1>1. WholePending /\ FailedUntouched /\ MinesNeverFailHalf /\ MixedOnlyAfterGiveUp
  BY NoCallFields DEF Init, WholePending, WholeStage, NoStage, FailedUntouched, MinesNeverFailHalf, MixedOnlyAfterGiveUp
<1>2. Uniform /\ pc = "tick"
  BY DEF Init, Uniform
<1>3. QED
  BY <1>1, <1>2 DEF MixedInv, HalfWritten, Settled, Mined

\* While every mine is confirmed or refused and no batch is lost in part before a stage with nothing
\* to write, no block is built on a mix of two price sets unless the miner gave up on the write.
THEOREM NeverMinedOnAMix ==
    ASSUME ConfirmedMines, WholeStagesIfPartial PROVE Spec => []MixedOnlyAfterGiveUp
<1>1. GroundInv /\ [Next]_vars => GroundInv'
  BY GroundStep, NextIsGated
<1>2. GroundInv /\ MixedInv /\ [Next]_vars => MixedInv'
  BY MixedStep, NextIsGated
<1>3. MixedInv => MixedOnlyAfterGiveUp
  BY DEF MixedInv
<1>4. QED
  BY <1>1, <1>2, <1>3, GroundStart, MixedStart, PTL DEF Spec

=============================================================================
