-------------------------- MODULE PeriodResume_proofs --------------------------
(***************************************************************************)
(* For any interval, history spacing and length, dump distance and faults: *)
(* a start whose reads are answered is refused only when no completed      *)
(* checkpoint is on the chain, and otherwise resumes less than Every       *)
(* blocks before the newest of them, whatever earlier starts misread.      *)
(* If no start misreads and the disk takes rows and new directories, the   *)
(* start also finds what it needs: the files and the series agree, hold    *)
(* nothing of a lost chain, and score each interval once.                  *)
(*                                                                         *)
(* The first argument is Covered: of every completed checkpoint there is a *)
(* history file on the chain less than Every blocks before it, or a newer  *)
(* one that the node's dump holds and no restart of the node can lose.     *)
(* Pruning turns the first case into the second: the oldest of the Keep    *)
(* newest files is (Keep - 1) * Every blocks behind the head, and the dump *)
(* is not.                                                                 *)
(*                                                                         *)
(* The second is Intact: behind every checkpoint that is on the chain the  *)
(* files hold the whole series up to it, in order and read on this chain,  *)
(* and the closed segments lie next to each other, each with its summary.  *)
(* A step leaves what is behind a checkpoint alone (Stays) or adds a row   *)
(* (ReadKeeps) or a segment (RollKeeps) to what is behind the next one.    *)
(***************************************************************************)
EXTENDS PeriodResume, FiniteSetTheorems, WellFoundedInduction, TLAPS

Checkpoints == history \cup {state}

StoreTypeOK ==
    /\ chain \in Seq(Nat)
    /\ \A b \in 1 .. Len(chain) : chain[b] \in 0 .. era
    /\ dumped \in Nat /\ era \in Nat
    /\ dumped <= ChainHead /\ ChainHead <= dumped + DumpEvery
    /\ IsFiniteSet(history)
    /\ \A cp \in Checkpoints \cup written : cp.block \in Nat /\ cp.era \in 0 .. era

SpacedBy(n, files) ==
    \A cp, later \in files : cp = later \/ cp.block + n <= later.block \/ later.block + n <= cp.block

StateIsNewest ==
    /\ state # NoCheckpoint => state.block >= Start
    /\ \A cp \in history : cp.block >= Start /\ (cp.block < state.block \/ cp = state)

\* What a restart of the node lost is the newest part of the history, and of an earlier life.
DeadIsNewest ==
    /\ \A cp \in Checkpoints : cp.block > ChainHead => cp.era < era
    /\ state # NoCheckpoint =>
         \A cp, later \in Checkpoints : OnChain(later) /\ cp.block <= later.block => OnChain(cp)

Covered(w) ==
    \E cp \in history :
        /\ OnChain(cp)
        /\ \/ cp.block <= w.block /\ w.block < cp.block + Every
           \/ cp.block <= dumped /\ w.block <= cp.block

StoreInv ==
    /\ StoreTypeOK
    /\ SpacedBy(Every, history)
    /\ StateIsNewest
    /\ DeadIsNewest
    /\ \A w \in written : Covered(w)

InPass == {"boundaries", "summarised", "closed", "opened", "checkpoint"}

\* While it runs, the coordinator knows the newest file, and the whole history is on the chain.
RunningInv ==
    /\ last \in Nat /\ lastHistory \in Int
    /\ last >= Start - 1 /\ last <= ChainHead
    /\ \A cp \in history : OnChain(cp) /\ cp.block <= lastHistory
    /\ lastHistory # NoHistory => \E cp \in history : cp.block = lastHistory
    /\ lastHistory <= last
    /\ pc \in InPass \cup {"history"} => last >= Start /\ lastHistory < last
    /\ pc = "history" => OnChain(state) /\ state.block = last /\ HistoryDue

\* While it starts, nothing newer than the checkpoint it resumes from is on the chain, or its reads
\* failed and it resumes from the history.
StartingInv ==
    /\ from \in Checkpoints /\ OnChain(from)
    /\ ~misread => \A cp \in history : OnChain(cp) => cp.block <= from.block
    /\ misread => from \in history
    /\ ~Rewound => from = state
    /\ pc \in {"open", "restore"} => \A cp \in history : cp.block <= from.block

KeptInv ==
    /\ StoreInv
    /\ pc \notin Running => state # NoCheckpoint
    /\ pc \in Running => RunningInv
    /\ pc \in Starting => StartingInv
    /\ RefusedOnlyIfLost /\ ResumesClose

-----------------------------------------------------------------------------
(* Sets of files *)

LEMMA LeastNatural ==
    ASSUME NEW T, T \subseteq Nat, T # {}
    PROVE  \E i \in T : \A j \in T : i <= j
<1> DEFINE Less == {ss \in Nat \X Nat : ss[1] < ss[2]}
<1>1. IsWellFoundedOn(Less, Nat)
  BY NatLessThanWellFounded, Zenon DEF OpToRel
<1>2. PICK i \in T : \A j \in T : <<j, i>> \notin Less
  BY <1>1, WFMin
<1>3. ASSUME NEW j \in T PROVE i <= j
  <2>1. i \in Nat /\ j \in Nat /\ (j < i => <<j, i>> \in Less)
    OBVIOUS
  <2>2. ~(j < i)
    BY <1>2, <2>1
  <2>3. QED
    BY <2>1, <2>2
<1>4. QED
  BY <1>3

LEMMA GreatestNatural ==
    ASSUME NEW T, T \subseteq Nat, T # {}, NEW n \in Nat, \A i \in T : i <= n
    PROVE  \E i \in T : \A j \in T : j <= i
<1> DEFINE U == {n - i : i \in T}
<1>1. U \subseteq Nat /\ U # {}
  <2>1. \A i \in T : i \in Nat /\ i <= n
    OBVIOUS
  <2>2. \A i \in T : n - i \in Nat
    BY <2>1
  <2>3. QED
    BY <2>2
<1>2. PICK k \in U : \A l \in U : k <= l
  BY <1>1, LeastNatural
<1>3. PICK i \in T : k = n - i
  OBVIOUS
<1>4. ASSUME NEW j \in T PROVE j <= i
  <2>1. n - j \in U /\ i \in Nat /\ j \in Nat
    OBVIOUS
  <2>2. n - i <= n - j
    BY <1>2, <1>3, <2>1
  <2>3. QED
    BY <2>1, <2>2
<1>5. QED
  BY <1>4

\* Files that are n blocks apart take n blocks of room each.
LEMMA Room ==
    ASSUME NEW S, IsFiniteSet(S), \A cp \in S : cp.block \in Nat, NEW n \in Nat \ {0}, SpacedBy(n, S),
           NEW d \in S, NEW h \in Nat, \A cp \in S : d.block <= cp.block /\ cp.block <= h
    PROVE  Cardinality(S) \in Nat /\ Cardinality(S) * n <= h - d.block + n
<1> DEFINE P == S \X (0 .. n - 1)
           Q == d.block .. h + n - 1
           g == [p \in P |-> p[1].block + p[2]]
<1>1. d.block \in Nat /\ d.block <= h
  OBVIOUS
<1>2. IsFiniteSet(P) /\ Cardinality(P) = Cardinality(S) * n
  <2>1. IsFiniteSet(0 .. n - 1) /\ Cardinality(0 .. n - 1) = n
    <3>1. 0 \in Int /\ n - 1 \in Int
      OBVIOUS
    <3>2. /\ IsFiniteSet(0 .. n - 1)
          /\ Cardinality(0 .. n - 1) = IF 0 > n - 1 THEN 0 ELSE (n - 1) - 0 + 1
      BY <3>1, FS_Interval
    <3>3. QED
      BY <3>2
  <2>2. IsFiniteSet(P) /\ Cardinality(P) = Cardinality(S) * Cardinality(0 .. n - 1)
    BY <2>1, FS_Product
  <2>3. QED
    BY <2>1, <2>2
<1>3. IsFiniteSet(Q) /\ Cardinality(Q) = h - d.block + n
  <2>1. d.block \in Int /\ h + n - 1 \in Int
    BY <1>1
  <2>2. /\ IsFiniteSet(Q)
        /\ Cardinality(Q) = IF d.block > h + n - 1 THEN 0 ELSE (h + n - 1) - d.block + 1
    BY <2>1, FS_Interval
  <2>3. QED
    BY <1>1, <2>2
<1>4. g \in [P -> Q]
  <2>1. ASSUME NEW p \in P PROVE p[1].block + p[2] \in Q
    <3>1. p[1] \in S /\ p[2] \in 0 .. n - 1
      OBVIOUS
    <3>2. p[1].block \in Nat /\ d.block <= p[1].block /\ p[1].block <= h
      BY <3>1
    <3>3. QED
      BY <1>1, <3>1, <3>2
  <2>2. QED
    BY <2>1
<1>5. ASSUME NEW p \in P, NEW q \in P, g[p] = g[q] PROVE p = q
  <2>1. PICK cp \in S, i \in 0 .. n - 1 : p = <<cp, i>>
    OBVIOUS
  <2>2. PICK dp \in S, j \in 0 .. n - 1 : q = <<dp, j>>
    OBVIOUS
  <2>3. cp.block + i = dp.block + j /\ cp.block \in Nat /\ dp.block \in Nat
    BY <1>5, <2>1, <2>2
  <2>4. cp = dp \/ cp.block + n <= dp.block \/ dp.block + n <= cp.block
    BY DEF SpacedBy
  <2>5. cp = dp
    BY <2>3, <2>4
  <2>6. i = j
    BY <2>3, <2>5
  <2>7. QED
    BY <2>1, <2>2, <2>5, <2>6
<1> HIDE DEF g
<1>6. g \in Injection(P, Q)
  BY <1>4, <1>5 DEF Injection, IsInjective
<1>7. Cardinality(P) <= Cardinality(Q)
  BY <1>3, <1>6, FS_Injection
<1> HIDE DEF P, Q
<1>8. QED
  BY <1>2, <1>3, <1>7, FS_CardinalityType

NewerIn(files, cp) == {newer \in files : newer.block > cp.block}

\* For a file that is pruned there is a newer one that is kept, far enough behind the newest.
LEMMA PrunedForOlder ==
    ASSUME NEW S, IsFiniteSet(S), \A cp \in S : cp.block \in Nat, SpacedBy(Every, S),
           NEW h \in Nat, \A cp \in S : cp.block <= h,
           NEW c \in S, c \notin Pruned(S)
    PROVE  \E d \in Pruned(S) : d.block > c.block /\ d.block + (Keep - 1) * Every <= h
<1>0. Every \in Nat \ {0} /\ Keep \in Nat \ {0}
  BY PeriodAssumption
<1>1. \A cp \in S : /\ IsFiniteSet(NewerIn(S, cp)) /\ Cardinality(NewerIn(S, cp)) \in Nat
                    /\ cp \in Pruned(S) <=> Cardinality(NewerIn(S, cp)) < Keep
  <2> SUFFICES ASSUME NEW cp \in S
               PROVE  /\ IsFiniteSet(NewerIn(S, cp)) /\ Cardinality(NewerIn(S, cp)) \in Nat
                      /\ cp \in Pruned(S) <=> Cardinality(NewerIn(S, cp)) < Keep
    OBVIOUS
  <2>1. NewerIn(S, cp) \in SUBSET S
    BY DEF NewerIn
  <2>2. IsFiniteSet(NewerIn(S, cp))
    BY <2>1, FS_Subset
  <2>3. QED
    BY <2>2, FS_CardinalityType DEF Pruned, NewerIn
<1> DEFINE Many == {e \in S : Cardinality(NewerIn(S, e)) >= Keep}
           T == {e.block : e \in Many}
<1>2. c \in Many
  BY <1>0, <1>1
<1>3. PICK k \in T : \A j \in T : j <= k
  <2>1. T \subseteq Nat /\ T # {} /\ \A i \in T : i <= h
    BY <1>2
  <2>2. QED
    BY <2>1, GreatestNatural
<1>4. PICK e \in Many : k = e.block
  OBVIOUS
<1>5. c.block <= e.block
  BY <1>2, <1>3, <1>4
<1> DEFINE N == NewerIn(S, e)
<1>6. N # {} /\ IsFiniteSet(N) /\ N \subseteq S /\ Cardinality(N) \in Nat /\ Cardinality(N) >= Keep
  <2>1. IsFiniteSet(N) /\ N \subseteq S /\ Cardinality(N) \in Nat /\ Cardinality(N) >= Keep
    BY <1>1 DEF NewerIn
  <2>2. N # {}
    BY <1>0, <2>1, FS_EmptySet
  <2>3. QED
    BY <2>1, <2>2
<1>7. PICK d \in N : \A cp \in N : d.block <= cp.block
  <2> DEFINE B == {cp.block : cp \in N}
  <2>1. B \subseteq Nat /\ B # {}
    BY <1>6
  <2>2. PICK i \in B : \A j \in B : i <= j
    BY <2>1, LeastNatural
  <2>3. QED
    BY <2>2
<1>8. d \in S /\ d.block > e.block /\ d.block \in Nat /\ e.block \in Nat /\ c.block \in Nat
  BY <1>6 DEF NewerIn
<1>9. d \in Pruned(S)
  <2>1. d \notin Many
    BY <1>3, <1>4, <1>8
  <2>2. QED
    BY <1>0, <1>1, <1>8, <2>1
<1>10. Cardinality(N) * Every <= h - d.block + Every
  <2>1. SpacedBy(Every, N) /\ \A cp \in N : cp.block \in Nat /\ d.block <= cp.block /\ cp.block <= h
    BY <1>6, <1>7 DEF SpacedBy
  <2> HIDE DEF N
  <2>2. QED
    BY <1>0, <1>6, <2>1, Room
<1>11. d.block + (Keep - 1) * Every <= h
  <2>1. PICK m \in Nat : m = Cardinality(N)
    BY <1>6
  <2>2. m >= Keep /\ m * Every <= h - d.block + Every
    BY <1>6, <1>10, <2>1
  <2>3. Keep * Every <= m * Every
    BY <1>0, <2>2
  <2>4. (Keep - 1) * Every = Keep * Every - Every
    BY <1>0
  <2>5. Keep * Every \in Nat /\ m * Every \in Nat
    BY <1>0
  <2>6. QED
    BY <1>0, <1>8, <2>2, <2>3, <2>4, <2>5
<1>12. QED
  BY <1>5, <1>8, <1>9, <1>11

-----------------------------------------------------------------------------
(* The steps *)

LEMMA StoreKept ==
    ASSUME StoreInv, UNCHANGED <<node, saved, written>>
    PROVE  StoreInv'
<1>1. /\ chain' = chain /\ dumped' = dumped /\ era' = era
      /\ state' = state /\ history' = history /\ written' = written
  BY DEF node, saved
<1>2. StoreTypeOK' /\ SpacedBy(Every, history)' /\ StateIsNewest'
  BY <1>1 DEF StoreInv, StoreTypeOK, SpacedBy, StateIsNewest, Checkpoints, ChainHead
<1>3. DeadIsNewest'
  BY <1>1 DEF StoreInv, DeadIsNewest, Checkpoints, ChainHead, OnChain
<1>4. (\A w \in written : Covered(w))'
  BY <1>1 DEF StoreInv, Covered, ChainHead, OnChain
<1>5. QED
  BY <1>2, <1>3, <1>4 DEF StoreInv

\* A step of a pass that writes no checkpoint.
LEMMA PassStep ==
    ASSUME KeptInv, UNCHANGED <<node, saved, written, last, lastHistory>>, pc \in Running,
           pc' = "idle" \/ (pc \in InPass /\ pc' \in InPass)
    PROVE  KeptInv'
<1>1. /\ chain' = chain /\ last' = last /\ lastHistory' = lastHistory
      /\ history' = history /\ state' = state
  BY DEF node, saved
<1>2. StoreInv'
  BY StoreKept DEF KeptInv
<1>3. pc' \in Running /\ pc' \notin Starting /\ pc' # "refused" /\ pc' # "cut" /\ pc' # "history"
  BY DEF InPass, Running, Starting
<1>4. RunningInv
  BY DEF KeptInv
<1>5. pc' \in InPass \cup {"history"} => last >= Start /\ lastHistory < last
  BY <1>3, <1>4 DEF RunningInv, InPass
<1>6. RunningInv'
  BY <1>1, <1>3, <1>4, <1>5 DEF RunningInv, OnChain, ChainHead
<1>7. QED
  BY <1>2, <1>3, <1>6 DEF KeptInv, RefusedOnlyIfLost, ResumesClose

\* A step of a start that leaves the checkpoints alone.
LEMMA StartStep ==
    ASSUME KeptInv, UNCHANGED <<node, saved, written, from, misread>>, pc \in Starting,
           pc' \in Starting \cup {"stuck"}, pc' = "cut" => pc = "cut",
           pc' \in {"open", "restore"} => pc \in {"open", "restore"} \/ ~Rewound
    PROVE  KeptInv'
<1>1. /\ chain' = chain /\ from' = from /\ history' = history /\ state' = state
      /\ written' = written /\ misread' = misread
  BY DEF node, saved
<1>2. StoreInv'
  BY StoreKept DEF KeptInv
<1>3. pc' \notin Running /\ pc \notin Running /\ pc' # "refused"
  BY DEF Running, Starting
<1>4. StartingInv /\ StateIsNewest /\ StoreTypeOK
  BY DEF KeptInv, StoreInv
<1>5. pc' \in {"open", "restore"} => \A cp \in history : cp.block <= from.block
  <2>1. ~Rewound => \A cp \in history : cp.block <= from.block
    BY <1>4 DEF StartingInv, StateIsNewest, StoreTypeOK, Checkpoints
  <2>2. QED
    BY <1>4, <2>1 DEF StartingInv
<1>6. StartingInv'
  BY <1>1, <1>4, <1>5 DEF StartingInv, OnChain, ChainHead, Checkpoints, Rewound
<1>7. RefusedOnlyIfLost' /\ ResumesClose'
  BY <1>1, <1>3 DEF KeptInv, RefusedOnlyIfLost, ResumesClose
<1>8. QED
  BY <1>1, <1>2, <1>3, <1>6, <1>7 DEF KeptInv

LEMMA CrashStep ==
    ASSUME KeptInv, Crash \/ StartAgain
    PROVE  KeptInv'
<1>1. UNCHANGED <<node, saved, written>>
  BY DEF Crash, StartAgain, disk
<1>2. StoreInv'
  BY <1>1, StoreKept DEF KeptInv
<1>3. state' # NoCheckpoint /\ pc' = "down"
  BY DEF Crash, StartAgain, KeptInv, Running, disk, saved
<1>4. QED
  BY <1>2, <1>3 DEF KeptInv, Running, Starting, RefusedOnlyIfLost, ResumesClose

LEMMA MineStep ==
    ASSUME KeptInv, Mine
    PROVE  KeptInv'
<1>1. /\ chain' = Append(chain, era) /\ dumped' \in {dumped, ChainHead + 1}
      /\ ChainHead < dumped + DumpEvery
      /\ era' = era /\ state' = state /\ history' = history /\ written' = written
      /\ pc' = pc /\ last' = last /\ lastHistory' = lastHistory
  BY DEF Mine, disk, saved, memory
<1>2. pc \in {"idle", "down"}
  BY DEF Mine
<1>3. StoreTypeOK /\ StateIsNewest /\ DeadIsNewest /\ SpacedBy(Every, history) /\ DumpEvery \in Nat
  BY DumpAssumption DEF KeptInv, StoreInv
<1>4. /\ Len(chain') = Len(chain) + 1 /\ Len(chain) \in Nat /\ chain' \in Seq(Nat)
      /\ chain'[Len(chain) + 1] = era
      /\ \A b \in 1 .. Len(chain) : chain'[b] = chain[b]
  BY <1>1, <1>3 DEF StoreTypeOK
<1>5. StoreTypeOK'
  <2>1. \A b \in 1 .. Len(chain') : chain'[b] \in 0 .. era'
    BY <1>1, <1>3, <1>4 DEF StoreTypeOK
  <2>2. dumped' \in Nat /\ dumped' <= ChainHead' /\ ChainHead' <= dumped' + DumpEvery
    BY <1>1, <1>3, <1>4 DEF StoreTypeOK, ChainHead
  <2>3. QED
    BY <1>1, <1>3, <1>4, <2>1, <2>2 DEF StoreTypeOK, Checkpoints
<1>6. ASSUME NEW cp, cp.block \in Nat \ {0}, OnChain(cp) PROVE OnChain(cp)'
  BY <1>4, <1>6 DEF OnChain, ChainHead
<1>7. ASSUME NEW cp \in Checkpoints, cp.block \in Nat \ {0}, OnChain(cp)' PROVE OnChain(cp)
  <2>1. cp.block <= Len(chain) + 1 /\ chain'[cp.block] = cp.era
    BY <1>4, <1>7 DEF OnChain, ChainHead
  <2>2. cp.block # Len(chain) + 1
    <3> SUFFICES ASSUME cp.block = Len(chain) + 1 PROVE FALSE
      OBVIOUS
    <3>1. cp.block > ChainHead
      BY <1>4 DEF ChainHead
    <3>2. cp.era < era /\ cp.era = era
      BY <1>3, <1>4, <2>1, <3>1 DEF DeadIsNewest
    <3>3. era \in Nat
      BY <1>3 DEF StoreTypeOK
    <3>4. QED
      BY <3>2, <3>3
  <2>3. QED
    BY <1>4, <1>7, <2>1, <2>2 DEF OnChain, ChainHead
<1>8. state # NoCheckpoint => \A cp \in Checkpoints : cp.block \in Nat \ {0}
  BY <1>3, PeriodAssumption DEF StateIsNewest, Checkpoints, StoreTypeOK
<1>9. \A cp \in history : cp.block \in Nat \ {0} /\ (OnChain(cp) => OnChain(cp)')
  <2>1. \A cp \in history : cp.block \in Nat \ {0}
    BY <1>3, PeriodAssumption DEF StateIsNewest, Checkpoints, StoreTypeOK
  <2>2. QED
    BY <1>6, <2>1
<1>10. DeadIsNewest'
  <2>1. (\A cp \in Checkpoints : cp.block > ChainHead => cp.era < era)'
    BY <1>1, <1>3, <1>4 DEF DeadIsNewest, Checkpoints, ChainHead, StoreTypeOK
  <2>2. ASSUME state # NoCheckpoint, NEW cp \in Checkpoints, NEW later \in Checkpoints,
               OnChain(later)', cp.block <= later.block
        PROVE  OnChain(cp)'
    BY <1>3, <1>6, <1>7, <1>8, <2>2 DEF DeadIsNewest
  <2>3. QED
    BY <1>1, <2>1, <2>2 DEF DeadIsNewest, Checkpoints
<1>11. (\A w \in written : Covered(w))'
  <2> SUFFICES ASSUME NEW w \in written PROVE Covered(w)'
    BY <1>1
  <2>1. PICK cp \in history : /\ OnChain(cp)
                              /\ \/ cp.block <= w.block /\ w.block < cp.block + Every
                                 \/ cp.block <= dumped /\ w.block <= cp.block
    BY DEF KeptInv, StoreInv, Covered
  <2>2. OnChain(cp)' /\ cp.block \in Nat
    BY <1>9, <2>1
  <2>3. dumped' >= dumped /\ dumped \in Nat
    BY <1>1, <1>3 DEF StoreTypeOK, ChainHead
  <2>4. cp.block <= dumped => cp.block <= dumped'
    BY <1>1, <1>3, <2>2, <2>3 DEF StoreTypeOK, ChainHead
  <2>5. QED
    BY <1>1, <2>1, <2>2, <2>4 DEF Covered
<1>12. StoreInv'
  BY <1>1, <1>3, <1>5, <1>10, <1>11 DEF StoreInv, SpacedBy, StateIsNewest
<1>13. RefusedOnlyIfLost' /\ ResumesClose' /\ (pc \notin Running => state # NoCheckpoint)'
  BY <1>1, <1>2 DEF KeptInv, RefusedOnlyIfLost, ResumesClose
<1>14. pc' \in Running => RunningInv'
  <2> SUFFICES ASSUME pc' \in Running PROVE RunningInv'
    OBVIOUS
  <2>1. RunningInv /\ pc \in Running /\ pc \notin InPass \cup {"history"}
    BY <1>1, <1>2 DEF KeptInv, InPass
  <2>2. last' <= ChainHead'
    BY <1>1, <1>4, <2>1 DEF RunningInv, ChainHead
  <2>3. QED
    BY <1>1, <1>9, <2>1, <2>2 DEF RunningInv
<1>15. QED
  BY <1>1, <1>2, <1>12, <1>13, <1>14 DEF KeptInv, Starting

LEMMA RewindStep ==
    ASSUME KeptInv, Rewind
    PROVE  KeptInv'
<1>1. /\ chain' = SubSeq(chain, 1, dumped) /\ dumped' = dumped /\ era' = era + 1
      /\ written' = {cp \in written : cp.block <= dumped}
      /\ state' = state /\ history' = history /\ pc = "down" /\ pc' = "down"
      /\ dumped < ChainHead
  BY DEF Rewind, disk, saved
<1>2. StoreTypeOK /\ StateIsNewest /\ DeadIsNewest /\ SpacedBy(Every, history) /\ DumpEvery \in Nat
  BY DumpAssumption DEF KeptInv, StoreInv
<1>3. /\ Len(chain') = dumped /\ dumped \in Nat /\ Len(chain) \in Nat /\ dumped < Len(chain)
      /\ chain' \in Seq(Nat)
      /\ \A b \in 1 .. dumped : chain'[b] = chain[b]
  BY <1>1, <1>2 DEF StoreTypeOK, ChainHead
<1>4. StoreTypeOK'
  <2>1. \A b \in 1 .. Len(chain') : chain'[b] \in 0 .. era'
    <3>1. \A b \in 1 .. dumped : b \in 1 .. Len(chain)
      BY <1>3
    <3>2. era \in Nat /\ \A b \in 1 .. dumped : chain[b] \in 0 .. era
      BY <1>2, <3>1 DEF StoreTypeOK
    <3>3. \A b \in 1 .. dumped : chain[b] \in 0 .. (era + 1)
      BY <3>2
    <3>4. QED
      BY <1>1, <1>3, <3>3
  <2>2. dumped' \in Nat /\ dumped' <= ChainHead' /\ ChainHead' <= dumped' + DumpEvery
    BY <1>1, <1>2, <1>3 DEF StoreTypeOK, ChainHead
  <2>3. \A cp \in Checkpoints \cup written : cp.block \in Nat /\ cp.era \in 0 .. era + 1
    BY <1>2 DEF StoreTypeOK
  <2>4. QED
    BY <1>1, <1>2, <1>3, <2>1, <2>2, <2>3 DEF StoreTypeOK, Checkpoints
<1>5. ASSUME NEW cp, cp.block \in Nat \ {0}
      PROVE  OnChain(cp)' <=> OnChain(cp) /\ cp.block <= dumped
  BY <1>3, <1>5 DEF OnChain, ChainHead
<1>6. state # NoCheckpoint => \A cp \in Checkpoints : cp.block \in Nat \ {0}
  BY <1>2, PeriodAssumption DEF StateIsNewest, Checkpoints, StoreTypeOK
<1>7. DeadIsNewest'
  <2>1. (\A cp \in Checkpoints : cp.block > ChainHead => cp.era < era)'
    <3>1. \A cp \in Checkpoints : cp.era < era + 1
      BY <1>2 DEF StoreTypeOK
    <3>2. QED
      BY <1>1, <3>1 DEF Checkpoints
  <2>2. ASSUME state # NoCheckpoint, NEW cp \in Checkpoints, NEW later \in Checkpoints,
               OnChain(later)', cp.block <= later.block
        PROVE  OnChain(cp)'
    <3>1. cp.block \in Nat \ {0} /\ later.block \in Nat \ {0}
      BY <1>6, <2>2
    <3>2. OnChain(later) /\ later.block <= dumped
      BY <1>5, <2>2, <3>1
    <3>3. OnChain(cp) /\ cp.block <= dumped
      BY <1>2, <1>3, <2>2, <3>1, <3>2 DEF DeadIsNewest
    <3>4. QED
      BY <1>5, <3>1, <3>3
  <2>3. QED
    BY <1>1, <2>1, <2>2 DEF DeadIsNewest, Checkpoints
<1>8. (\A w \in written : Covered(w))'
  <2> SUFFICES ASSUME NEW w \in written, w.block <= dumped PROVE Covered(w)'
    BY <1>1
  <2>1. PICK cp \in history : /\ OnChain(cp)
                              /\ \/ cp.block <= w.block /\ w.block < cp.block + Every
                                 \/ cp.block <= dumped /\ w.block <= cp.block
    BY DEF KeptInv, StoreInv, Covered
  <2>2. cp.block \in Nat \ {0} /\ w.block \in Nat
    BY <1>2, PeriodAssumption DEF StateIsNewest, Checkpoints, StoreTypeOK
  <2>3. OnChain(cp)'
    BY <1>3, <1>5, <2>1, <2>2
  <2>4. QED
    BY <1>1, <2>1, <2>3 DEF Covered
<1>9. StoreInv'
  BY <1>1, <1>2, <1>4, <1>7, <1>8 DEF StoreInv, SpacedBy, StateIsNewest
<1>10. QED
  BY <1>1, <1>9 DEF KeptInv, Running, Starting, RefusedOnlyIfLost, ResumesClose

LEMMA StartPassStep ==
    ASSUME KeptInv, NEW block, StartPass(block)
    PROVE  KeptInv'
<1>1. /\ UNCHANGED <<node, saved, written>> /\ lastHistory' = lastHistory /\ last' = block
      /\ pc = "idle" /\ pc' = "boundaries" /\ block \in (last + 1) .. ChainHead
  BY DEF StartPass, disk
<1>2. StoreInv'
  BY <1>1, StoreKept DEF KeptInv
<1>3. RunningInv /\ StoreTypeOK
  BY <1>1 DEF KeptInv, StoreInv, Running
<1>4. chain' = chain /\ history' = history
  BY <1>1 DEF node, saved
<1>5. ChainHead \in Nat /\ Start \in Nat
  BY <1>3, PeriodAssumption DEF StoreTypeOK, ChainHead
<1>6. /\ last' \in Nat /\ last' >= Start /\ last' <= ChainHead /\ lastHistory < last'
  BY <1>1, <1>3, <1>5 DEF RunningInv
<1>7. RunningInv'
  BY <1>1, <1>3, <1>4, <1>5, <1>6 DEF RunningInv, ChainHead, OnChain
<1>8. QED
  BY <1>1, <1>2, <1>7 DEF KeptInv, Running, Starting, RefusedOnlyIfLost, ResumesClose

\* Without a file of its own a checkpoint is less than Every blocks after the newest file.
LEMMA WriteStateStep ==
    ASSUME KeptInv, WriteState
    PROVE  KeptInv'
<1>1. /\ pc = "checkpoint" /\ state' = Checkpoint /\ UNCHANGED <<node, memory, history>>
      /\ HistoryDue => pc' = "history" /\ written' = written
      /\ ~HistoryDue => pc' = "idle" /\ written' = written \cup {Checkpoint}
  BY DEF WriteState
<1>2. /\ chain' = chain /\ dumped' = dumped /\ era' = era /\ history' = history
      /\ last' = last /\ lastHistory' = lastHistory
  BY <1>1 DEF node, memory
<1>3. StoreTypeOK /\ StateIsNewest /\ SpacedBy(Every, history) /\ RunningInv
  BY <1>1 DEF KeptInv, StoreInv, Running
<1>4. /\ last \in Nat /\ last >= Start /\ lastHistory < last /\ lastHistory \in Int
      /\ last <= ChainHead /\ Start \in Nat \ {0} /\ Every \in Nat \ {0} /\ ChainHead \in Nat
  BY <1>1, <1>3, PeriodAssumption DEF RunningInv, InPass, StoreTypeOK, ChainHead
<1>5. PICK c : /\ c = Checkpoint /\ c.block = last /\ c.era = chain[last]
  <2>1. Checkpoint.block = last /\ Checkpoint.era = chain[last]
    BY DEF Checkpoint
  <2>2. QED
    BY <2>1
<1>6. OnChain(c) /\ c # NoCheckpoint /\ c.era \in 0 .. era
  <2>1. c.block # 0 /\ NoCheckpoint.block = 0
    BY <1>4, <1>5 DEF NoCheckpoint
  <2>2. last \in 1 .. Len(chain)
    BY <1>4 DEF ChainHead
  <2>3. QED
    BY <1>3, <1>4, <1>5, <2>1, <2>2 DEF OnChain, StoreTypeOK
<1>7. \A cp \in history : OnChain(cp) /\ cp.block <= lastHistory /\ cp.block \in Nat
  BY <1>3 DEF RunningInv, StoreTypeOK, Checkpoints
<1>8. state' = c /\ Checkpoints' = history \cup {c}
  BY <1>1, <1>2, <1>5 DEF Checkpoints
<1>9. \A cp \in Checkpoints' : OnChain(cp) /\ cp.block <= ChainHead
  BY <1>6, <1>7, <1>8 DEF OnChain
<1>10. written' \subseteq written \cup {c}
  BY <1>1, <1>5
<1>11. StoreTypeOK'
  BY <1>2, <1>3, <1>4, <1>5, <1>6, <1>8, <1>10 DEF StoreTypeOK, Checkpoints, ChainHead
<1>12. StateIsNewest'
  <2>1. \A cp \in history : cp.block >= Start /\ cp.block < c.block
    BY <1>3, <1>4, <1>5, <1>7 DEF StateIsNewest
  <2>2. QED
    BY <1>2, <1>4, <1>5, <1>8, <2>1 DEF StateIsNewest
<1>13. DeadIsNewest'
  <2>1. \A cp \in Checkpoints' : ~(cp.block > ChainHead)
    <3>1. \A cp \in Checkpoints' : cp.block \in Nat
      BY <1>4, <1>5, <1>7, <1>8
    <3>2. QED
      BY <1>4, <1>9, <3>1
  <2>2. QED
    BY <1>2, <1>9, <2>1 DEF DeadIsNewest, ChainHead, OnChain
<1>14. (\A w \in written : Covered(w))'
  <2>1. ASSUME NEW w \in written PROVE Covered(w)'
    BY <1>2 DEF KeptInv, StoreInv, Covered, OnChain, ChainHead
  <2>2. ASSUME ~HistoryDue PROVE Covered(c)'
    <3>1. last < lastHistory + Every
      BY <1>4, <2>2 DEF HistoryDue
    <3>2. lastHistory # NoHistory
      BY <1>4, <3>1 DEF NoHistory
    <3>3. PICK cp \in history : cp.block = lastHistory
      BY <1>3, <3>2 DEF RunningInv
    <3>4. OnChain(cp) /\ cp.block <= c.block /\ c.block < cp.block + Every
      BY <1>4, <1>5, <1>7, <3>1, <3>3
    <3>5. QED
      BY <1>2, <3>4 DEF Covered, OnChain, ChainHead
  <2>3. QED
    BY <1>1, <1>5, <2>1, <2>2
<1>15. StoreInv'
  BY <1>2, <1>3, <1>11, <1>12, <1>13, <1>14 DEF StoreInv, SpacedBy
<1>16. pc' \in {"idle", "history"} /\ (pc' = "history" => HistoryDue)
  BY <1>1
<1>17. RunningInv'
  <2>1. (pc = "history" => OnChain(state) /\ state.block = last /\ HistoryDue)'
    BY <1>2, <1>5, <1>6, <1>8, <1>16 DEF HistoryDue, OnChain, ChainHead
  <2>2. QED
    BY <1>2, <1>3, <1>4, <2>1 DEF RunningInv, OnChain, ChainHead
<1>18. QED
  BY <1>15, <1>16, <1>17 DEF KeptInv, Running, Starting, RefusedOnlyIfLost, ResumesClose

LEMMA WriteHistoryStep ==
    ASSUME KeptInv, WriteHistory
    PROVE  KeptInv'
<1>1. /\ pc = "history" /\ pc' = "prune" /\ history' = {cp \in history : cp.block # last} \cup {state}
      /\ lastHistory' = last /\ written' = written \cup {state} /\ last' = last /\ state' = state
      /\ chain' = chain /\ dumped' = dumped /\ era' = era
  BY DEF WriteHistory, node
<1>2. StoreTypeOK /\ StateIsNewest /\ DeadIsNewest /\ SpacedBy(Every, history) /\ RunningInv
  BY <1>1 DEF KeptInv, StoreInv, Running
<1>3. /\ last \in Nat /\ last >= Start /\ lastHistory < last /\ lastHistory \in Int
      /\ OnChain(state) /\ state.block = last /\ lastHistory + Every <= last
      /\ Start \in Nat \ {0} /\ Every \in Nat \ {0}
  BY <1>1, <1>2, PeriodAssumption DEF RunningInv, HistoryDue
<1>4. \A cp \in history : /\ OnChain(cp) /\ cp.block <= lastHistory /\ cp.block \in Nat
                          /\ cp.block + Every <= last
  <2>1. \A cp \in history : OnChain(cp) /\ cp.block <= lastHistory /\ cp.block \in Nat
    BY <1>2 DEF RunningInv, StoreTypeOK, Checkpoints
  <2>2. QED
    BY <1>3, <2>1
<1>5. history' = history \cup {state} /\ Checkpoints' = Checkpoints
  <2>1. \A cp \in history : cp.block # last
    BY <1>3, <1>4
  <2>2. QED
    BY <1>1, <2>1 DEF Checkpoints
<1>6. StoreTypeOK'
  <2>1. IsFiniteSet(history')
    BY <1>2, <1>5, FS_AddElement DEF StoreTypeOK
  <2>2. \A cp \in Checkpoints' \cup written' : cp.block \in Nat /\ cp.era \in 0 .. era
    BY <1>1, <1>2, <1>5 DEF StoreTypeOK, Checkpoints
  <2>3. QED
    BY <1>1, <1>2, <2>1, <2>2 DEF StoreTypeOK, ChainHead
<1>7. SpacedBy(Every, history')
  <2> SUFFICES ASSUME NEW cp \in history', NEW later \in history'
               PROVE  cp = later \/ cp.block + Every <= later.block \/ later.block + Every <= cp.block
    BY DEF SpacedBy
  <2>1. CASE cp \in history /\ later \in history
    BY <1>2, <2>1 DEF SpacedBy
  <2>2. CASE cp = state \/ later = state
    BY <1>3, <1>4, <1>5, <2>2
  <2>3. QED
    BY <1>5, <2>1, <2>2
<1>8. StateIsNewest' /\ DeadIsNewest'
  <2>1. StateIsNewest'
    BY <1>1, <1>2, <1>3, <1>5 DEF StateIsNewest
  <2>2. DeadIsNewest'
    BY <1>1, <1>2, <1>5 DEF DeadIsNewest, OnChain, ChainHead
  <2>3. QED
    BY <2>1, <2>2
<1>9. (\A w \in written : Covered(w))'
  <2>1. ASSUME NEW w \in written PROVE Covered(w)'
    BY <1>1, <1>5 DEF KeptInv, StoreInv, Covered, OnChain, ChainHead
  <2>2. Covered(state)'
    BY <1>1, <1>3, <1>5 DEF Covered, OnChain, ChainHead
  <2>3. QED
    BY <1>1, <2>1, <2>2
<1>10. StoreInv'
  BY <1>6, <1>7, <1>8, <1>9 DEF StoreInv
<1>11. RunningInv'
  <2>1. \A cp \in history' : OnChain(cp) /\ cp.block <= last
    BY <1>3, <1>4, <1>5
  <2>2. \E cp \in history' : cp.block = last
    BY <1>3, <1>5
  <2>3. QED
    BY <1>1, <1>2, <1>3, <2>1, <2>2 DEF RunningInv, OnChain, ChainHead, InPass
<1>12. QED
  BY <1>1, <1>10, <1>11 DEF KeptInv, Running, Starting, RefusedOnlyIfLost, ResumesClose

\* A pruned file leaves a newer one that the dump holds, which covers whatever it covered.
LEMMA PruneHistoryStep ==
    ASSUME KeptInv, PruneHistory
    PROVE  KeptInv'
<1>1. /\ pc = "prune" /\ pc' = "idle" /\ history' = Pruned(history)
      /\ UNCHANGED <<node, memory>> /\ written' = written /\ state' = state
  BY DEF PruneHistory
<1>2. /\ chain' = chain /\ dumped' = dumped /\ era' = era
      /\ last' = last /\ lastHistory' = lastHistory
  BY <1>1 DEF node, memory
<1>3. StoreTypeOK /\ StateIsNewest /\ DeadIsNewest /\ SpacedBy(Every, history) /\ RunningInv
  BY <1>1 DEF KeptInv, StoreInv, Running
<1>4. /\ Every \in Nat \ {0} /\ Keep \in Nat \ {0} /\ ChainHead \in Nat /\ dumped \in Nat
      /\ ChainHead <= dumped + (Keep - 1) * Every
  <2>1. Every \in Nat \ {0} /\ Keep \in Nat \ {0} /\ ChainHead \in Nat /\ dumped \in Nat
    BY <1>3, PeriodAssumption DEF StoreTypeOK, ChainHead
  <2>2. PICK room \in Int : room = (Keep - 1) * Every
    BY <2>1
  <2>3. DumpEvery \in Nat /\ DumpEvery <= room /\ ChainHead <= dumped + DumpEvery
    BY <1>3, <2>2, DumpAssumption DEF StoreTypeOK
  <2>4. ChainHead <= dumped + room
    BY <2>1, <2>3
  <2>5. QED
    BY <2>1, <2>2, <2>4
<1>5. IsFiniteSet(history) /\ \A cp \in history : cp.block \in Nat /\ OnChain(cp) /\ cp.block <= ChainHead
  BY <1>3 DEF StoreTypeOK, Checkpoints, RunningInv, OnChain
<1>6. history' \subseteq history
  BY <1>1 DEF Pruned
<1>7. StoreTypeOK'
  <2>1. IsFiniteSet(history')
    BY <1>5, <1>6, FS_Subset
  <2>2. \A cp \in Checkpoints' \cup written' : cp.block \in Nat /\ cp.era \in 0 .. era
    BY <1>1, <1>3, <1>6 DEF StoreTypeOK, Checkpoints
  <2>3. QED
    BY <1>2, <1>3, <2>1, <2>2 DEF StoreTypeOK, ChainHead
<1>8. SpacedBy(Every, history') /\ StateIsNewest' /\ DeadIsNewest'
  <2>1. SpacedBy(Every, history')
    BY <1>3, <1>6 DEF SpacedBy
  <2>2. StateIsNewest'
    BY <1>1, <1>3, <1>6 DEF StateIsNewest
  <2>3. DeadIsNewest'
    BY <1>1, <1>2, <1>3, <1>6 DEF DeadIsNewest, Checkpoints, OnChain, ChainHead
  <2>4. QED
    BY <2>1, <2>2, <2>3
<1>9. (\A w \in written : Covered(w))'
  <2> SUFFICES ASSUME NEW w \in written PROVE Covered(w)'
    BY <1>1
  <2>0. w.block \in Nat
    BY <1>3 DEF StoreTypeOK
  <2>1. PICK c \in history : /\ OnChain(c)
                             /\ \/ c.block <= w.block /\ w.block < c.block + Every
                                \/ c.block <= dumped /\ w.block <= c.block
    BY DEF KeptInv, StoreInv, Covered
  <2>2. CASE c \in Pruned(history)
    BY <1>1, <1>2, <2>1, <2>2 DEF Covered, OnChain, ChainHead
  <2>3. CASE c \notin Pruned(history)
    <3>1. PICK d \in Pruned(history) : /\ d.block > c.block
                                       /\ d.block + (Keep - 1) * Every <= ChainHead
      BY <1>3, <1>4, <1>5, <2>3, PrunedForOlder
    <3>2. d \in history /\ d.block \in Nat /\ c.block \in Nat /\ OnChain(d)
      BY <1>1, <1>5, <1>6, <3>1
    <3>3. d.block <= dumped
      <4>1. PICK room \in Int : room = (Keep - 1) * Every
        BY <1>4
      <4>2. d.block + room <= ChainHead /\ ChainHead <= dumped + room
        BY <1>4, <3>1, <4>1
      <4>3. QED
        BY <1>4, <3>2, <4>2
    <3>4. w.block <= d.block
      <4>1. c.block + Every <= d.block
        <5>1. c = d \/ c.block + Every <= d.block \/ d.block + Every <= c.block
          BY <1>3, <3>2 DEF SpacedBy
        <5>2. QED
          BY <1>4, <3>1, <3>2, <5>1
      <4>2. QED
        BY <1>4, <2>0, <2>1, <3>1, <3>2, <4>1
    <3>5. QED
      BY <1>1, <1>2, <3>1, <3>2, <3>3, <3>4 DEF Covered, OnChain, ChainHead
  <2>4. QED
    BY <2>2, <2>3
<1>10. StoreInv'
  BY <1>7, <1>8, <1>9 DEF StoreInv
<1>11. lastHistory # NoHistory => \E cp \in history' : cp.block = lastHistory
  <2> SUFFICES ASSUME lastHistory # NoHistory PROVE \E cp \in history' : cp.block = lastHistory
    OBVIOUS
  <2>1. PICK cp \in history : cp.block = lastHistory
    BY <1>3 DEF RunningInv
  <2>2. NewerIn(history, cp) = {}
    <3>1. \A newer \in history : newer.block <= lastHistory /\ newer.block \in Nat
      BY <1>3, <1>5 DEF RunningInv
    <3>2. \A newer \in history : ~(newer.block > cp.block)
      BY <1>5, <2>1, <3>1
    <3>3. QED
      BY <3>2 DEF NewerIn
  <2>3. Cardinality({newer \in history : newer.block > cp.block}) = 0
    BY <2>2, FS_EmptySet DEF NewerIn
  <2>4. cp \in Pruned(history)
    BY <1>4, <2>3 DEF Pruned
  <2>5. QED
    BY <1>1, <2>1, <2>4
<1>12. RunningInv'
  <2>1. \A cp \in history' : OnChain(cp) /\ cp.block <= lastHistory
    BY <1>3, <1>6 DEF RunningInv
  <2>2. QED
    BY <1>1, <1>2, <1>3, <1>11, <2>1 DEF RunningInv, OnChain, ChainHead, InPass
<1>13. QED
  BY <1>1, <1>10, <1>12 DEF KeptInv, Running, Starting, RefusedOnlyIfLost, ResumesClose

LEMMA ChooseStep ==
    ASSUME KeptInv, Choose
    PROVE  KeptInv'
<1> DEFINE matching == {cp \in Candidates : OnChain(cp)}
<1>1. /\ pc = "down" /\ UNCHANGED <<node, saved, written>>
      /\ chain' = chain /\ history' = history /\ state' = state /\ written' = written
  BY DEF Choose, disk, node, saved
<1>2. \/ /\ from' \in matching /\ Newest(from', matching) /\ pc' = "cut"
      \/ matching = {} /\ pc' = "refused"
  BY DEF Choose
<1> misread' = FALSE
  BY DEF Choose
<1>3. StoreInv'
  BY <1>1, StoreKept DEF KeptInv
<1>4. StoreTypeOK /\ StateIsNewest /\ state' # NoCheckpoint /\ Every \in Nat \ {0}
  BY <1>1, PeriodAssumption DEF KeptInv, StoreInv, Running
<1>5. matching \subseteq Checkpoints /\ \A cp \in history : OnChain(cp) => cp \in matching
  BY <1>4 DEF Candidates, Checkpoints, StateIsNewest
<1>6. ASSUME NEW w \in written
      PROVE  \E cp \in matching : cp.block \in Nat /\ w.block \in Nat /\ w.block < cp.block + Every
  <2>1. PICK cp \in history : /\ OnChain(cp)
                              /\ \/ cp.block <= w.block /\ w.block < cp.block + Every
                                 \/ cp.block <= dumped /\ w.block <= cp.block
    BY DEF KeptInv, StoreInv, Covered
  <2>2. cp \in matching /\ cp.block \in Nat /\ w.block \in Nat
    BY <1>4, <1>5, <2>1 DEF StoreTypeOK, Checkpoints
  <2>3. QED
    BY <1>4, <2>1, <2>2
<1>7. CASE pc' = "refused"
  <2>1. written' = {}
    BY <1>1, <1>2, <1>6, <1>7
  <2>2. QED
    BY <1>3, <1>4, <1>7, <2>1 DEF KeptInv, Running, Starting, RefusedOnlyIfLost, ResumesClose
<1>8. CASE pc' = "cut"
  <2>1. from' \in matching /\ \A cp \in matching : cp.block <= from'.block
    BY <1>2, <1>8 DEF Newest
  <2>2. \A cp \in Checkpoints : cp.block \in Nat
    BY <1>4 DEF StoreTypeOK
  <2>3. from' = state \/ from'.block < state.block
    BY <2>1 DEF Candidates
  <2>4. StartingInv'
    <3>1. from' \in Checkpoints /\ OnChain(from')
      BY <1>5, <2>1
    <3>2. \A cp \in history : OnChain(cp) => cp.block <= from'.block
      BY <1>5, <2>1
    <3>3. QED
      BY <1>1, <1>8, <2>3, <3>1, <3>2 DEF StartingInv, OnChain, ChainHead, Checkpoints, Rewound
  <2>5. ResumesClose'
    <3>1. ASSUME NEW w \in written PROVE w.block - from'.block < Every
      <4>1. PICK cp \in matching : cp.block \in Nat /\ w.block \in Nat /\ w.block < cp.block + Every
        BY <1>6
      <4>2. cp.block <= from'.block /\ from'.block \in Nat
        BY <1>5, <2>1, <2>2
      <4>3. QED
        BY <1>4, <4>1, <4>2
    <3>2. QED
      BY <1>1, <3>1 DEF ResumesClose
  <2>6. QED
    BY <1>3, <1>4, <1>8, <2>4, <2>5 DEF KeptInv, Running, Starting, RefusedOnlyIfLost
<1>9. QED
  BY <1>2, <1>7, <1>8

\* A start whose reads failed goes back to some history file that is on the chain, or is refused.
LEMMA ChoosePastFailuresStep ==
    ASSUME KeptInv, ChoosePastFailures
    PROVE  KeptInv'
<1> DEFINE matching == {cp \in Candidates : OnChain(cp)}
<1>1. /\ pc = "down" /\ UNCHANGED <<node, saved, written>> /\ misread' = TRUE
      /\ chain' = chain /\ history' = history /\ state' = state /\ written' = written
  BY DEF ChoosePastFailures, disk, node, saved
<1>2. \/ from' \in matching /\ ~Newest(from', matching) /\ pc' = "cut"
      \/ pc' = "refused"
  BY DEF ChoosePastFailures
<1>3. StoreInv'
  BY <1>1, StoreKept DEF KeptInv
<1>4. StoreTypeOK /\ state' # NoCheckpoint
  BY <1>1 DEF KeptInv, StoreInv, Running
<1>5. CASE pc' = "refused"
  BY <1>1, <1>3, <1>4, <1>5 DEF KeptInv, Running, Starting, RefusedOnlyIfLost, ResumesClose
<1>6. CASE pc' = "cut"
  <2>1. from' \in matching
    BY <1>2, <1>6
  <2>2. PICK other \in matching : ~(other.block <= from'.block)
    BY <1>2, <1>6 DEF Newest
  <2>3. state.block \in Nat /\ \A cp \in Candidates : cp = state \/ cp.block < state.block
    BY <1>4 DEF StoreTypeOK, Checkpoints, Candidates
  <2>4. from' # state
    <3>1. other.block <= state.block
      <4>1. other = state \/ other.block < state.block
        BY <2>3
      <4>2. other.block \in Nat
        BY <1>4 DEF StoreTypeOK, Checkpoints, Candidates
      <4>3. QED
        BY <2>3, <4>1, <4>2
    <3>2. QED
      BY <2>2, <3>1
  <2>5. from' \in history /\ OnChain(from') /\ from'.block < state.block
    BY <2>1, <2>3, <2>4 DEF Candidates
  <2>6. StartingInv'
    BY <1>1, <1>6, <2>5 DEF StartingInv, OnChain, ChainHead, Checkpoints, Rewound
  <2>7. QED
    BY <1>1, <1>3, <1>4, <1>6, <2>6 DEF KeptInv, Running, Starting, RefusedOnlyIfLost, ResumesClose
<1>7. QED
  BY <1>2, <1>5, <1>6

\* What is dropped was on a chain the node lost and covers nothing, or the start misread: then the
\* file it resumes from covers what the dropped ones did.
LEMMA DropHistoryStep ==
    ASSUME KeptInv, DropHistory
    PROVE  KeptInv'
<1>1. /\ pc = "drop" /\ pc' = "open" /\ history' = {cp \in history : cp.block <= from.block}
      /\ from' = from /\ misread' = misread /\ state' = state
      /\ written' = IF misread THEN {cp \in written : cp.block <= from.block} ELSE written
      /\ chain' = chain /\ dumped' = dumped /\ era' = era
  BY DEF DropHistory, node
<1>2. /\ StoreTypeOK /\ StateIsNewest /\ DeadIsNewest /\ SpacedBy(Every, history) /\ StartingInv
      /\ state # NoCheckpoint
  BY <1>1 DEF KeptInv, StoreInv, Running, Starting
<1>3. history' \subseteq history /\ Checkpoints' \subseteq Checkpoints /\ written' \subseteq written
  BY <1>1 DEF Checkpoints
<1>4. StoreTypeOK'
  <2>1. IsFiniteSet(history')
    BY <1>2, <1>3, FS_Subset DEF StoreTypeOK
  <2>2. \A cp \in Checkpoints' \cup written' : cp.block \in Nat /\ cp.era \in 0 .. era
    BY <1>1, <1>2, <1>3 DEF StoreTypeOK, Checkpoints
  <2>3. QED
    BY <1>1, <1>2, <2>1, <2>2 DEF StoreTypeOK, ChainHead
<1>5. SpacedBy(Every, history') /\ StateIsNewest' /\ DeadIsNewest'
  <2>1. SpacedBy(Every, history')
    BY <1>2, <1>3 DEF SpacedBy
  <2>2. StateIsNewest'
    BY <1>1, <1>2, <1>3 DEF StateIsNewest
  <2>3. DeadIsNewest'
    BY <1>1, <1>2, <1>3 DEF DeadIsNewest, OnChain, ChainHead
  <2>4. QED
    BY <2>1, <2>2, <2>3
<1>6. (\A w \in written : Covered(w))'
  <2> SUFFICES ASSUME NEW w \in written' PROVE Covered(w)'
    OBVIOUS
  <2>1. PICK cp \in history : /\ OnChain(cp)
                              /\ \/ cp.block <= w.block /\ w.block < cp.block + Every
                                 \/ cp.block <= dumped /\ w.block <= cp.block
    BY <1>3 DEF KeptInv, StoreInv, Covered
  <2>2. CASE cp \in history'
    BY <1>1, <2>1, <2>2 DEF Covered, OnChain, ChainHead
  <2>3. CASE cp \notin history'
    <3>1. ~(cp.block <= from.block)
      BY <1>1, <2>3
    <3>2. misread
      BY <1>2, <2>1, <3>1 DEF StartingInv
    <3>3. from \in history /\ OnChain(from) /\ w.block <= from.block
      BY <1>1, <1>2, <3>2 DEF StartingInv
    <3>4. /\ cp.block \in Nat /\ w.block \in Nat /\ from.block \in Nat /\ dumped \in Nat
      BY <1>2, <1>3, <3>3 DEF StoreTypeOK, Checkpoints
    <3>5. from.block <= dumped /\ from.block <= from.block
      BY <2>1, <3>1, <3>3, <3>4
    <3>6. from \in history'
      BY <1>1, <3>3, <3>5
    <3>7. QED
      BY <1>1, <3>3, <3>5, <3>6 DEF Covered, OnChain, ChainHead
  <2>4. QED
    BY <2>2, <2>3
<1>7. StoreInv'
  BY <1>4, <1>5, <1>6 DEF StoreInv
<1>8. from \in Checkpoints'
  <2>1. from.block <= from.block
    BY <1>2 DEF StartingInv, StoreTypeOK
  <2>2. (from \in history => from \in history') /\ (from = state => from \in Checkpoints')
    BY <1>1, <2>1 DEF Checkpoints
  <2>3. QED
    BY <1>2, <2>2 DEF StartingInv, Checkpoints
<1>9. StartingInv'
  <2>1. misread => from \in history'
    <3>1. from.block <= from.block
      BY <1>2 DEF StartingInv, StoreTypeOK
    <3>2. QED
      BY <1>1, <1>2, <3>1 DEF StartingInv
  <2>2. QED
    BY <1>1, <1>2, <1>8, <2>1 DEF StartingInv, OnChain, ChainHead, Rewound
<1>10. QED
  BY <1>1, <1>2, <1>7, <1>9 DEF KeptInv, Running, Starting, RefusedOnlyIfLost, ResumesClose

LEMMA NewestHistoryIsMax ==
    ASSUME IsFiniteSet(history), \A cp \in history : cp.block \in Nat, NEW h \in Nat,
           \A cp \in history : cp.block <= h, history # {}
    PROVE  /\ \E cp \in history : cp.block = NewestHistory
           /\ \A cp \in history : cp.block <= NewestHistory
<1> DEFINE B == {cp.block : cp \in history}
<1>1. B \subseteq Nat /\ B # {} /\ \A i \in B : i <= h
  OBVIOUS
<1>2. PICK k \in B : \A j \in B : j <= k
  BY <1>1, GreatestNatural
<1>3. \A j \in B : k >= j
  BY <1>1, <1>2
<1>4. NewestHistory = Max(B)
  BY DEF NewestHistory
<1>5. Max(B) = CHOOSE x \in B : \A y \in B : x >= y
  BY DEF Max
<1>6. \E x \in B : \A y \in B : x >= y
  BY <1>2, <1>3
<1>7. NewestHistory \in B /\ \A y \in B : NewestHistory >= y
  BY <1>4, <1>5, <1>6
<1>8. \A y \in B : y <= NewestHistory
  BY <1>1, <1>7
<1>9. QED
  BY <1>7, <1>8

LEMMA RestoreStep ==
    ASSUME KeptInv, Restore
    PROVE  KeptInv'
<1>1. /\ pc = "restore" /\ UNCHANGED <<node, saved, written, from>>
      /\ chain' = chain /\ history' = history /\ state' = state /\ written' = written
      /\ \/ pc' = "idle" /\ last' = from.block /\ lastHistory' = NewestHistory
         \/ pc' = "stuck"
  BY DEF Restore, disk, node, saved
<1>2. StoreInv'
  BY <1>1, StoreKept DEF KeptInv
<1>3. StoreTypeOK /\ StateIsNewest /\ DeadIsNewest /\ StartingInv /\ state' # NoCheckpoint
  BY <1>1 DEF KeptInv, StoreInv, Running, Starting
<1>4. CASE pc' = "stuck"
  BY <1>2, <1>3, <1>4 DEF KeptInv, Running, Starting, RefusedOnlyIfLost, ResumesClose
<1>5. CASE pc' = "idle"
  <2>1. /\ from \in Checkpoints /\ OnChain(from) /\ from.block \in Nat
        /\ \A cp \in history : cp.block <= from.block /\ cp.block \in Nat
    BY <1>1, <1>3 DEF StartingInv, StoreTypeOK, Checkpoints
  <2>2. from.block >= Start /\ from.block <= ChainHead /\ Start \in Nat \ {0} /\ Every \in Nat \ {0}
    BY <1>1, <1>3, <2>1, PeriodAssumption DEF StateIsNewest, OnChain, Checkpoints
  <2>3. \A cp \in history : OnChain(cp)
    BY <1>1, <1>3, <2>1 DEF DeadIsNewest, Checkpoints
  <2>4. /\ NewestHistory \in Int /\ NewestHistory <= from.block
        /\ \A cp \in history : cp.block <= NewestHistory
        /\ NewestHistory # NoHistory => \E cp \in history : cp.block = NewestHistory
    <3>1. CASE history = {}
      BY <2>1, <2>2, <3>1 DEF NewestHistory, NoHistory
    <3>2. CASE history # {}
      <4>1. IsFiniteSet(history)
        BY <1>3 DEF StoreTypeOK
      <4>2. /\ \E cp \in history : cp.block = NewestHistory
            /\ \A cp \in history : cp.block <= NewestHistory
        BY <2>1, <3>2, <4>1, NewestHistoryIsMax
      <4>3. QED
        BY <2>1, <4>2
    <3>3. QED
      BY <3>1, <3>2
  <2>5. last' = from.block /\ lastHistory' = NewestHistory
    BY <1>1, <1>5
  <2>6. from.block >= Start - 1
    BY <2>1, <2>2
  <2>7. RunningInv'
    BY <1>1, <1>5, <2>1, <2>2, <2>3, <2>4, <2>5, <2>6 DEF RunningInv, OnChain, ChainHead, InPass
  <2>8. QED
    BY <1>2, <1>5, <2>7 DEF KeptInv, Running, Starting, RefusedOnlyIfLost, ResumesClose
<1>6. QED
  BY <1>1, <1>4, <1>5

LEMMA KeptAtFirst == Init => KeptInv
<1> SUFFICES ASSUME Init PROVE KeptInv
  OBVIOUS
<1>1. /\ chain = [b \in 1 .. (Start - 1) |-> 0] /\ dumped = Start - 1 /\ era = 0 /\ pc = "idle"
      /\ last = Start - 1 /\ lastHistory = NoHistory /\ state = NoCheckpoint /\ history = {}
      /\ written = {}
  BY DEF Init
<1>2. Start \in Nat \ {0} /\ Every \in Nat \ {0} /\ DumpEvery \in Nat
  BY PeriodAssumption, DumpAssumption
<1>3. /\ chain \in Seq(Nat) /\ Len(chain) = Start - 1
      /\ \A b \in 1 .. Len(chain) : chain[b] = 0
  BY <1>1, <1>2
<1>4. Checkpoints = {NoCheckpoint} /\ NoCheckpoint.block = 0 /\ NoCheckpoint.era = 0
  BY <1>1 DEF Checkpoints, NoCheckpoint
<1>5. StoreTypeOK
  <2>1. IsFiniteSet(history)
    BY <1>1, FS_EmptySet
  <2>2. QED
    BY <1>1, <1>2, <1>3, <1>4, <2>1 DEF StoreTypeOK, ChainHead
<1>6. StoreInv
  BY <1>1, <1>2, <1>3, <1>4, <1>5 DEF StoreInv, SpacedBy, StateIsNewest, DeadIsNewest, ChainHead
<1>7. RunningInv
  BY <1>1, <1>2, <1>3 DEF RunningInv, ChainHead, NoHistory, InPass
<1>8. QED
  BY <1>1, <1>6, <1>7 DEF KeptInv, Running, Starting, RefusedOnlyIfLost, ResumesClose

LEMMA KeptStep == KeptInv /\ [Next]_vars => KeptInv'
<1> SUFFICES ASSUME KeptInv, [Next]_vars PROVE KeptInv'
  OBVIOUS
<1>1. CASE Mine
  BY <1>1, MineStep
<1>2. CASE Rewind
  BY <1>2, RewindStep
<1>3. ASSUME NEW block \in 1 .. MaxHead, StartPass(block) PROVE KeptInv'
  BY <1>3, StartPassStep
<1>4. CASE ReadBoundary \/ PassThrows \/ NoRoll
  <2>1. /\ UNCHANGED <<node, saved, written, last, lastHistory>> /\ pc = "boundaries"
        /\ pc' \in {"boundaries", "idle", "checkpoint"}
    BY <1>4 DEF ReadBoundary, PassThrows, NoRoll, disk, memory
  <2>2. QED
    BY <2>1, PassStep DEF InPass, Running
<1>5. CASE Summarise \/ CloseIndexEntry \/ OpenSegment \/ WriteIndex
  <2>1. /\ UNCHANGED <<node, saved, written, last, lastHistory>>
        /\ pc \in InPass /\ pc' \in InPass \cup {"idle"}
    <3>1. CASE Summarise
      BY <3>1 DEF Summarise, memory, InPass
    <3>2. CASE CloseIndexEntry
      BY <3>2 DEF CloseIndexEntry, memory, InPass
    <3>3. CASE OpenSegment
      BY <3>3 DEF OpenSegment, InPass
    <3>4. CASE WriteIndex
      BY <3>4 DEF WriteIndex, memory, InPass
    <3>5. QED
      BY <1>5, <3>1, <3>2, <3>3, <3>4
  <2>2. QED
    BY <2>1, PassStep DEF InPass, Running
<1>6. CASE WriteState
  BY <1>6, WriteStateStep
<1>7. CASE WriteHistory
  BY <1>7, WriteHistoryStep
<1>8. CASE PruneHistory
  BY <1>8, PruneHistoryStep
<1>9. CASE CheckpointFails
  <2>1. /\ UNCHANGED <<node, saved, written, last, lastHistory>>
        /\ pc \in Running /\ pc' = "idle"
    BY <1>9 DEF CheckpointFails, disk, memory, Running
  <2>2. QED
    BY <2>1, PassStep
<1>10. CASE Crash \/ StartAgain
  BY <1>10, CrashStep
<1>11. CASE Choose \/ ChoosePastFailures
  BY <1>11, ChooseStep, ChoosePastFailuresStep
<1>12. CASE MoveSegment \/ MoveSummary
  <2>1. /\ UNCHANGED <<node, saved, written, from, misread>> /\ pc = "cut"
        /\ pc' \in {"cut", "truncate", "stuck"}
    BY <1>12 DEF MoveSegment, MoveSummary
  <2>2. QED
    BY <2>1, StartStep DEF Starting
<1>13. CASE TruncateRows
  <2>1. /\ UNCHANGED <<node, saved, written, from, misread>> /\ pc = "truncate"
        /\ pc' = "drop" \/ (pc' = "open" /\ ~Rewound)
    BY <1>13 DEF TruncateRows
  <2>2. QED
    BY <2>1, StartStep DEF Starting
<1>14. CASE DropHistory
  BY <1>14, DropHistoryStep
<1>15. CASE ReopenSegment
  <2>1. /\ UNCHANGED <<node, saved, written, from, misread>> /\ pc = "open" /\ pc' = "restore"
    BY <1>15 DEF ReopenSegment
  <2>2. QED
    BY <2>1, StartStep DEF Starting
<1>16. CASE Restore
  BY <1>16, RestoreStep
<1>17. CASE UNCHANGED vars
  <2>1. UNCHANGED <<node, pc, memory, from, misread, saved, written>>
    BY <1>17 DEF vars, disk
  <2>2. UNCHANGED <<node, saved, written, last, lastHistory>> /\ pc' = pc /\ from' = from /\ misread' = misread
    BY <2>1 DEF memory
  <2>3. StoreInv'
    BY <2>2, StoreKept DEF KeptInv
  <2>4. chain' = chain /\ state' = state /\ history' = history /\ written' = written
    BY <2>2 DEF node, saved
  <2>5. RunningInv => RunningInv'
    BY <2>2, <2>4 DEF RunningInv, OnChain, ChainHead, HistoryDue
  <2>6. StartingInv => StartingInv'
    BY <2>2, <2>4 DEF StartingInv, OnChain, ChainHead, Checkpoints, Rewound
  <2>7. QED
    BY <2>2, <2>3, <2>4, <2>5, <2>6 DEF KeptInv, RefusedOnlyIfLost, ResumesClose
<1>18. QED
  BY <1>1, <1>2, <1>3, <1>4, <1>5, <1>6, <1>7, <1>8, <1>9, <1>10, <1>11, <1>12, <1>13, <1>14,
     <1>15, <1>16, <1>17
  DEF Next, Node, Pass, Resume

\* RefusedOnlyIfLost: a start gives the period up only when no completed checkpoint of it is on the
\* chain, however the node was restarted and whatever writes failed (chooseCheckpoint).
THEOREM RefusalMeansLost == Spec => []RefusedOnlyIfLost
<1>1. KeptInv => RefusedOnlyIfLost
  BY DEF KeptInv
<1>2. QED
  BY <1>1, KeptAtFirst, KeptStep, PTL DEF Spec

\* ResumesClose: the checkpoint a start resumes from is less than Every blocks behind the newest
\* completed one on the chain, also after the history was thinned and cut (CheckpointWriter).
THEOREM ResumeIsClose == Spec => []ResumesClose
<1>1. KeptInv => ResumesClose
  BY DEF KeptInv
<1>2. QED
  BY <1>1, KeptAtFirst, KeptStep, PTL DEF Spec

-----------------------------------------------------------------------------
(* The size of the history *)

LEMMA OneMore ==
    ASSUME NEW S, NEW x, IsFiniteSet(S)
    PROVE  /\ IsFiniteSet(S \cup {x})
           /\ Cardinality(S) \in Nat /\ Cardinality(S \cup {x}) \in Nat
           /\ Cardinality(S \cup {x}) <= Cardinality(S) + 1
<1>1. IsFiniteSet(S \cup {x})
  BY FS_AddElement
<1>2. Cardinality(S) \in Nat /\ Cardinality(S \cup {x}) \in Nat
  BY <1>1, FS_CardinalityType
<1>3. Cardinality(S \cup {x}) = Cardinality(S) \/ Cardinality(S \cup {x}) = Cardinality(S) + 1
  <2>1. CASE x \in S
    <3>1. S \cup {x} = S
      BY <2>1
    <3>2. QED
      BY <3>1
  <2>2. CASE x \notin S
    <3>1. Cardinality(S \cup {x}) = IF x \in S THEN Cardinality(S) ELSE Cardinality(S) + 1
      BY FS_AddElement
    <3>2. QED
      BY <2>2, <3>1
  <2>3. QED
    BY <2>1, <2>2
<1>4. QED
  BY <1>1, <1>2, <1>3

LEMMA PrunedIsSmall ==
    ASSUME NEW S, IsFiniteSet(S), \A cp \in S : cp.block \in Nat, SpacedBy(Every, S)
    PROVE  IsFiniteSet(Pruned(S)) /\ Cardinality(Pruned(S)) <= Keep
<1>0. Every \in Nat \ {0} /\ Keep \in Nat \ {0}
  BY PeriodAssumption
<1>1. Pruned(S) \subseteq S /\ IsFiniteSet(Pruned(S))
  BY FS_Subset DEF Pruned
<1>2. CASE Pruned(S) = {}
  BY <1>0, <1>1, <1>2, FS_EmptySet
<1>3. CASE Pruned(S) # {}
  <2> DEFINE B == {cp.block : cp \in Pruned(S)}
  <2>1. PICK i \in B : \A j \in B : i <= j
    <3>1. B \subseteq Nat /\ B # {}
      BY <1>1, <1>3
    <3> HIDE DEF B
    <3>2. QED
      BY <3>1, LeastNatural
  <2>2. PICK d \in Pruned(S) : i = d.block
    OBVIOUS
  <2>3. d \in S /\ Cardinality(NewerIn(S, d)) < Keep
    BY DEF Pruned, NewerIn
  <2>4. NewerIn(S, d) \in SUBSET S /\ IsFiniteSet(NewerIn(S, d)) /\ Cardinality(NewerIn(S, d)) \in Nat
    <3>1. NewerIn(S, d) \in SUBSET S
      BY DEF NewerIn
    <3>2. QED
      BY <3>1, FS_Subset, FS_CardinalityType
  <2>5. Pruned(S) \subseteq NewerIn(S, d) \cup {d}
    <3> SUFFICES ASSUME NEW cp \in Pruned(S), cp # d PROVE cp \in NewerIn(S, d)
      OBVIOUS
    <3>1. cp \in S /\ cp.block \in Nat /\ d.block \in Nat
      BY <1>1, <2>3
    <3>2. d.block <= cp.block
      BY <2>1, <2>2
    <3>3. cp.block # d.block
      BY <1>0, <2>3, <3>1 DEF SpacedBy
    <3>4. QED
      BY <3>1, <3>2, <3>3 DEF NewerIn
  <2>6. /\ IsFiniteSet(NewerIn(S, d) \cup {d})
        /\ Cardinality(NewerIn(S, d) \cup {d}) <= Cardinality(NewerIn(S, d)) + 1
    BY <2>4, OneMore
  <2>7. /\ Cardinality(Pruned(S)) <= Cardinality(NewerIn(S, d) \cup {d})
        /\ Cardinality(Pruned(S)) \in Nat /\ Cardinality(NewerIn(S, d) \cup {d}) \in Nat
    BY <1>1, <2>5, <2>6, FS_Subset, FS_CardinalityType
  <2>8. QED
    BY <1>0, <1>1, <2>3, <2>4, <2>6, <2>7
<1>4. QED
  BY <1>2, <1>3

\* Before a prune there may be one file more.
SizeInv ==
    /\ faults \in Nat
    /\ Cardinality(history) <= Keep + faults + (IF pc = "prune" THEN 1 ELSE 0)

\* A step that writes no history file: a fault pays for a prune that is given up.
LEMMA SizeStays ==
    ASSUME KeptInv, SizeInv, history' \subseteq history,
           \/ faults' = faults /\ (pc = "prune" => pc' = "prune")
           \/ faults' = faults + 1 /\ pc' # "prune"
    PROVE  SizeInv'
<1>1. IsFiniteSet(history) /\ Keep \in Nat
  BY PeriodAssumption DEF KeptInv, StoreInv, StoreTypeOK
<1>2. /\ Cardinality(history') <= Cardinality(history)
      /\ Cardinality(history') \in Nat /\ Cardinality(history) \in Nat
  BY <1>1, FS_Subset, FS_CardinalityType
<1>3. QED
  BY <1>1, <1>2 DEF SizeInv

LEMMA SizeStep == KeptInv /\ SizeInv /\ [Next]_vars => SizeInv'
<1> SUFFICES ASSUME KeptInv, SizeInv, [Next]_vars PROVE SizeInv'
  OBVIOUS
<1>1. IsFiniteSet(history) /\ SpacedBy(Every, history) /\ \A cp \in history : cp.block \in Nat
  BY DEF KeptInv, StoreInv, StoreTypeOK, Checkpoints
<1>2. Keep \in Nat /\ faults \in Nat
  BY PeriodAssumption DEF SizeInv
<1>3. CASE WriteHistory
  <2>1. pc = "history" /\ pc' = "prune" /\ faults' = faults
        /\ history' = {cp \in history : cp.block # last} \cup {state}
    BY <1>3 DEF WriteHistory, counters
  <2>2. PICK old : old = {cp \in history : cp.block # last}
    OBVIOUS
  <2>3. IsFiniteSet(old) /\ Cardinality(old) <= Cardinality(history)
        /\ Cardinality(old) \in Nat /\ Cardinality(history) \in Nat
    BY <1>1, <2>2, FS_Subset, FS_CardinalityType
  <2>4. /\ Cardinality(old \cup {state}) <= Cardinality(old) + 1
        /\ Cardinality(old \cup {state}) \in Nat
    BY <2>3, OneMore
  <2>5. QED
    BY <1>2, <2>1, <2>2, <2>3, <2>4 DEF SizeInv
<1>4. CASE PruneHistory
  <2>1. pc' = "idle" /\ faults' = faults /\ history' = Pruned(history)
    BY <1>4 DEF PruneHistory, counters
  <2>2. Cardinality(Pruned(history)) <= Keep /\ Cardinality(Pruned(history)) \in Nat
    BY <1>1, PrunedIsSmall, FS_CardinalityType
  <2>3. QED
    BY <1>2, <2>1, <2>2 DEF SizeInv
<1>5. CASE Node \/ \E block \in 1 .. MaxHead : StartPass(block)
  BY <1>5, SizeStays DEF Node, Mine, Rewind, StartPass, disk, saved, counters
<1>6. CASE ReadBoundary \/ PassThrows \/ NoRoll \/ CheckpointFails \/ Crash \/ ChoosePastFailures
  BY <1>6, SizeStays DEF ReadBoundary, PassThrows, NoRoll, CheckpointFails, Crash, ChoosePastFailures,
     Fault, disk, saved, counters
<1>7. CASE Summarise \/ CloseIndexEntry \/ OpenSegment \/ WriteIndex \/ WriteState
  BY <1>7, SizeStays DEF Summarise, CloseIndexEntry, OpenSegment, WriteIndex, WriteState, saved, counters
<1>8. CASE Choose \/ StartAgain \/ MoveSegment \/ MoveSummary \/ TruncateRows
  BY <1>8, SizeStays DEF Choose, StartAgain, MoveSegment, MoveSummary, TruncateRows, disk, saved, counters
<1>9. CASE DropHistory \/ ReopenSegment \/ Restore
  BY <1>9, SizeStays DEF DropHistory, ReopenSegment, Restore, disk, saved, counters
<1>10. CASE UNCHANGED vars
  BY <1>10, SizeStays DEF vars, disk, saved, counters
<1>11. QED
  BY <1>3, <1>4, <1>5, <1>6, <1>7, <1>8, <1>9, <1>10 DEF Next, Pass, Resume

\* The history never holds more files than its limit, and one for each prune that was due and did not
\* run to its end, however often the coordinator starts again (CheckpointWriter.write).
HistoryIsBounded == pc # "prune" => Cardinality(history) <= Keep + faults

\* HistoryIsBounded: a prune that runs to its end leaves Keep files, whatever earlier ones left behind
\* (CheckpointWriter.write).
THEOREM HistoryStaysSmall == Spec => []HistoryIsBounded
<1>1. Init => KeptInv /\ SizeInv
  <2>1. Init => SizeInv
    BY PeriodAssumption, FS_EmptySet DEF Init, SizeInv
  <2>2. QED
    BY <2>1, KeptAtFirst
<1>2. KeptInv /\ SizeInv /\ [Next]_vars => (KeptInv /\ SizeInv)'
  BY KeptStep, SizeStep
<1>3. SizeInv => HistoryIsBounded
  BY PeriodAssumption DEF SizeInv, HistoryIsBounded
<1>4. QED
  BY <1>1, <1>2, <1>3, PTL DEF Spec

-----------------------------------------------------------------------------
(* Files one after the other *)

\* f[i] is the first i files one after the other.
Joins(f, n, files) ==
    f = [i \in 1 .. n |-> IF i = 1 THEN files[i] ELSE f[i - 1] \o files[i]]

LEMMA FlattenIsChosen ==
    ASSUME NEW files, Len(files) # 0
    PROVE  FlattenSeq(files) = (CHOOSE f : Joins(f, Len(files), files))[Len(files)]
BY DEF FlattenSeq, Joins

LEMMA JoinsAt ==
    ASSUME NEW f, NEW n, NEW files, Joins(f, n, files), NEW i \in 1 .. n
    PROVE  f[i] = IF i = 1 THEN files[i] ELSE f[i - 1] \o files[i]
<1> DEFINE e(j) == IF j = 1 THEN files[j] ELSE f[j - 1] \o files[j]
<1>1. f = [j \in 1 .. n |-> e(j)]
  BY DEF Joins
<1> HIDE DEF e
<1>2. f[i] = e(i)
  BY <1>1
<1>3. QED
  BY <1>2 DEF e

LEMMA JoinsExist ==
    ASSUME NEW files, NEW n \in Nat PROVE \E f : Joins(f, n, files)
<1> DEFINE Bad == {m \in Nat : ~ \E f : Joins(f, m, files)}
<1> SUFFICES ASSUME Bad # {} PROVE FALSE
  OBVIOUS
<1>1. PICK k \in Bad : \A j \in Bad : k <= j
  <2>1. Bad \subseteq Nat
    OBVIOUS
  <2> HIDE DEF Bad
  <2>2. QED
    BY <2>1, LeastNatural
<1>2. k # 0
  <2>1. Joins(<<>>, 0, files)
    BY DEF Joins
  <2>2. QED
    BY <1>1, <2>1
<1>3. k \in Nat /\ k - 1 \in Nat /\ k - 1 \notin Bad
  BY <1>1, <1>2
<1>4. PICK f : Joins(f, k - 1, files)
  BY <1>3
<1> DEFINE e(i) == IF i = 1 THEN files[i] ELSE f[i - 1] \o files[i]
           g == [i \in 1 .. k |-> e(i)]
<1>6. ASSUME NEW i \in 1 .. (k - 1) PROVE g[i] = f[i]
  <2>1. i \in 1 .. k /\ g[i] = e(i)
    BY <1>3
  <2> HIDE DEF g
  <2>2. QED
    BY <1>4, <2>1, JoinsAt
<1>7. ASSUME NEW i \in 1 .. k PROVE g[i] = IF i = 1 THEN files[i] ELSE g[i - 1] \o files[i]
  <2>1. g[i] = e(i)
    OBVIOUS
  <2>2. CASE i = 1
    BY <2>1, <2>2
  <2>3. CASE i # 1
    <3>1. i - 1 \in 1 .. (k - 1)
      BY <1>3, <2>3
    <3>2. g[i - 1] = f[i - 1]
      BY <1>6, <3>1
    <3> HIDE DEF g
    <3>3. QED
      BY <2>1, <2>3, <3>2
  <2>4. QED
    BY <2>2, <2>3
<1>8. Joins(g, k, files)
  <2>1. g = [i \in 1 .. k |-> g[i]]
    OBVIOUS
  <2> HIDE DEF g
  <2>2. QED
    BY <1>7, <2>1 DEF Joins
<1>9. QED
  BY <1>1, <1>8

Agree(a, b, n) == \A i \in 1 .. n : a[i] = b[i]

LEMMA JoinsAgree ==
    ASSUME NEW a, NEW b, NEW n \in Nat, NEW m \in Nat, n <= m, Agree(a, b, n),
           NEW f, Joins(f, n, a), NEW g, Joins(g, m, b), NEW l \in 1 .. n
    PROVE  f[l] = g[l]
<1> DEFINE Bad == {i \in 1 .. n : f[i] # g[i]}
<1> SUFFICES ASSUME Bad # {} PROVE FALSE
  OBVIOUS
<1>1. PICK k \in Bad : \A j \in Bad : k <= j
  <2>1. Bad \subseteq Nat
    OBVIOUS
  <2> HIDE DEF Bad
  <2>2. QED
    BY <2>1, LeastNatural
<1>2. /\ k \in 1 .. n /\ k \in 1 .. m
      /\ f[k] = IF k = 1 THEN a[k] ELSE f[k - 1] \o a[k]
      /\ g[k] = IF k = 1 THEN b[k] ELSE g[k - 1] \o b[k]
  <2>1. k \in 1 .. n /\ k \in 1 .. m
    BY <1>1
  <2>2. QED
    BY <2>1, JoinsAt
<1>3. CASE k = 1
  BY <1>1, <1>2, <1>3 DEF Agree
<1>4. CASE k # 1
  <2>1. k - 1 \in 1 .. n /\ k - 1 \notin Bad
    BY <1>1, <1>2, <1>4
  <2>2. f[k - 1] = g[k - 1]
    BY <2>1
  <2>3. f[k] = g[k]
    BY <1>2, <1>4, <2>2 DEF Agree
  <2>4. QED
    BY <1>1, <2>3
<1>5. QED
  BY <1>3, <1>4

LEMMA FlattenNone == FlattenSeq(<<>>) = <<>>
BY DEF FlattenSeq

LEMMA FlattenOfJoins ==
    ASSUME NEW b, NEW m \in Nat, m = Len(b), m # 0
    PROVE  \E g : Joins(g, m, b) /\ FlattenSeq(b) = g[m] /\ (g[m] = IF m = 1 THEN b[m] ELSE g[m - 1] \o b[m])
<1>1. PICK h : h = CHOOSE f : Joins(f, m, b)
  OBVIOUS
<1>2. Joins(h, m, b)
  BY <1>1, JoinsExist
<1>3. FlattenSeq(b) = h[m]
  BY <1>1, FlattenIsChosen
<1>4. m \in 1 .. m
  OBVIOUS
<1>5. h[m] = IF m = 1 THEN b[m] ELSE h[m - 1] \o b[m]
  BY <1>2, <1>4, JoinsAt
<1>6. QED
  BY <1>2, <1>3, <1>5

LEMMA FlattenMore ==
    ASSUME NEW a, NEW b, NEW n \in Nat, NEW m \in Nat, n = Len(a), m = Len(b), n # 0, m = n + 1,
           Agree(a, b, n)
    PROVE  FlattenSeq(b) = FlattenSeq(a) \o b[m]
<1>1. m # 0 /\ n <= m /\ n \in 1 .. n /\ m # 1 /\ m - 1 = n
  OBVIOUS
<1>2. PICK f : Joins(f, n, a) /\ FlattenSeq(a) = f[n]
  BY FlattenOfJoins
<1>3. PICK g : Joins(g, m, b) /\ FlattenSeq(b) = g[m] /\ (g[m] = IF m = 1 THEN b[m] ELSE g[m - 1] \o b[m])
  BY <1>1, FlattenOfJoins
<1>4. Joins(f, n, a) /\ Joins(g, m, b)
  BY <1>2, <1>3
<1>5. f[n] = g[n]
  BY <1>1, <1>4, JoinsAgree
<1>6. QED
  BY <1>1, <1>2, <1>3, <1>5

LEMMA FlattenOne ==
    ASSUME NEW b, Len(b) = 1 PROVE FlattenSeq(b) = b[1]
<1>1. PICK m \in Nat : m = 1
  OBVIOUS
<1>2. m = Len(b) /\ m # 0
  BY <1>1
<1>3. PICK g : Joins(g, m, b) /\ FlattenSeq(b) = g[m] /\ (g[m] = IF m = 1 THEN b[m] ELSE g[m - 1] \o b[m])
  BY <1>2, FlattenOfJoins
<1>4. QED
  BY <1>1, <1>3

\* The files with one more at the end are its rows more.
LEMMA FlattenLast ==
    ASSUME NEW T, NEW a \in Seq(Seq(T)), NEW b \in Seq(Seq(T)), Len(b) = Len(a) + 1,
           \A i \in 1 .. Len(a) : b[i] = a[i]
    PROVE  FlattenSeq(b) = FlattenSeq(a) \o b[Len(b)]
<1> DEFINE S == Seq(T)
<1>0. a \in Seq(S) /\ b \in Seq(S) /\ S = Seq(T)
  OBVIOUS
<1> HIDE DEF S
<1>1. CASE Len(a) = 0
  <2>1. a = <<>> /\ Len(b) = 1
    BY <1>0, <1>1
  <2>2. b[1] \in S
    BY <1>0, <2>1
  <2>3. b[1] \in Seq(T)
    BY <1>0, <2>2
  <2>4. FlattenSeq(a) = <<>> /\ FlattenSeq(b) = b[1]
    BY <2>1, FlattenNone, FlattenOne
  <2>5. <<>> \o b[1] = b[1]
    BY <2>3
  <2>6. QED
    BY <2>1, <2>4, <2>5
<1>2. CASE Len(a) # 0
  <2>1. PICK n \in Nat, m \in Nat : n = Len(a) /\ m = Len(b) /\ m = n + 1 /\ n # 0
    BY <1>0, <1>2
  <2>2. Agree(a, b, n)
    BY <2>1 DEF Agree
  <2>3. FlattenSeq(b) = FlattenSeq(a) \o b[m]
    BY <2>1, <2>2, FlattenMore
  <2>4. QED
    BY <2>1, <2>3
<1>3. QED
  BY <1>1, <1>2
-----------------------------------------------------------------------------
(* What the files hold behind a checkpoint *)

Row == [block : Nat, era : Nat]

OnThis(ch, row) == row.block \in DOMAIN ch /\ ch[row.block] = row.era

Ascending(b) == \A i, j \in DOMAIN b : i < j => b[i].block < b[j].block

\* The intervals of b that end past first and not past final.
Between(b, first, final) ==
    {pair \in Intervals(b) : first < pair[2].block /\ pair[2].block <= final}

\* The rows of the segments before n, and all rows a checkpoint has behind it.
Earlier(fs, n) == FlattenSeq([i \in 1 .. n |-> fs[i - 1]])
Recorded(fs, p) == Earlier(fs, p.seg) \o SubSeq(fs[p.seg], 1, p.rows)

CheckpointShape(p) ==
    /\ p.block \in Nat /\ p.seg \in Nat /\ p.rows \in Nat
    /\ p.attempted \in Int /\ p.attempted >= NoBoundary
    /\ p.attempted = NoBoundary \/ p.attempted <= p.block - Lag
    /\ p.segStart \in Nat /\ p.segStart >= Start
    /\ p.segStart = Start \/ p.segStart <= p.block - Lag

\* The boundaries read up to it, in order and on the chain.
RowsBehind(ch, fs, p) ==
    /\ 0 .. p.seg \subseteq DOMAIN fs
    /\ \A s \in 0 .. p.seg : fs[s] \in Seq(Row)
    /\ p.rows <= Len(fs[p.seg])
    /\ Earlier(fs, p.seg) \in Seq(Row)
    /\ Ascending(Recorded(fs, p))
    /\ \A i \in DOMAIN Recorded(fs, p) :
         /\ OnThis(ch, Recorded(fs, p)[i])
         /\ Start <= Recorded(fs, p)[i].block /\ Recorded(fs, p)[i].block <= p.attempted
    /\ \A s \in 0 .. (p.seg - 1) : \A i \in DOMAIN fs[s] :
         OnThis(ch, fs[s][i]) /\ Start <= fs[s][i].block /\ fs[s][i].block <= p.attempted

\* The closed segments before it lie next to each other from the period's start.
SegmentsBehind(ix, p) ==
    /\ 0 .. (p.seg - 1) \subseteq DOMAIN ix
    /\ \A s \in 0 .. (p.seg - 1) :
         /\ ix[s].first \in Nat /\ ix[s].final \in Nat
         /\ ix[s].first <= ix[s].final /\ ix[s].final <= p.segStart
         /\ ix[s].final < p.attempted + Interval
         /\ ix[s].final = IF s = p.seg - 1 THEN p.segStart ELSE ix[s + 1].first
    /\ \A s, t \in 0 .. (p.seg - 1) : s < t => ix[s].final <= ix[t].first
    /\ Start = IF p.seg = 0 THEN p.segStart ELSE ix[0].first

\* A summary scores the intervals of the boundaries b that end in its segment, and holds rows of b only.
Scores(sum, b, first, final) ==
    /\ Intervals(sum) = Between(b, first, final)
    /\ \A i \in DOMAIN sum : \E j \in DOMAIN b : sum[i] = b[j]

SummariesBehind(fs, sums, ix, p) ==
    /\ 0 .. (p.seg - 1) \subseteq DOMAIN sums
    /\ \A s \in 0 .. (p.seg - 1) : Scores(sums[s], Recorded(fs, p), ix[s].first, ix[s].final)

Intact(ch, fs, sums, ix, p) ==
    /\ CheckpointShape(p)
    /\ RowsBehind(ch, fs, p)
    /\ SegmentsBehind(ix, p)
    /\ SummariesBehind(fs, sums, ix, p)

\* One checkpoint was written after the other in the same chain of segments.
Behind(cp, later) == cp.seg < later.seg \/ (cp.seg = later.seg /\ cp.rows <= later.rows)

LEMMA RecordedIsSeq ==
    ASSUME NEW ch, NEW fs, NEW p, CheckpointShape(p), RowsBehind(ch, fs, p)
    PROVE  /\ Recorded(fs, p) \in Seq(Row)
           /\ Len(Recorded(fs, p)) = Len(Earlier(fs, p.seg)) + p.rows
           /\ DOMAIN Recorded(fs, p) = 1 .. Len(Recorded(fs, p))
           /\ \A i \in DOMAIN Recorded(fs, p) : Recorded(fs, p)[i] \in Row
           /\ \A i \in 1 .. p.rows : Recorded(fs, p)[Len(Earlier(fs, p.seg)) + i] = fs[p.seg][i]
<1> DEFINE e == Earlier(fs, p.seg)
           t == SubSeq(fs[p.seg], 1, p.rows)
<1>1. e \in Seq(Row) /\ fs[p.seg] \in Seq(Row) /\ p.rows \in Nat /\ p.rows <= Len(fs[p.seg])
  BY DEF RowsBehind, CheckpointShape
<1>2. t \in Seq(Row) /\ Len(t) = p.rows /\ \A i \in 1 .. p.rows : t[i] = fs[p.seg][i]
  BY <1>1
<1>3. Recorded(fs, p) = e \o t
  BY DEF Recorded
<1> HIDE DEF e, t
<1>4. /\ e \o t \in Seq(Row) /\ Len(e \o t) = Len(e) + Len(t)
      /\ \A i \in 1 .. Len(t) : (e \o t)[Len(e) + i] = t[i]
  BY <1>1, <1>2
<1>5. QED
  BY <1>1, <1>2, <1>3, <1>4 DEF e

-----------------------------------------------------------------------------
(* What is behind a checkpoint stays *)

\* A step that leaves what is behind p as it is.
Stays(p) ==
    /\ \A b \in DOMAIN chain : b <= p.block => b \in DOMAIN chain' /\ chain'[b] = chain[b]
    /\ \A s \in 0 .. (p.seg - 1) :
         /\ s \in DOMAIN rows' /\ rows'[s] = rows[s]
         /\ s \in DOMAIN summaries' /\ summaries'[s] = summaries[s]
         /\ s \in DOMAIN index' /\ index'[s] = index[s]
    /\ p.seg \in DOMAIN rows' /\ rows'[p.seg] \in Seq(Row)
    /\ p.rows <= Len(rows'[p.seg])
    /\ \A i \in 1 .. p.rows : rows'[p.seg][i] = rows[p.seg][i]

LEMMA SameFiles ==
    ASSUME NEW f, NEW g, NEW n, \A s \in 0 .. (n - 1) : f[s] = g[s], n \in Nat
    PROVE  Earlier(f, n) = Earlier(g, n)
<1>1. \A i \in 1 .. n : f[i - 1] = g[i - 1]
  <2> SUFFICES ASSUME NEW i \in 1 .. n PROVE f[i - 1] = g[i - 1]
    OBVIOUS
  <2>1. i - 1 \in 0 .. (n - 1)
    OBVIOUS
  <2>2. QED
    BY <2>1
<1>2. [i \in 1 .. n |-> f[i - 1]] = [i \in 1 .. n |-> g[i - 1]]
  BY <1>1
<1>3. QED
  BY <1>2 DEF Earlier

LEMMA SamePrefix ==
    ASSUME NEW f \in Seq(Row), NEW g \in Seq(Row), NEW k \in Nat, k <= Len(f), k <= Len(g),
           \A i \in 1 .. k : f[i] = g[i]
    PROVE  SubSeq(f, 1, k) = SubSeq(g, 1, k)
OBVIOUS

LEMMA RecordedStays ==
    ASSUME NEW p, NEW q, CheckpointShape(p), RowsBehind(chain, rows, p), Stays(p),
           q.seg = p.seg, q.rows = p.rows
    PROVE  Recorded(rows', q) = Recorded(rows, p) /\ Earlier(rows', q.seg) = Earlier(rows, p.seg)
<1>1. p.seg \in Nat /\ p.rows \in Nat /\ p.seg \in 0 .. p.seg
  BY DEF CheckpointShape
<1>2. Earlier(rows', p.seg) = Earlier(rows, p.seg)
  <2>1. \A s \in 0 .. (p.seg - 1) : rows'[s] = rows[s]
    BY DEF Stays
  <2>2. QED
    BY <1>1, <2>1, SameFiles
<1>3. SubSeq(rows'[p.seg], 1, p.rows) = SubSeq(rows[p.seg], 1, p.rows)
  <2>1. /\ rows'[p.seg] \in Seq(Row) /\ rows[p.seg] \in Seq(Row)
        /\ p.rows <= Len(rows'[p.seg]) /\ p.rows <= Len(rows[p.seg])
        /\ \A i \in 1 .. p.rows : rows'[p.seg][i] = rows[p.seg][i]
    BY <1>1 DEF Stays, RowsBehind
  <2>2. QED
    BY <1>1, <2>1, SamePrefix
<1>4. QED
  BY <1>2, <1>3 DEF Recorded

\* q is p a while later: more blocks processed, perhaps more boundaries attempted, nothing written.
LEMMA IntactStays ==
    ASSUME NEW p, NEW q, Intact(chain, rows, summaries, index, p), Stays(p),
           q.seg = p.seg, q.rows = p.rows, q.segStart = p.segStart,
           q.block \in Nat, q.block >= p.block, q.attempted \in Int, q.attempted >= p.attempted,
           q.attempted = p.attempted \/ q.attempted <= q.block - Lag
    PROVE  Intact(chain', rows', summaries', index', q)
<1>1. CheckpointShape(p) /\ RowsBehind(chain, rows, p)
  BY DEF Intact
<1>2. /\ Recorded(rows', q) = Recorded(rows, p)
      /\ Earlier(rows', q.seg) = Earlier(rows, p.seg)
  BY <1>1, RecordedStays
<1>3. Start \in Nat \ {0} /\ Interval \in Nat \ {0} /\ Lag \in Nat
  BY PeriodAssumption
<1>4. CheckpointShape(q)
  BY <1>1, <1>3 DEF CheckpointShape, NoBoundary
<1>5. ASSUME NEW row, OnThis(chain, row), row.block <= p.attempted, row.block \in Nat, row.block >= Start
      PROVE  OnThis(chain', row)
  <2>1. row.block <= p.block
    BY <1>1, <1>3, <1>5 DEF CheckpointShape, NoBoundary
  <2>2. QED
    BY <1>5, <2>1 DEF OnThis, Stays
<1>6. RowsBehind(chain', rows', q)
  <2>1. \A s \in 0 .. q.seg : s \in DOMAIN rows' /\ rows'[s] \in Seq(Row)
    <3> SUFFICES ASSUME NEW s \in 0 .. p.seg PROVE s \in DOMAIN rows' /\ rows'[s] \in Seq(Row)
      OBVIOUS
    <3>1. CASE s = p.seg
      BY <3>1 DEF Stays
    <3>2. CASE s # p.seg
      <4>1. s \in 0 .. (p.seg - 1)
        BY <1>1, <3>2 DEF CheckpointShape
      <4>2. rows'[s] = rows[s] /\ s \in DOMAIN rows'
        BY <4>1 DEF Stays
      <4>3. QED
        BY <1>1, <4>2 DEF RowsBehind
    <3>3. QED
      BY <3>1, <3>2
  <2>2. q.rows <= Len(rows'[q.seg]) /\ Earlier(rows', q.seg) \in Seq(Row) /\ Ascending(Recorded(rows', q))
    BY <1>1, <1>2 DEF Stays, RowsBehind
  <2>3. ASSUME NEW i \in DOMAIN Recorded(rows', q)
        PROVE  /\ OnThis(chain', Recorded(rows', q)[i])
               /\ Start <= Recorded(rows', q)[i].block /\ Recorded(rows', q)[i].block <= q.attempted
    <3> DEFINE row == Recorded(rows, p)[i]
    <3>1. row = Recorded(rows', q)[i] /\ i \in DOMAIN Recorded(rows, p)
      BY <1>2
    <3>2. OnThis(chain, row) /\ Start <= row.block /\ row.block <= p.attempted
      BY <1>1, <3>1 DEF RowsBehind
    <3>3. row.block \in Nat
      BY <1>1, <3>1, RecordedIsSeq DEF Row
    <3> HIDE DEF row
    <3>4. OnThis(chain', row)
      BY <1>5, <3>2, <3>3
    <3>5. row.block <= q.attempted
      BY <1>1, <3>2, <3>3 DEF CheckpointShape
    <3>6. QED
      BY <3>1, <3>2, <3>4, <3>5
  <2>4. ASSUME NEW s \in 0 .. (q.seg - 1), NEW i \in DOMAIN rows'[s]
        PROVE  OnThis(chain', rows'[s][i]) /\ Start <= rows'[s][i].block /\ rows'[s][i].block <= q.attempted
    <3>1. s \in 0 .. (p.seg - 1) /\ s \in 0 .. p.seg /\ rows'[s] = rows[s]
      BY <1>1 DEF Stays, CheckpointShape
    <3>2. PICK row : row = rows[s][i]
      OBVIOUS
    <3>3. OnThis(chain, row) /\ row.block <= p.attempted /\ row.block \in Nat
      <4>1. rows[s] \in Seq(Row)
        BY <1>1, <3>1 DEF RowsBehind
      <4>2. row \in Row
        BY <3>1, <3>2, <4>1
      <4>3. QED
        BY <1>1, <3>1, <3>2, <4>2 DEF RowsBehind, Row
    <3>4. row.block >= Start
      BY <1>1, <3>1, <3>2 DEF RowsBehind
    <3>5. OnThis(chain', row) /\ row.block <= q.attempted
      BY <1>1, <1>5, <3>3, <3>4 DEF CheckpointShape
    <3>6. QED
      BY <3>1, <3>2, <3>4, <3>5
  <2>5. QED
    BY <2>1, <2>2, <2>3, <2>4 DEF RowsBehind
<1>7. \A s \in 0 .. (p.seg - 1) : index'[s] = index[s] /\ summaries'[s] = summaries[s]
  BY DEF Stays
<1>8. SegmentsBehind(index', q)
  <2>1. SegmentsBehind(index, p)
    BY DEF Intact
  <2>2. 0 .. (q.seg - 1) \subseteq DOMAIN index'
    BY DEF Stays
  <2>3. \A s \in 0 .. (p.seg - 1) : s + 1 \in 0 .. (p.seg - 1) \/ s = p.seg - 1
    BY <1>1 DEF CheckpointShape
  <2>4. p.seg # 0 => 0 \in 0 .. (p.seg - 1)
    BY <1>1 DEF CheckpointShape
  <2>5. ASSUME NEW s \in 0 .. (p.seg - 1)
        PROVE  index[s].final < q.attempted + Interval
    BY <1>1, <1>3, <2>1 DEF SegmentsBehind, CheckpointShape
  <2>6. QED
    BY <1>7, <2>1, <2>2, <2>3, <2>4, <2>5 DEF SegmentsBehind
<1>9. SummariesBehind(rows', summaries', index', q)
  <2>1. SummariesBehind(rows, summaries, index, p)
    BY DEF Intact
  <2>2. 0 .. (q.seg - 1) \subseteq DOMAIN summaries'
    BY DEF Stays
  <2>3. QED
    BY <1>2, <1>7, <2>1, <2>2 DEF SummariesBehind
<1>10. QED
  BY <1>4, <1>6, <1>8, <1>9 DEF Intact

-----------------------------------------------------------------------------
(* The slice of a segment *)

LEMMA MinIs ==
    ASSUME NEW S, S \subseteq Nat, S # {}
    PROVE  Min(S) \in S /\ \A x \in S : Min(S) <= x
<1>1. \E x \in S : \A y \in S : x <= y
  BY LeastNatural
<1>2. QED
  BY <1>1 DEF Min

LEMMA MaxIs ==
    ASSUME NEW S, S \subseteq Nat, S # {}, NEW n \in Nat, \A x \in S : x <= n
    PROVE  Max(S) \in S /\ \A x \in S : x <= Max(S)
<1>1. \E x \in S : \A y \in S : x >= y
  BY GreatestNatural
<1>2. QED
  BY <1>1 DEF Max

\* The pairs of neighbours in b that end at one of some places.
Pairs(b, places) == {<<b[i - 1], b[i]>> : i \in places}

LEMMA SubPairs ==
    ASSUME NEW b \in Seq(Row), NEW lo \in 1 .. Len(b), NEW hi \in lo .. Len(b)
    PROVE  /\ Intervals(SubSeq(b, lo, hi)) = Pairs(b, (lo + 1) .. hi)
           /\ \A i \in DOMAIN SubSeq(b, lo, hi) : \E j \in DOMAIN b : SubSeq(b, lo, hi)[i] = b[j]
<1> DEFINE s == SubSeq(b, lo, hi)
<1>1. /\ Len(s) = hi - lo + 1 /\ DOMAIN s = 1 .. (hi - lo + 1)
      /\ \A i \in 1 .. (hi - lo + 1) : s[i] = b[lo + i - 1]
  OBVIOUS
<1> HIDE DEF s
<1>2. ASSUME NEW i \in 2 .. Len(s) PROVE <<s[i - 1], s[i]>> \in Pairs(b, (lo + 1) .. hi)
  <2>1. /\ lo + i - 1 \in (lo + 1) .. hi
        /\ i - 1 \in 1 .. (hi - lo + 1) /\ i \in 1 .. (hi - lo + 1)
        /\ lo + (i - 1) - 1 = (lo + i - 1) - 1
    BY <1>1
  <2>2. s[i] = b[lo + i - 1] /\ s[i - 1] = b[(lo + i - 1) - 1]
    BY <1>1, <2>1
  <2>3. QED
    BY <2>1, <2>2 DEF Pairs
<1>3. ASSUME NEW k \in (lo + 1) .. hi PROVE <<b[k - 1], b[k]>> \in Intervals(s)
  <2>1. PICK i \in 2 .. Len(s) : i = k - lo + 1
    BY <1>1
  <2>2. i - 1 \in 1 .. (hi - lo + 1) /\ i \in 1 .. (hi - lo + 1) /\ lo + i - 1 = k /\ lo + (i - 1) - 1 = k - 1
    BY <1>1, <2>1
  <2>3. s[i] = b[k] /\ s[i - 1] = b[k - 1]
    BY <1>1, <2>2
  <2>4. QED
    BY <2>1, <2>3 DEF Intervals
<1>4. Intervals(s) = Pairs(b, (lo + 1) .. hi)
  BY <1>2, <1>3 DEF Intervals, Pairs
<1>5. ASSUME NEW i \in DOMAIN s PROVE \E j \in DOMAIN b : s[i] = b[j]
  <2>1. lo + i - 1 \in DOMAIN b /\ s[i] = b[lo + i - 1]
    BY <1>1
  <2>2. QED
    BY <2>1
<1>6. QED
  BY <1>4, <1>5 DEF s

LEMMA BetweenPairs ==
    ASSUME NEW b, NEW first, NEW final
    PROVE  Between(b, first, final)
             = Pairs(b, {i \in 2 .. Len(b) : first < b[i].block /\ b[i].block <= final})
BY DEF Between, Intervals, Pairs

LEMMA EmptyScores ==
    ASSUME NEW b, NEW first, NEW final, Between(b, first, final) = {}
    PROVE  Scores(<<>>, b, first, final)
<1>1. Intervals(<<>>) = {}
  BY DEF Intervals
<1>2. QED
  BY <1>1 DEF Scores

Rising(f, n) == \A i, j \in 1 .. n : i < j => f[i] < f[j]
IsFirst(m, S) == m \in S /\ \A i \in S : m <= i
IsLast(m, S) == m \in S /\ \A i \in S : i <= m

\* Which of the blocks f are before a segment, and which its own.
Sides(f, n, first, final, before, own) ==
    \A i \in 1 .. n : /\ i \in before <=> f[i] < first
                      /\ i \in own <=> first <= f[i] /\ f[i] <= final

EndsIn(f, n, first, final, lo, hi) ==
    \A i \in 2 .. n : (first < f[i] /\ f[i] <= final) <=> i \in (lo + 1) .. hi

\* The places of a slice, of boundaries at the blocks f: from the carried one, or the first of its
\* own, to its last; the places after the first are those whose interval ends in the segment.
LEMMA SlicePlaces ==
    ASSUME NEW n \in Nat, NEW f \in [1 .. n -> Nat], Rising(f, n),
           NEW first \in Nat, NEW final \in Nat,
           NEW before \in SUBSET (1 .. n), NEW own \in SUBSET (1 .. n), Sides(f, n, first, final, before, own),
           NEW c, before # {} => IsLast(c, before),
           NEW m, own # {} => IsFirst(m, own),
           NEW places, places = IF before = {} \/ (own # {} /\ f[m] = first) THEN own ELSE own \cup {c},
           NEW lo, IsFirst(lo, places), NEW hi, IsLast(hi, places)
    PROVE  lo \in 1 .. n /\ hi \in lo .. n /\ EndsIn(f, n, first, final, lo, hi)
<1> USE DEF Rising, Sides, IsFirst, IsLast
<1>1. own \subseteq places /\ places \subseteq 1 .. n
  OBVIOUS
<1>2. lo \in 1 .. n /\ hi \in 1 .. n /\ lo <= hi
  BY <1>1
<1>3. lo \in own \/ (lo = c /\ lo \in before /\ ~(own # {} /\ f[m] = first))
  OBVIOUS
<1>4. hi \in own \/ (hi = c /\ hi \in before)
  OBVIOUS
<1>5. ASSUME NEW i \in 2 .. n, i \in (lo + 1) .. hi PROVE first < f[i] /\ f[i] <= final
  <2>1. i \in 1 .. n /\ lo < i /\ i <= hi /\ f[lo] < f[i] /\ (i = hi \/ f[i] < f[hi])
    BY <1>2, <1>5
  <2>2. hi \in own
    <3>1. SUFFICES ASSUME hi \notin own PROVE FALSE
      OBVIOUS
    <3>2. hi = c /\ hi \in before /\ f[hi] < first
      BY <1>2, <1>4, <3>1
    <3>3. own = {}
      <4>1. SUFFICES ASSUME NEW j \in own PROVE FALSE
        OBVIOUS
      <4>2. j \in 1 .. n /\ j <= hi /\ first <= f[j]
        BY <1>1
      <4>3. f[j] <= f[hi]
        BY <1>2, <4>2
      <4>4. QED
        BY <1>2, <3>2, <4>2, <4>3
    <3>4. lo = c
      BY <3>3
    <3>5. QED
      BY <1>2, <2>1, <3>2, <3>4
  <2>3. f[i] <= final
    BY <1>2, <2>1, <2>2
  <2>4. CASE lo \in own
    BY <1>2, <2>1, <2>3, <2>4
  <2>5. CASE lo \notin own
    <3>1. lo = c /\ lo \in before /\ ~(own # {} /\ f[m] = first)
      BY <1>3, <2>5
    <3>2. i \notin before
      BY <1>2, <2>1, <3>1
    <3>3. f[i] >= first
      BY <2>1, <3>2
    <3>4. ASSUME f[i] = first PROVE FALSE
      <4>0. i \in 1 .. n /\ first <= f[i] /\ f[i] <= final
        BY <2>1, <2>3, <3>4
      <4>1. i \in own
        BY <4>0
      <4>2. m \in own /\ m \in 1 .. n /\ m <= i /\ first <= f[m]
        BY <4>1
      <4>3. m = i
        BY <2>1, <3>4, <4>2
      <4>4. QED
        BY <3>1, <3>4, <4>1, <4>3
    <3>5. QED
      BY <2>1, <2>3, <3>3, <3>4
  <2>6. QED
    BY <2>4, <2>5
<1>6. ASSUME NEW i \in 2 .. n, first < f[i], f[i] <= final PROVE i \in (lo + 1) .. hi
  <2>1. i \in own /\ i \in 1 .. n
    BY <1>6
  <2>2. lo <= i /\ i <= hi
    BY <1>1, <2>1
  <2>3. ASSUME lo = i PROVE FALSE
    <3>1. i - 1 \in 1 .. n /\ f[i - 1] < f[i]
      BY <1>6
    <3>2. i - 1 \notin own
      BY <1>1, <1>2, <2>1, <2>3
    <3>p. PICK j \in 1 .. n : j = i - 1
      BY <3>1
    <3>q. f[j] <= final /\ j \notin own
      BY <1>6, <2>1, <3>1, <3>2, <3>p
    <3>r. ~(first <= f[j])
      BY <3>q
    <3>s. f[j] < first
      BY <3>r
    <3>3. j \in before
      BY <3>s
    <3>4. m \in own /\ m \in 1 .. n /\ m <= i /\ lo <= m
      BY <1>1, <2>1
    <3>5. m = i
      BY <2>1, <2>3, <3>4, <1>2
    <3>6. f[m] # first
      BY <1>6, <2>1, <3>5
    <3>7. c \in places /\ c \in 1 .. n /\ c \in before
      BY <3>3, <3>6
    <3>8. lo <= c /\ f[c] < first
      BY <3>7
    <3>9. f[i] <= f[c]
      <4>1. i = c \/ i < c
        BY <2>1, <2>3, <3>7, <3>8
      <4>2. f[i] \in Nat /\ f[c] \in Nat /\ (i < c => f[i] < f[c])
        BY <2>1, <3>7
      <4>3. QED
        BY <4>1, <4>2
    <3>10. f[i] \in Nat /\ f[c] \in Nat
      BY <2>1, <3>7
    <3>11. QED
      BY <1>6, <3>8, <3>9, <3>10
  <2>4. QED
    BY <1>2, <2>1, <2>2, <2>3
<1>7. QED
  BY <1>2, <1>5, <1>6 DEF EndsIn

\* A segment's slice scores the intervals that end in it: of two segments that meet on a boundary the
\* interval before it is the first one's, and one that spans the seam is the second one's.
LEMMA SliceScores ==
    ASSUME series \in Seq(Row), Ascending(series), NEW first \in Nat, NEW final \in Nat
    PROVE  Scores(Slice(first, final), series, first, final)
<1> DEFINE n == Len(series)
           before == {i \in DOMAIN series : series[i].block < first}
           own == {i \in DOMAIN series : series[i].block \in first .. final}
           starts == own # {} /\ series[Min(own)].block = first
           places == IF before = {} \/ starts THEN own ELSE own \cup {Max(before)}
           ends == {i \in 2 .. n : first < series[i].block /\ series[i].block <= final}
<1>0. PICK f : f = [i \in 1 .. n |-> series[i].block]
  OBVIOUS
<1>1. n \in Nat /\ DOMAIN series = 1 .. n /\ \A i \in 1 .. n : series[i] \in Row /\ f[i] = series[i].block
  BY <1>0
<1>2. \A i \in 1 .. n : series[i].block \in Nat
  BY <1>1 DEF Row
<1>3. f \in [1 .. n -> Nat]
  BY <1>0, <1>2
<1>4. \A i, j \in 1 .. n : i < j => f[i] < f[j]
  BY <1>1 DEF Ascending
<1>5. before \in SUBSET (1 .. n) /\ \A i \in 1 .. n : i \in before <=> f[i] < first
  BY <1>1
<1>6. own \in SUBSET (1 .. n) /\ \A i \in 1 .. n : i \in own <=> f[i] \in first .. final
  BY <1>1
<1>7. \A i \in 1 .. n : i \in own <=> first <= f[i] /\ f[i] <= final
  <2> SUFFICES ASSUME NEW i \in 1 .. n PROVE i \in own <=> first <= f[i] /\ f[i] <= final
    OBVIOUS
  <2>1. i \in own <=> f[i] \in first .. final
    BY <1>6
  <2> HIDE DEF own
  <2>2. f[i] \in Nat
    BY <1>3
  <2>3. QED
    BY <2>1, <2>2
<1>8. Slice(first, final) = IF places = {} THEN <<>> ELSE SubSeq(series, Min(places), Max(places))
  BY DEF Slice, At
<1>9. Between(series, first, final) = Pairs(series, ends)
  BY BetweenPairs
<1>10. \A i \in 2 .. n : i \in ends <=> first < f[i] /\ f[i] <= final
  <2>1. \A i \in 2 .. n : i \in 1 .. n
    BY <1>1
  <2>2. QED
    BY <1>1, <2>1
<1>11. ends \subseteq 2 .. n
  OBVIOUS
<1>12. own # {} => Min(own) \in 1 .. n
  <2>1. own \subseteq Nat
    BY <1>6
  <2> HIDE DEF own
  <2>2. QED
    BY <1>6, <2>1, MinIs
<1>13. places = IF before = {} \/ (own # {} /\ f[Min(own)] = first) THEN own ELSE own \cup {Max(before)}
  BY <1>1, <1>12
<1> HIDE DEF n, before, own, starts, places, ends
<1>14. before # {} => Max(before) \in before /\ \A i \in before : i <= Max(before)
  <2>1. before \subseteq Nat /\ (\A i \in before : i <= n) /\ n \in Nat
    BY <1>1, <1>5
  <2>2. QED
    BY <2>1, MaxIs
<1>15. own # {} => Min(own) \in own /\ \A i \in own : Min(own) <= i
  <2>1. own \subseteq Nat
    BY <1>6
  <2>2. QED
    BY <2>1, MinIs
<1>16. places \subseteq 1 .. n
  BY <1>5, <1>6, <1>13, <1>14
<1>17. CASE places = {}
  <2>1. own = {}
    BY <1>13, <1>17
  <2>2. ends = {}
    <3>1. SUFFICES ASSUME NEW i \in ends PROVE FALSE
      OBVIOUS
    <3>2. i \in 2 .. n /\ i \in 1 .. n /\ first < f[i] /\ f[i] <= final /\ f[i] \in Nat
      BY <1>1, <1>3, <1>10, <1>11
    <3>3. QED
      BY <1>7, <2>1, <3>2
  <2>3. Between(series, first, final) = {}
    BY <1>9, <2>2 DEF Pairs
  <2>4. Slice(first, final) = <<>>
    BY <1>8, <1>17
  <2>5. QED
    BY <2>3, <2>4, EmptyScores
<1>18. CASE places # {}
  <2>1. /\ Min(places) \in places /\ Max(places) \in places
        /\ \A i \in places : Min(places) <= i /\ i <= Max(places)
    <3>1. places \subseteq Nat /\ (\A i \in places : i <= n) /\ n \in Nat
      BY <1>1, <1>16
    <3>2. QED
      BY <1>18, <3>1, MinIs, MaxIs
  <2>2. PICK lo \in places, hi \in places : lo = Min(places) /\ hi = Max(places)
    BY <2>1
  <2>3. \A i \in places : lo <= i /\ i <= hi
    BY <2>1, <2>2
  <2>4. lo \in 1 .. n /\ hi \in lo .. n /\ EndsIn(f, n, first, final, lo, hi)
    <3>1. PICK c, m : c = Max(before) /\ m = Min(own)
      OBVIOUS
    <3>2. before # {} => IsLast(c, before)
      BY <1>14, <3>1 DEF IsLast
    <3>3. own # {} => IsFirst(m, own)
      BY <1>15, <3>1 DEF IsFirst
    <3>4. places = IF before = {} \/ (own # {} /\ f[m] = first) THEN own ELSE own \cup {c}
      BY <1>13, <3>1
    <3>5. n \in Nat /\ before \in SUBSET (1 .. n) /\ own \in SUBSET (1 .. n)
      BY <1>1, <1>5, <1>6
    <3>6. Sides(f, n, first, final, before, own) /\ Rising(f, n)
      BY <1>4, <1>5, <1>7 DEF Sides, Rising
    <3>7. IsFirst(lo, places) /\ IsLast(hi, places)
      BY <2>3 DEF IsFirst, IsLast
    <3>8. QED
      BY <1>3, <3>2, <3>3, <3>4, <3>5, <3>6, <3>7, SlicePlaces
  <2>5. (lo + 1) .. hi = ends
    <3>1. \A i \in (lo + 1) .. hi : i \in 2 .. n
      BY <1>1, <2>4
    <3>2. QED
      BY <1>10, <1>11, <2>4, <3>1 DEF EndsIn
  <2>6. Slice(first, final) = SubSeq(series, lo, hi)
    BY <1>8, <1>18, <2>2
  <2>7. /\ Intervals(SubSeq(series, lo, hi)) = Pairs(series, (lo + 1) .. hi)
        /\ \A i \in DOMAIN SubSeq(series, lo, hi) : \E j \in DOMAIN series : SubSeq(series, lo, hi)[i] = series[j]
    BY <2>4, SubPairs DEF n
  <2>8. QED
    BY <1>9, <2>5, <2>6, <2>7 DEF Scores
<1>19. QED
  BY <1>17, <1>18

-----------------------------------------------------------------------------
(* A boundary more, a segment more *)

LEMMA EarlierMore ==
    ASSUME NEW fs, NEW n \in Nat, \A s \in 0 .. n : fs[s] \in Seq(Row)
    PROVE  Earlier(fs, n + 1) = Earlier(fs, n) \o fs[n]
<1> DEFINE a == [i \in 1 .. n |-> fs[i - 1]]
           b == [i \in 1 .. (n + 1) |-> fs[i - 1]]
<1>1. PICK S : S = Seq(Row)
  OBVIOUS
<1>2. \A i \in 1 .. (n + 1) : i - 1 \in 0 .. n /\ fs[i - 1] \in S
  BY <1>1
<1>3. a \in Seq(S) /\ b \in Seq(S) /\ Len(a) = n /\ Len(b) = n + 1
  BY <1>2
<1>4. (\A i \in 1 .. Len(a) : b[i] = a[i]) /\ b[Len(b)] = fs[n]
  <2>1. \A i \in 1 .. n : i \in 1 .. (n + 1)
    OBVIOUS
  <2>2. b[n + 1] = fs[n]
    OBVIOUS
  <2>3. QED
    BY <1>3, <2>1, <2>2
<1> HIDE DEF a, b
<1>5. a \in Seq(Seq(Row)) /\ b \in Seq(Seq(Row)) /\ Len(b) = Len(a) + 1
  BY <1>1, <1>3
<1>6. FlattenSeq(b) = FlattenSeq(a) \o b[Len(b)]
  BY <1>4, <1>5, FlattenLast
<1>7. QED
  BY <1>4, <1>6 DEF Earlier, a, b

LEMMA WholeFile ==
    ASSUME NEW f \in Seq(Row) PROVE SubSeq(f, 1, Len(f)) = f
OBVIOUS

LEMMA JoinedFiles ==
    ASSUME NEW e \in Seq(Row), NEW f \in Seq(Row), NEW row \in Row
    PROVE  e \o Append(f, row) = Append(e \o f, row) /\ e \o f \in Seq(Row) /\ e \o <<>> = e
OBVIOUS

LEMMA LastEndsLater ==
    ASSUME NEW b \in Seq(Row), NEW row \in Row, NEW first, NEW final \in Nat, row.block > final
    PROVE  Between(Append(b, row), first, final) = Between(b, first, final)
<1>1. /\ Len(b) \in Nat /\ Len(Append(b, row)) = Len(b) + 1
      /\ \A i \in 1 .. Len(b) : Append(b, row)[i] = b[i]
      /\ Append(b, row)[Len(b) + 1] = row
  OBVIOUS
<1> DEFINE g == Append(b, row)
<1> HIDE DEF g
<1>2. ASSUME NEW i \in 2 .. Len(b) PROVE g[i] = b[i] /\ g[i - 1] = b[i - 1] /\ i \in 2 .. Len(g)
  <2>1. i \in 1 .. Len(b) /\ i - 1 \in 1 .. Len(b) /\ i \in 2 .. (Len(b) + 1)
    BY <1>1
  <2>2. QED
    BY <1>1, <2>1 DEF g
<1>3. ASSUME NEW i \in 2 .. Len(g) PROVE i \in 2 .. Len(b) \/ g[i] = row
  BY <1>1 DEF g
<1>4. row.block \in Nat /\ ~(row.block <= final)
  BY DEF Row
<1>5. ASSUME NEW pair \in Between(g, first, final) PROVE pair \in Between(b, first, final)
  <2>1. PICK i \in 2 .. Len(g) : pair = <<g[i - 1], g[i]>>
    BY DEF Between, Intervals
  <2>2. pair[2] = g[i] /\ first < pair[2].block /\ pair[2].block <= final
    BY <2>1 DEF Between
  <2>3. i \in 2 .. Len(b)
    BY <1>3, <1>4, <2>2
  <2>4. pair \in Intervals(b)
    BY <1>2, <2>1, <2>3 DEF Intervals
  <2>5. QED
    BY <2>2, <2>4 DEF Between
<1>6. ASSUME NEW pair \in Between(b, first, final) PROVE pair \in Between(g, first, final)
  <2>1. PICK i \in 2 .. Len(b) : pair = <<b[i - 1], b[i]>>
    BY DEF Between, Intervals
  <2>2. pair \in Intervals(g)
    BY <1>2, <2>1 DEF Intervals
  <2>3. QED
    BY <2>2 DEF Between
<1>7. QED
  BY <1>5, <1>6 DEF g

\* A boundary that is read goes to the series and to the segment's file alike.
LEMMA ReadKeeps ==
    ASSUME NEW p, NEW q, NEW row \in Row, Intact(chain, rows, summaries, index, p),
           p.rows = Len(rows[p.seg]), series = Recorded(rows, p),
           row.block = p.attempted + Interval, OnThis(chain, row),
           rows' = [rows EXCEPT ![p.seg] = Append(@, row)],
           series' = Append(series, row),
           UNCHANGED <<chain, summaries, index>>,
           q.seg = p.seg, q.segStart = p.segStart, q.block = p.block, q.rows = p.rows + 1,
           q.attempted = p.attempted + Interval, q.attempted <= q.block - Lag
    PROVE  Intact(chain', rows', summaries', index', q) /\ series' = Recorded(rows', q)
<1>1. CheckpointShape(p) /\ RowsBehind(chain, rows, p)
  BY DEF Intact
<1>2. Start \in Nat \ {0} /\ Interval \in Nat \ {0} /\ Lag \in Nat
  BY PeriodAssumption
<1>3. p.seg \in Nat /\ p.rows \in Nat /\ p.attempted \in Int /\ row.block \in Nat
  BY <1>1 DEF CheckpointShape, Row
<1> DEFINE e == Earlier(rows, p.seg)
           f == rows[p.seg]
           b == Recorded(rows, p)
<1>4. e \in Seq(Row) /\ f \in Seq(Row) /\ p.seg \in DOMAIN rows
  BY <1>1, <1>3 DEF RowsBehind
<1>5. rows'[p.seg] = Append(f, row) /\ DOMAIN rows' = DOMAIN rows
      /\ \A s \in DOMAIN rows : s # p.seg => rows'[s] = rows[s]
  BY <1>4
<1>6. Earlier(rows', p.seg) = e
  <2>1. \A s \in 0 .. (p.seg - 1) : rows'[s] = rows[s]
    BY <1>1, <1>3, <1>5 DEF RowsBehind
  <2>2. PICK n \in Nat : n = p.seg
    BY <1>3
  <2>3. Earlier(rows', n) = Earlier(rows, n)
    <3>1. \A s \in 0 .. (n - 1) : rows'[s] = rows[s]
      BY <2>1, <2>2
    <3>2. QED
      BY ONLY <2>2, <3>1, SameFiles
  <2>4. QED
    BY ONLY <2>2, <2>3 DEF e
<1>7. b = e \o f
  BY <1>4, WholeFile DEF Recorded
<1>8. Append(f, row) \in Seq(Row) /\ Len(Append(f, row)) = p.rows + 1
  BY <1>4
<1>9. Recorded(rows', q) = Append(b, row)
  <2>1. Recorded(rows', q) = e \o SubSeq(Append(f, row), 1, p.rows + 1)
    BY <1>5, <1>6 DEF Recorded
  <2>2. SubSeq(Append(f, row), 1, p.rows + 1) = Append(f, row)
    BY <1>8, WholeFile
  <2>3. e \o Append(f, row) = Append(e \o f, row)
    <3> HIDE DEF e, f
    <3>1. QED
      BY ONLY <1>4, row \in Row, JoinedFiles
  <2>4. QED
    BY <1>7, <2>1, <2>2, <2>3
<1>10. /\ b \in Seq(Row) /\ DOMAIN b = 1 .. Len(b) /\ \A i \in DOMAIN b : b[i] \in Row
  BY <1>1, RecordedIsSeq
<1>11. \A i \in DOMAIN b : /\ OnThis(chain, b[i]) /\ Start <= b[i].block /\ b[i].block <= p.attempted
                           /\ b[i].block \in Nat
  BY <1>1, <1>10 DEF RowsBehind, Row
<1> HIDE DEF e, f, b
<1>12. /\ DOMAIN Append(b, row) = 1 .. (Len(b) + 1) /\ Len(b) \in Nat
       /\ \A i \in 1 .. Len(b) : Append(b, row)[i] = b[i]
       /\ Append(b, row)[Len(b) + 1] = row
  BY <1>10
<1>13. CheckpointShape(q)
  <2>1. /\ p.block \in Nat /\ p.attempted >= Start - Interval
        /\ p.segStart \in Nat /\ p.segStart >= Start
        /\ p.segStart = Start \/ p.segStart <= p.block - Lag
    BY <1>1 DEF CheckpointShape, NoBoundary
  <2>2. q.attempted \in Int /\ q.attempted >= Start - Interval
    BY <1>2, <1>3, <2>1
  <2>3. QED
    BY <1>2, <1>3, <2>1, <2>2 DEF CheckpointShape, NoBoundary
<1>14. Start <= row.block
  BY <1>1, <1>2 DEF CheckpointShape, NoBoundary
<1>15. \A s \in 0 .. (p.seg - 1) : s \in DOMAIN rows /\ s # p.seg /\ rows'[s] = rows[s]
  <2> SUFFICES ASSUME NEW s \in 0 .. (p.seg - 1)
               PROVE  s \in DOMAIN rows /\ s # p.seg /\ rows'[s] = rows[s]
    OBVIOUS
  <2>1. s \in 0 .. p.seg /\ s # p.seg
    BY <1>3
  <2>2. s \in DOMAIN rows
    BY <1>1, <2>1 DEF RowsBehind
  <2>3. QED
    BY <1>5, <2>1, <2>2
<1>16. RowsBehind(chain', rows', q)
  <2>1. 0 .. q.seg \subseteq DOMAIN rows' /\ \A s \in 0 .. q.seg : rows'[s] \in Seq(Row)
    <3>1. \A s \in 0 .. p.seg : s \in DOMAIN rows /\ rows[s] \in Seq(Row)
      BY <1>1 DEF RowsBehind
    <3>2. QED
      BY <1>5, <1>8, <3>1
  <2>2. q.rows <= Len(rows'[q.seg]) /\ Earlier(rows', q.seg) \in Seq(Row)
    BY <1>3, <1>4, <1>5, <1>6, <1>8
  <2>3. Ascending(Append(b, row))
    <3> SUFFICES ASSUME NEW i \in 1 .. (Len(b) + 1), NEW j \in 1 .. (Len(b) + 1), i < j
                 PROVE  Append(b, row)[i].block < Append(b, row)[j].block
      BY <1>12 DEF Ascending
    <3>1. i \in 1 .. Len(b) /\ Append(b, row)[i] = b[i] /\ i \in DOMAIN b
      BY <1>10, <1>12
    <3>2. CASE j \in 1 .. Len(b)
      <4>1. Append(b, row)[j] = b[j] /\ j \in DOMAIN b
        BY <1>10, <1>12, <3>2
      <4>2. Ascending(b)
        BY <1>1 DEF RowsBehind, b
      <4>3. QED
        BY <3>1, <4>1, <4>2 DEF Ascending
    <3>3. CASE j = Len(b) + 1
      <4>1. Append(b, row)[j] = row
        BY <1>12, <3>3
      <4>2. b[i].block <= p.attempted /\ b[i].block \in Nat
        BY <1>11, <3>1
      <4>3. QED
        BY <1>2, <1>3, <3>1, <4>1, <4>2
    <3>4. QED
      BY <1>12, <3>2, <3>3
  <2>4. ASSUME NEW i \in DOMAIN Append(b, row)
        PROVE  /\ OnThis(chain, Append(b, row)[i])
               /\ Start <= Append(b, row)[i].block /\ Append(b, row)[i].block <= q.attempted
    <3>1. CASE i \in 1 .. Len(b)
      <4>1. Append(b, row)[i] = b[i] /\ i \in DOMAIN b
        BY <1>10, <1>12, <3>1
      <4>2. b[i].block \in Nat /\ b[i].block <= p.attempted /\ Start <= b[i].block /\ OnThis(chain, b[i])
        BY <1>11, <4>1
      <4>3. b[i].block <= q.attempted
        BY <1>2, <1>3, <4>2
      <4>4. QED
        BY <4>1, <4>2, <4>3
    <3>2. CASE i = Len(b) + 1
      <4>1. Append(b, row)[i] = row
        BY <1>12, <3>2
      <4>2. row.block <= q.attempted
        BY <1>3
      <4>3. QED
        BY <1>14, <4>1, <4>2
    <3>3. QED
      BY <1>12, <3>1, <3>2
  <2>5. ASSUME NEW s \in 0 .. (q.seg - 1), NEW i \in DOMAIN rows'[s]
        PROVE  OnThis(chain', rows'[s][i]) /\ Start <= rows'[s][i].block /\ rows'[s][i].block <= q.attempted
    <3>1. s \in 0 .. (p.seg - 1) /\ s \in 0 .. p.seg /\ rows'[s] = rows[s]
      BY <1>3, <1>15
    <3>2. PICK r : r = rows[s][i]
      OBVIOUS
    <3>3. r \in Row
      <4>1. rows[s] \in Seq(Row)
        BY <1>1, <3>1 DEF RowsBehind
      <4>2. QED
        BY <3>1, <3>2, <4>1
    <3>4. OnThis(chain, r) /\ Start <= r.block /\ r.block <= p.attempted
      BY <1>1, <3>1, <3>2 DEF RowsBehind
    <3>5. r.block <= q.attempted
      BY <1>2, <1>3, <3>3, <3>4 DEF Row
    <3>6. QED
      BY <3>1, <3>2, <3>4, <3>5
  <2>6. QED
    BY <1>9, <2>1, <2>2, <2>3, <2>4, <2>5 DEF RowsBehind
<1>17. SegmentsBehind(index, p)
  BY DEF Intact
<1>18. \A s \in 0 .. (p.seg - 1) : /\ index[s].final \in Nat /\ index[s].final < row.block
                                   /\ index[s].final < q.attempted + Interval
  <2> SUFFICES ASSUME NEW s \in 0 .. (p.seg - 1)
               PROVE  /\ index[s].final \in Nat /\ index[s].final < row.block
                      /\ index[s].final < q.attempted + Interval
    OBVIOUS
  <2>1. index[s].final \in Nat /\ index[s].final < p.attempted + Interval
    BY <1>17 DEF SegmentsBehind
  <2>2. QED
    BY <1>2, <1>3, <2>1
<1>19. SegmentsBehind(index', q)
  BY <1>17, <1>18 DEF SegmentsBehind
<1>20. SummariesBehind(rows', summaries', index', q)
  <2>1. SummariesBehind(rows, summaries, index, p)
    BY DEF Intact
  <2>2. ASSUME NEW s \in 0 .. (p.seg - 1)
        PROVE  Scores(summaries[s], Append(b, row), index[s].first, index[s].final)
    <3>1. Scores(summaries[s], b, index[s].first, index[s].final)
      BY <2>1 DEF SummariesBehind, b
    <3>2. Between(Append(b, row), index[s].first, index[s].final) = Between(b, index[s].first, index[s].final)
      BY <1>10, <1>18, LastEndsLater
    <3>3. \A j \in DOMAIN b : j \in DOMAIN Append(b, row) /\ Append(b, row)[j] = b[j]
      BY <1>10, <1>12
    <3>4. QED
      BY <3>1, <3>2, <3>3 DEF Scores
  <2>3. QED
    BY <1>9, <2>1, <2>2 DEF SummariesBehind
<1>21. series' = Recorded(rows', q)
  BY <1>9 DEF b
<1>22. QED
  BY <1>13, <1>16, <1>19, <1>20, <1>21 DEF Intact

\* A roll puts the segment that ran behind it, with its summary, and opens an empty one.
LEMMA RollKeeps ==
    ASSUME NEW p, NEW q, NEW at \in Nat, Intact(chain, rows, summaries, index, p),
           p.rows = Len(rows[p.seg]), series = Recorded(rows, p),
           p.seg \in DOMAIN index, index[p.seg].first = p.segStart, index[p.seg].final = at,
           p.seg \in DOMAIN summaries, Scores(summaries[p.seg], series, p.segStart, at),
           at >= Start, at = p.block - Lag, at < p.attempted + Interval,
           p.seg + 1 \notin DOMAIN rows, rows' = Put(rows, p.seg + 1, <<>>),
           UNCHANGED <<chain, summaries, index, series>>,
           q.seg = p.seg + 1, q.segStart = at, q.block = p.block, q.rows = 0,
           q.attempted = p.attempted
    PROVE  Intact(chain', rows', summaries', index', q) /\ series' = Recorded(rows', q)
<1>1. CheckpointShape(p) /\ RowsBehind(chain, rows, p) /\ SegmentsBehind(index, p)
  BY DEF Intact
<1>2. Start \in Nat \ {0} /\ Interval \in Nat \ {0} /\ Lag \in Nat
  BY PeriodAssumption
<1>3. PICK n \in Nat : n = p.seg /\ n + 1 = q.seg
  BY <1>1 DEF CheckpointShape
<1>4. p.segStart \in Nat /\ p.segStart <= at /\ p.block \in Nat /\ p.attempted \in Int
  BY <1>1, <1>2 DEF CheckpointShape
<1> DEFINE b == Recorded(rows, p)
<1>5. b \in Seq(Row) /\ rows[n] \in Seq(Row) /\ n \in DOMAIN rows /\ Earlier(rows, n) \in Seq(Row)
  <2>1. b \in Seq(Row)
    BY <1>1, RecordedIsSeq
  <2>2. n \in 0 .. p.seg
    BY <1>3
  <2>3. QED
    BY <1>1, <1>3, <2>1, <2>2 DEF RowsBehind
<1>6. b = Earlier(rows, n) \o rows[n]
  BY <1>3, <1>5, WholeFile DEF Recorded
<1>7. /\ rows'[n + 1] = <<>> /\ DOMAIN rows' = DOMAIN rows \cup {n + 1}
      /\ \A s \in DOMAIN rows : rows'[s] = rows[s]
  BY <1>3 DEF Put
<1>8. \A s \in 0 .. n : s \in DOMAIN rows /\ rows[s] \in Seq(Row) /\ rows'[s] = rows[s]
  BY <1>1, <1>3, <1>7 DEF RowsBehind
<1>9. Earlier(rows', n + 1) = b
  <2>1. \A s \in 0 .. (n - 1) : rows'[s] = rows[s]
    BY <1>8
  <2>2. Earlier(rows', n) = Earlier(rows, n)
    BY ONLY <2>1, n \in Nat, SameFiles
  <2>3. \A s \in 0 .. n : rows'[s] \in Seq(Row)
    BY <1>8
  <2>4. Earlier(rows', n + 1) = Earlier(rows', n) \o rows'[n]
    BY ONLY <2>3, n \in Nat, EarlierMore
  <2>5. rows'[n] = rows[n]
    BY <1>8
  <2>6. QED
    BY <1>6, <2>2, <2>4, <2>5
<1>10. Recorded(rows', q) = b
  <2>1. Recorded(rows', q) = Earlier(rows', n + 1) \o SubSeq(rows'[n + 1], 1, 0)
    BY <1>3 DEF Recorded
  <2>2. SubSeq(rows'[n + 1], 1, 0) = <<>>
    BY <1>7
  <2>3. b \o <<>> = b
    <3> HIDE DEF b
    <3>1. QED
      BY <1>5
  <2>4. QED
    BY <1>9, <2>1, <2>2, <2>3
<1>11. CheckpointShape(q)
  BY <1>1, <1>2, <1>3, <1>4 DEF CheckpointShape
<1>12. RowsBehind(chain', rows', q)
  <2>1. 0 .. q.seg \subseteq DOMAIN rows' /\ \A s \in 0 .. q.seg : rows'[s] \in Seq(Row)
    <3> SUFFICES ASSUME NEW s \in 0 .. (n + 1) PROVE s \in DOMAIN rows' /\ rows'[s] \in Seq(Row)
      BY <1>3
    <3>1. s \in 0 .. n \/ s = n + 1
      OBVIOUS
    <3>2. <<>> \in Seq(Row)
      OBVIOUS
    <3>3. QED
      BY <1>7, <1>8, <3>1, <3>2
  <2>2. q.rows <= Len(rows'[q.seg]) /\ Earlier(rows', q.seg) \in Seq(Row)
    <3>1. rows'[q.seg] = <<>> /\ Earlier(rows', q.seg) = b
      BY <1>3, <1>7, <1>9
    <3>2. QED
      BY <1>5, <3>1
  <2>3. /\ Ascending(b)
        /\ \A i \in DOMAIN b : /\ OnThis(chain, b[i])
                               /\ Start <= b[i].block /\ b[i].block <= p.attempted
    BY <1>1 DEF RowsBehind
  <2>4. ASSUME NEW s \in 0 .. (q.seg - 1), NEW i \in DOMAIN rows'[s]
        PROVE  OnThis(chain', rows'[s][i]) /\ Start <= rows'[s][i].block /\ rows'[s][i].block <= q.attempted
    <3>1. s \in 0 .. n
      BY <1>3
    <3>2. rows'[s] = rows[s]
      BY <1>8, <3>1
    <3>3. CASE s = n
      <4>1. i \in 1 .. p.rows
        BY <1>3, <1>5, <3>2, <3>3
      <4>2. PICK j : j = Len(Earlier(rows, p.seg)) + i
        OBVIOUS
      <4>3. b[j] = rows[n][i]
        BY <1>1, <1>3, <4>1, <4>2, RecordedIsSeq
      <4>4. j \in DOMAIN b
        <5>1. DOMAIN b = 1 .. Len(b) /\ Len(b) = Len(Earlier(rows, p.seg)) + p.rows
          BY ONLY <1>1, RecordedIsSeq
        <5>2. PICK m \in Nat : m = Len(Earlier(rows, p.seg))
          BY <1>3, <1>5
        <5>3. p.rows \in Nat /\ i \in 1 .. p.rows /\ j = m + i
          BY <1>1, <4>1, <4>2, <5>2 DEF CheckpointShape
        <5>4. j \in 1 .. (m + p.rows)
          BY ONLY <5>2, <5>3
        <5>5. QED
          BY <5>1, <5>2, <5>4
      <4>5. QED
        BY <2>3, <3>2, <3>3, <4>3, <4>4
    <3>4. CASE s # n
      <4>1. s \in 0 .. (p.seg - 1)
        BY <1>3, <3>1, <3>4
      <4>2. i \in DOMAIN rows[s]
        BY <3>2
      <4>3. QED
        BY <1>1, <3>2, <4>1, <4>2 DEF RowsBehind
    <3>5. QED
      BY <3>3, <3>4
  <2>5. QED
    BY <1>10, <2>1, <2>2, <2>3, <2>4 DEF RowsBehind
<1>13. SegmentsBehind(index', q)
  <2>1. \A s \in 0 .. n : s \in 0 .. (p.seg - 1) \/ s = n
    BY <1>3
  <2>2. 0 .. (q.seg - 1) = 0 .. n
    BY <1>3
  <2>3. 0 .. n \subseteq DOMAIN index
    BY <1>1, <1>3, <2>1 DEF SegmentsBehind
  <2>4. ASSUME NEW s \in 0 .. n
        PROVE  /\ index[s].first \in Nat /\ index[s].final \in Nat
               /\ index[s].first <= index[s].final /\ index[s].final <= at
               /\ index[s].final < q.attempted + Interval
               /\ index[s].final = IF s = n THEN at ELSE index[s + 1].first
    <3>1. CASE s = n
      BY <1>3, <1>4, <3>1
    <3>2. CASE s # n
      <4>1. s \in 0 .. (p.seg - 1)
        BY <2>1, <3>2
      <4>2. /\ index[s].first \in Nat /\ index[s].final \in Nat
            /\ index[s].first <= index[s].final /\ index[s].final <= p.segStart
            /\ index[s].final < p.attempted + Interval
            /\ index[s].final = IF s = p.seg - 1 THEN p.segStart ELSE index[s + 1].first
        BY <1>1, <4>1 DEF SegmentsBehind
      <4>3. s = p.seg - 1 => index[s + 1].first = p.segStart
        BY <1>3
      <4>4. QED
        BY <1>4, <3>2, <4>2, <4>3
    <3>3. QED
      BY <3>1, <3>2
  <2>5. ASSUME NEW s \in 0 .. n, NEW t \in 0 .. n, s < t
        PROVE  index[s].final <= index[t].first
    <3>1. s \in 0 .. (p.seg - 1)
      BY <1>3, <2>5
    <3>2. CASE t = n
      BY <1>1, <1>3, <3>1, <3>2 DEF SegmentsBehind
    <3>3. CASE t # n
      <4>1. t \in 0 .. (p.seg - 1)
        BY <2>1, <3>3
      <4>2. QED
        BY <1>1, <2>5, <3>1, <4>1 DEF SegmentsBehind
    <3>4. QED
      BY <3>2, <3>3
  <2>6. Start = index[0].first
    BY <1>1, <1>3 DEF SegmentsBehind
  <2>7. q.seg # 0 /\ q.seg - 1 = n /\ q.segStart = at
    BY <1>3
  <2>8. QED
    BY <2>2, <2>3, <2>4, <2>5, <2>6, <2>7 DEF SegmentsBehind
<1>14. SummariesBehind(rows', summaries', index', q)
  <2>1. SummariesBehind(rows, summaries, index, p)
    BY DEF Intact
  <2>2. \A s \in 0 .. n : s \in DOMAIN summaries /\ Scores(summaries[s], b, index[s].first, index[s].final)
    <3> SUFFICES ASSUME NEW s \in 0 .. n
                 PROVE  s \in DOMAIN summaries /\ Scores(summaries[s], b, index[s].first, index[s].final)
      OBVIOUS
    <3>1. CASE s = n
      BY <1>3, <3>1
    <3>2. CASE s # n
      <4>1. s \in 0 .. (p.seg - 1)
        BY <1>3, <3>2
      <4>2. QED
        BY <2>1, <4>1 DEF SummariesBehind
    <3>3. QED
      BY <3>1, <3>2
  <2>3. 0 .. (q.seg - 1) = 0 .. n
    BY <1>3
  <2>4. QED
    BY <1>10, <2>2, <2>3 DEF SummariesBehind
<1>15. series' = Recorded(rows', q)
  BY <1>10
<1>16. QED
  BY <1>11, <1>12, <1>13, <1>14, <1>15 DEF Intact

\* The closed segments lie next to each other: an interval that ended in one of them ended in one only.
LEMMA OneSummaryEach ==
    ASSUME NEW fs, NEW sums, NEW ix, NEW p, Intact(chain, fs, sums, ix, p),
           NEW pair \in Intervals(Recorded(fs, p)),
           NEW scoredBy, scoredBy = {s \in 0 .. (p.seg - 1) : pair \in Intervals(sums[s])}
    PROVE  Cardinality(scoredBy) = IF pair[2].block <= p.segStart THEN 1 ELSE 0
<1>1. CheckpointShape(p) /\ RowsBehind(chain, fs, p) /\ SegmentsBehind(ix, p)
  BY DEF Intact
<1> DEFINE b == Recorded(fs, p)
<1>2. b \in Seq(Row) /\ DOMAIN b = 1 .. Len(b) /\ \A i \in DOMAIN b : b[i] \in Row
  BY <1>1, RecordedIsSeq
<1>3. /\ Ascending(b) /\ \A i \in DOMAIN b : Start <= b[i].block
      /\ \A s \in 0 .. (p.seg - 1) : Intervals(sums[s]) = Between(b, ix[s].first, ix[s].final)
  BY <1>1 DEF RowsBehind, Intact, SummariesBehind, Scores
<1> HIDE DEF b
<1>4. PICK x \in Nat : x = pair[2].block /\ Start < x
  <2>1. PICK i \in 2 .. Len(b) : pair = <<b[i - 1], b[i]>>
    BY DEF Intervals, b
  <2>2. i \in DOMAIN b /\ i - 1 \in DOMAIN b /\ i - 1 < i
    BY <1>2, <2>1
  <2>3. b[i - 1].block < b[i].block
    BY <1>3, <2>2 DEF Ascending
  <2>4. b[i].block \in Nat /\ b[i - 1].block \in Nat /\ Start <= b[i - 1].block
    BY <1>2, <1>3, <2>2 DEF Row
  <2>5. Start < b[i].block
    BY <2>3, <2>4, PeriodAssumption
  <2>6. QED
    BY <2>1, <2>4, <2>5
<1>5. pair \in Intervals(b)
  BY DEF b
<1>6. \A s \in 0 .. (p.seg - 1) :
        pair \in Intervals(sums[s]) <=> ix[s].first < x /\ x <= ix[s].final
  BY <1>3, <1>4, <1>5 DEF Between
<1>7. p.seg \in Nat /\ p.segStart \in Nat
  BY <1>1 DEF CheckpointShape
<1>8. \A s \in 0 .. (p.seg - 1) : ix[s].first \in Nat /\ ix[s].final \in Nat /\ ix[s].final <= p.segStart
  BY <1>1 DEF SegmentsBehind
<1>9. CASE x <= p.segStart
  <2> DEFINE S == {s \in 0 .. (p.seg - 1) : x <= ix[s].final}
  <2>1. p.seg # 0
    BY <1>1, <1>4, <1>9, PeriodAssumption DEF SegmentsBehind
  <2>2. p.seg - 1 \in S
    <3>1. p.seg - 1 \in 0 .. (p.seg - 1)
      BY <1>7, <2>1
    <3>2. ix[p.seg - 1].final = p.segStart
      BY <1>1, <3>1 DEF SegmentsBehind
    <3>3. QED
      BY <1>9, <3>1, <3>2
  <2>3. PICK s \in S : \A t \in S : s <= t
    <3>1. S \subseteq Nat /\ S # {}
      BY <2>2
    <3> HIDE DEF S
    <3>2. QED
      BY <3>1, LeastNatural
  <2>4. s \in 0 .. (p.seg - 1) /\ x <= ix[s].final
    OBVIOUS
  <2>5. ix[s].first < x
    <3>1. CASE s = 0
      BY <1>1, <1>4, <2>1, <3>1 DEF SegmentsBehind
    <3>2. CASE s # 0
      <4>1. PICK t \in 0 .. (p.seg - 1) : t = s - 1 /\ s = t + 1 /\ t # p.seg - 1
        BY <1>7, <2>4, <3>2
      <4>2. t \notin S
        BY <2>3, <4>1
      <4>3. ix[t].final < x
        BY <1>4, <1>8, <4>2
      <4>4. ix[t].final = ix[s].first
        BY <1>1, <4>1 DEF SegmentsBehind
      <4>5. QED
        BY <4>3, <4>4
    <3>3. QED
      BY <3>1, <3>2
  <2>6. ASSUME NEW t \in scoredBy PROVE t = s
    <3>1. t \in 0 .. (p.seg - 1) /\ ix[t].first < x /\ x <= ix[t].final
      BY <1>6
    <3>2. t < s => ix[t].final <= ix[s].first
      BY <1>1, <2>4, <3>1 DEF SegmentsBehind
    <3>3. s < t => ix[s].final <= ix[t].first
      BY <1>1, <2>4, <3>1 DEF SegmentsBehind
    <3>4. /\ ix[t].first \in Nat /\ ix[t].final \in Nat
          /\ ix[s].first \in Nat /\ ix[s].final \in Nat
      BY <1>8, <2>4, <3>1
    <3>5. ~(t < s) /\ ~(s < t)
      BY <1>4, <2>4, <2>5, <3>1, <3>2, <3>3, <3>4
    <3>6. QED
      BY <2>4, <3>1, <3>5
  <2>7. s \in scoredBy
    BY <1>6, <2>4, <2>5
  <2>8. scoredBy = {s}
    BY <2>6, <2>7
  <2>9. Cardinality(scoredBy) = 1
    BY <2>8, FS_Singleton
  <2>10. QED
    BY <1>4, <1>9, <2>9
<1>10. CASE ~(x <= p.segStart)
  <2>1. scoredBy = {}
    <3> SUFFICES ASSUME NEW t \in scoredBy PROVE FALSE
      OBVIOUS
    <3>1. t \in 0 .. (p.seg - 1) /\ x <= ix[t].final
      BY <1>6
    <3>2. QED
      BY <1>4, <1>7, <1>8, <1>10, <3>1
  <2>2. Cardinality(scoredBy) = 0
    BY <2>1, FS_EmptySet
  <2>3. QED
    BY <1>4, <1>10, <2>2
<1>11. QED
  BY <1>9, <1>10

-----------------------------------------------------------------------------
(* The files, in every state *)

FilesTypeOK ==
    /\ DOMAIN rows \subseteq Nat
    /\ DOMAIN summaries \subseteq DOMAIN rows
    /\ \A s \in DOMAIN rows : rows[s] \in Seq(Row)

\* Whatever checkpoint a start may choose, the files still hold all it has behind it.
CheckpointsIntact ==
    state # NoCheckpoint =>
        /\ \A cp \in Checkpoints : OnChain(cp) => Intact(chain, rows, summaries, index, cp)
        /\ \A cp, later \in Checkpoints :
             OnChain(cp) /\ OnChain(later) /\ cp.block <= later.block => Behind(cp, later)

\* Every checkpoint on the chain was written on the way to p.
AllBehind(p) == state # NoCheckpoint => \A cp \in Checkpoints : OnChain(cp) => Behind(cp, p)

Closing == pc \in {"summarised", "closed"}

\* Where a pass is: its next checkpoint, but for the era of its block.
Present == [block |-> last, attempted |-> attempted, seg |-> seg, segStart |-> segStart,
            rows |-> Len(rows[logdir])]

\* In a pass everything is recorded up to where it is, and the series is what is recorded.
PassFiles ==
    /\ logdir = seg /\ DOMAIN rows = 0 .. seg
    /\ Intact(chain, rows, summaries, index, Present)
    /\ series = Recorded(rows, Present)
    /\ AllBehind(Present)
    /\ DOMAIN summaries = 0 .. (IF Closing THEN seg ELSE seg - 1)
    /\ Closing => /\ RollAt >= Start /\ RollAt < Pending
                  /\ Scores(summaries[seg], series, segStart, RollAt)
    /\ pc = "closed" => /\ seg \in DOMAIN index
                        /\ index[seg].first = segStart /\ index[seg].final = RollAt

\* A start cuts the files back to its checkpoint.
StartFiles ==
    /\ \A cp \in Checkpoints : OnChain(cp) => cp.block <= from.block
    /\ pc \in {"truncate", "drop", "open", "restore"} =>
         DOMAIN rows = 0 .. from.seg /\ DOMAIN summaries = 0 .. (from.seg - 1)
    /\ pc \in {"drop", "open", "restore"} => Len(rows[from.seg]) = from.rows
    /\ pc = "restore" => seg = from.seg /\ segStart = from.segStart /\ logdir = from.seg

FilesInv ==
    /\ FilesTypeOK
    /\ CheckpointsIntact
    /\ pc \in Running => PassFiles
    /\ pc \in Starting => StartFiles
    /\ NeverStuck

LEMMA StaysPut ==
    ASSUME NEW p, Intact(chain, rows, summaries, index, p), UNCHANGED <<chain, rows, summaries, index>>
    PROVE  Stays(p)
<1>1. CheckpointShape(p) /\ RowsBehind(chain, rows, p) /\ SegmentsBehind(index, p)
      /\ SummariesBehind(rows, summaries, index, p)
  BY DEF Intact
<1>2. p.seg \in 0 .. p.seg /\ \A s \in 0 .. (p.seg - 1) : s \in 0 .. p.seg
  BY <1>1 DEF CheckpointShape
<1>3. \A s \in 0 .. (p.seg - 1) : s \in DOMAIN rows /\ s \in DOMAIN summaries /\ s \in DOMAIN index
  BY <1>1, <1>2 DEF RowsBehind, SegmentsBehind, SummariesBehind
<1>4. p.seg \in DOMAIN rows /\ rows[p.seg] \in Seq(Row) /\ p.rows <= Len(rows[p.seg])
  BY <1>1, <1>2 DEF RowsBehind
<1>5. QED
  BY <1>3, <1>4 DEF Stays

LEMMA IntactHolds ==
    ASSUME NEW p, Intact(chain, rows, summaries, index, p), Stays(p)
    PROVE  Intact(chain', rows', summaries', index', p)
<1>1. p.block \in Nat /\ p.attempted \in Int
  BY DEF Intact, CheckpointShape
<1>2. p.block >= p.block /\ p.attempted >= p.attempted
  BY <1>1
<1>3. QED
  BY <1>1, <1>2, IntactStays

\* No checkpoint comes back to the chain, and what is behind those that are on it stays.
CheckpointsLeft ==
    \A cp \in Checkpoints' : OnChain(cp)' => cp \in Checkpoints /\ OnChain(cp) /\ Stays(cp)

LEMMA CheckpointsStay ==
    ASSUME CheckpointsIntact, state' # NoCheckpoint => state # NoCheckpoint /\ CheckpointsLeft
    PROVE  CheckpointsIntact'
<1> SUFFICES ASSUME state' # NoCheckpoint PROVE CheckpointsIntact'
  BY DEF CheckpointsIntact
<1>1. ASSUME NEW cp \in Checkpoints', OnChain(cp)'
      PROVE  Intact(chain', rows', summaries', index', cp)
  <2>1. cp \in Checkpoints /\ OnChain(cp) /\ Stays(cp)
    BY <1>1 DEF CheckpointsLeft
  <2>2. Intact(chain, rows, summaries, index, cp)
    BY <2>1 DEF CheckpointsIntact
  <2>3. QED
    BY <2>1, <2>2, IntactHolds
<1>2. ASSUME NEW cp \in Checkpoints', NEW later \in Checkpoints', OnChain(cp)', OnChain(later)',
             cp.block <= later.block
      PROVE  Behind(cp, later)
  BY <1>2 DEF CheckpointsLeft, CheckpointsIntact
<1>3. QED
  BY <1>1, <1>2 DEF CheckpointsIntact

\* A step that touches no artifact and adds no checkpoint.
LEMMA DiskStays ==
    ASSUME FilesTypeOK, CheckpointsIntact, UNCHANGED <<chain, rows, summaries, index>>,
           Checkpoints' \subseteq Checkpoints, state' # NoCheckpoint => state # NoCheckpoint
    PROVE  FilesTypeOK' /\ CheckpointsIntact'
<1>1. FilesTypeOK'
  BY DEF FilesTypeOK
<1>2. ASSUME state' # NoCheckpoint PROVE CheckpointsLeft
  <2> SUFFICES ASSUME NEW cp \in Checkpoints', OnChain(cp)'
               PROVE  cp \in Checkpoints /\ OnChain(cp) /\ Stays(cp)
    BY DEF CheckpointsLeft
  <2>1. cp \in Checkpoints /\ OnChain(cp)
    BY DEF OnChain, ChainHead
  <2>2. Intact(chain, rows, summaries, index, cp)
    BY <1>2, <2>1 DEF CheckpointsIntact
  <2>3. QED
    BY <2>1, <2>2, StaysPut
<1>3. QED
  BY <1>1, <1>2, CheckpointsStay

\* A step of a pass that only moves on.
LEMMA PassStays ==
    ASSUME PassFiles, UNCHANGED <<chain, rows, summaries, index, last, attempted, series,
                                  seg, segStart, logdir>>,
           Checkpoints' \subseteq Checkpoints, state' # NoCheckpoint => state # NoCheckpoint,
           pc' = pc \/ (pc \notin {"summarised", "closed"} /\ pc' \notin {"summarised", "closed"})
    PROVE  PassFiles'
<1>1. Present' = Present
  BY DEF Present
<1>2. Closing' = Closing /\ (pc' = "closed" => pc = "closed")
  BY DEF Closing
<1>3. Intact(chain', rows', summaries', index', Present') /\ series' = Recorded(rows', Present')
  BY <1>1 DEF PassFiles
<1>4. \A cp \in Checkpoints' : OnChain(cp)' => OnChain(cp) /\ cp \in Checkpoints
  BY DEF OnChain, ChainHead
<1>5. AllBehind(Present)'
  BY <1>1, <1>4 DEF PassFiles, AllBehind
<1>6. RollAt' = RollAt /\ Pending' = Pending
  BY DEF RollAt, Pending
<1>7. QED
  BY <1>2, <1>3, <1>5, <1>6 DEF PassFiles

\* What stays behind p stays behind every checkpoint that p has behind it.
LEMMA StaysBehind ==
    ASSUME NEW p, Intact(chain, rows, summaries, index, p), Stays(p),
           NEW cp, Intact(chain, rows, summaries, index, cp), Behind(cp, p)
    PROVE  UNCHANGED chain => Stays(cp)
<1>1. /\ CheckpointShape(p) /\ CheckpointShape(cp)
      /\ RowsBehind(chain, rows, p) /\ RowsBehind(chain, rows, cp)
  BY DEF Intact
<1>2. /\ p.seg \in Nat /\ p.rows \in Nat /\ cp.seg \in Nat /\ cp.rows \in Nat
      /\ cp.seg < p.seg \/ (cp.seg = p.seg /\ cp.rows <= p.rows)
  BY <1>1 DEF CheckpointShape, Behind
<1>3. \A s \in 0 .. (cp.seg - 1) : s \in 0 .. (p.seg - 1)
  BY <1>2
<1>4. /\ cp.seg \in DOMAIN rows' /\ rows'[cp.seg] \in Seq(Row)
      /\ cp.rows <= Len(rows'[cp.seg])
      /\ \A i \in 1 .. cp.rows : rows'[cp.seg][i] = rows[cp.seg][i]
  <2>1. CASE cp.seg < p.seg
    <3>1. cp.seg \in 0 .. (p.seg - 1) /\ cp.seg \in 0 .. cp.seg
      BY <1>2, <2>1
    <3>2. cp.seg \in DOMAIN rows' /\ rows'[cp.seg] = rows[cp.seg]
      BY <3>1 DEF Stays
    <3>3. rows[cp.seg] \in Seq(Row) /\ cp.rows <= Len(rows[cp.seg])
      BY <1>1, <3>1 DEF RowsBehind
    <3>4. QED
      BY <3>2, <3>3
  <2>2. CASE cp.seg = p.seg /\ cp.rows <= p.rows
    <3>1. /\ p.seg \in DOMAIN rows' /\ rows'[p.seg] \in Seq(Row)
          /\ p.rows <= Len(rows'[p.seg])
          /\ \A i \in 1 .. p.rows : rows'[p.seg][i] = rows[p.seg][i]
      BY DEF Stays
    <3>2. PICK l \in Nat : l = Len(rows'[p.seg])
      BY <3>1
    <3>3. cp.rows <= l
      BY <1>2, <2>2, <3>1, <3>2
    <3>4. \A i \in 1 .. cp.rows : i \in 1 .. p.rows
      BY <1>2, <2>2
    <3>5. QED
      BY <2>2, <3>1, <3>2, <3>3, <3>4
  <2>3. QED
    BY <1>2, <2>1, <2>2
<1>5. QED
  BY <1>3, <1>4 DEF Stays

\* A step on the files that keeps what is behind p, and p has all checkpoints behind it.
LEMMA BehindStay ==
    ASSUME CheckpointsIntact, UNCHANGED <<chain, state, history>>,
           NEW p, Intact(chain, rows, summaries, index, p), Stays(p), AllBehind(p)
    PROVE  CheckpointsIntact'
<1>1. ASSUME state' # NoCheckpoint PROVE state # NoCheckpoint /\ CheckpointsLeft
  <2>1. state # NoCheckpoint /\ Checkpoints' = Checkpoints
    BY <1>1 DEF Checkpoints
  <2>2. ASSUME NEW cp \in Checkpoints', OnChain(cp)' PROVE cp \in Checkpoints /\ OnChain(cp) /\ Stays(cp)
    <3>1. cp \in Checkpoints /\ OnChain(cp)
      BY <2>1, <2>2 DEF OnChain, ChainHead
    <3>2. Intact(chain, rows, summaries, index, cp) /\ Behind(cp, p)
      BY <2>1, <3>1 DEF CheckpointsIntact, AllBehind
    <3>3. QED
      BY <3>1, <3>2, StaysBehind
  <2>3. QED
    BY <2>1, <2>2 DEF CheckpointsLeft
<1>2. QED
  BY <1>1, CheckpointsStay

-----------------------------------------------------------------------------
(* The files, step by step *)

LEMMA PresentIs ==
    /\ Present.block = last /\ Present.attempted = attempted /\ Present.seg = seg
    /\ Present.segStart = segStart /\ Present.rows = Len(rows[logdir])
    /\ Present'.block = last' /\ Present'.attempted = attempted' /\ Present'.seg = seg'
    /\ Present'.segStart = segStart' /\ Present'.rows = Len(rows'[logdir'])
BY DEF Present

LEMMA FilesAtFirst == Init => FilesInv
<1> SUFFICES ASSUME Init PROVE FilesInv
  OBVIOUS
<1>1. /\ chain = [b \in 1 .. (Start - 1) |-> 0] /\ pc = "idle" /\ last = Start - 1
      /\ attempted = NoBoundary /\ series = <<>> /\ seg = 0 /\ segStart = Start /\ logdir = 0
      /\ state = NoCheckpoint /\ rows = [s \in {0} |-> <<>>] /\ summaries = <<>>
  BY DEF Init
<1>2. Start \in Nat \ {0} /\ Interval \in Nat \ {0}
  BY PeriodAssumption
<1>3. rows[0] = <<>> /\ DOMAIN rows = {0} /\ <<>> \in Seq(Row) /\ DOMAIN summaries = {}
      /\ 0 .. 0 = {0} /\ 0 .. (0 - 1) = {}
  BY <1>1
<1>4. /\ Present.block = Start - 1 /\ Present.attempted = NoBoundary /\ Present.seg = 0
      /\ Present.segStart = Start /\ Present.rows = 0
  BY <1>1, <1>3, PresentIs
<1>5. Earlier(rows, 0) = <<>>
  <2>1. [i \in 1 .. 0 |-> rows[i - 1]] = <<>>
    OBVIOUS
  <2>2. QED
    BY <2>1, FlattenNone DEF Earlier
<1>6. Recorded(rows, Present) = <<>>
  BY <1>3, <1>4, <1>5 DEF Recorded
<1>7. CheckpointShape(Present)
  BY <1>2, <1>4 DEF CheckpointShape, NoBoundary
<1>8. RowsBehind(chain, rows, Present)
  <2>1. 0 .. Present.seg = {0} /\ 0 .. (Present.seg - 1) = {}
    BY <1>3, <1>4
  <2>2. Earlier(rows, Present.seg) = <<>> /\ rows[Present.seg] = <<>>
    BY <1>3, <1>4, <1>5
  <2>3. DOMAIN Recorded(rows, Present) = {}
    BY <1>6
  <2>4. /\ \A s \in 0 .. Present.seg : s \in DOMAIN rows /\ rows[s] \in Seq(Row)
        /\ Present.rows <= Len(rows[Present.seg])
    <3>1. Len(<<>>) = 0 /\ 0 <= 0
      OBVIOUS
    <3>2. Present.rows <= Len(rows[Present.seg])
      BY ONLY <1>4, <2>2, <3>1
    <3>3. QED
      BY ONLY <1>3, <2>1, <3>2
  <2>5. Earlier(rows, Present.seg) \in Seq(Row)
    BY <1>3, <2>2
  <2>6. QED
    BY <2>1, <2>3, <2>4, <2>5 DEF RowsBehind, Ascending
<1>9. SegmentsBehind(index, Present) /\ SummariesBehind(rows, summaries, index, Present)
  BY <1>3, <1>4 DEF SegmentsBehind, SummariesBehind
<1>10. Intact(chain, rows, summaries, index, Present)
  BY <1>7, <1>8, <1>9 DEF Intact
<1>11. ~Closing /\ pc # "closed" /\ AllBehind(Present)
  BY <1>1 DEF Closing, AllBehind
<1>12. PassFiles
  <2>1. DOMAIN summaries = 0 .. (IF Closing THEN seg ELSE seg - 1)
    BY <1>1, <1>3, <1>11
  <2>2. series = Recorded(rows, Present) /\ logdir = seg /\ DOMAIN rows = 0 .. seg
    BY <1>1, <1>3, <1>6
  <2>3. QED
    BY <1>10, <1>11, <2>1, <2>2 DEF PassFiles
<1>13. FilesTypeOK
  BY <1>3 DEF FilesTypeOK
<1>14. CheckpointsIntact
  BY <1>1 DEF CheckpointsIntact
<1>15. QED
  BY <1>1, <1>12, <1>13, <1>14 DEF FilesInv, Starting, Running, NeverStuck

\* A step of a pass that touches neither an artifact nor where the pass is.
LEMMA QuietStep ==
    ASSUME FilesInv, pc \in Running, pc' \in Running,
           UNCHANGED <<chain, artifacts, last, scorer, segments>>,
           Checkpoints' \subseteq Checkpoints, state' # NoCheckpoint => state # NoCheckpoint,
           pc' = pc \/ (pc \notin {"summarised", "closed"} /\ pc' \notin {"summarised", "closed"})
    PROVE  FilesInv'
<1>1. UNCHANGED <<chain, rows, summaries, index, last, attempted, series, seg, segStart, logdir>>
  BY DEF artifacts, scorer, segments
<1>2. FilesTypeOK' /\ CheckpointsIntact'
  BY <1>1, DiskStays DEF FilesInv
<1>3. PassFiles'
  BY <1>1, PassStays DEF FilesInv
<1>4. QED
  BY <1>2, <1>3 DEF FilesInv, Running, Starting, NeverStuck

LEMMA StartPassFiles ==
    ASSUME KeptInv, FilesInv, NEW block, StartPass(block)
    PROVE  FilesInv'
<1>1. /\ pc = "idle" /\ pc' = "boundaries" /\ last' = block /\ block \in (last + 1) .. ChainHead
      /\ UNCHANGED <<chain, rows, summaries, index, attempted, series, seg, segStart, logdir,
                     state, history>>
  BY DEF StartPass, node, scorer, segments, disk, artifacts, saved
<1>2. PassFiles /\ FilesTypeOK /\ CheckpointsIntact /\ RunningInv
  BY <1>1 DEF FilesInv, KeptInv, Running
<1>3. FilesTypeOK' /\ CheckpointsIntact'
  BY <1>1, <1>2, DiskStays DEF Checkpoints
<1>4. last \in Nat /\ last' \in Nat /\ last' >= last
  BY <1>1, <1>2 DEF RunningInv
<1>5. Intact(chain, rows, summaries, index, Present)
  BY <1>2 DEF PassFiles
<1>6. attempted \in Int
  BY <1>5, PresentIs DEF Intact, CheckpointShape
<1>7. Stays(Present)
  BY <1>1, <1>5, StaysPut
<1>8. /\ Present'.seg = Present.seg /\ Present'.rows = Present.rows
      /\ Present'.segStart = Present.segStart /\ Present'.attempted = Present.attempted
      /\ Present.block = last /\ Present'.block = last' /\ Present.attempted = attempted
  BY <1>1, PresentIs
<1>9. Intact(chain', rows', summaries', index', Present')
  <2>1. Present'.block >= Present.block /\ Present'.attempted >= Present.attempted
    BY <1>4, <1>6, <1>8
  <2>2. Present'.block \in Nat /\ Present'.attempted \in Int
    BY <1>4, <1>6, <1>8
  <2>3. QED
    BY <1>5, <1>7, <1>8, <2>1, <2>2, IntactStays
<1>10. series' = Recorded(rows', Present')
  BY <1>1, <1>2, <1>8 DEF PassFiles, Recorded
<1>11. AllBehind(Present)'
  <2>1. AllBehind(Present)
    BY <1>2 DEF PassFiles
  <2>2. QED
    BY <1>1, <1>8, <2>1 DEF AllBehind, Checkpoints, OnChain, ChainHead, Behind
<1>12. ~Closing /\ ~Closing' /\ pc' # "closed"
  BY <1>1 DEF Closing
<1>13. PassFiles'
  BY <1>1, <1>2, <1>9, <1>10, <1>11, <1>12 DEF PassFiles
<1>14. QED
  BY <1>1, <1>3, <1>13 DEF FilesInv, Running, Starting, NeverStuck

\* A boundary that is read is a row more, one that is not is left out of both.
LEMMA ReadBoundaryFiles ==
    ASSUME ~DiskFull, KeptInv, FilesInv, ReadBoundary
    PROVE  FilesInv'
<1>1. /\ pc = "boundaries" /\ pc' = pc /\ attempted' = attempted + Interval
      /\ attempted + Interval <= last - Lag
      /\ UNCHANGED <<chain, last, seg, segStart, logdir, state, history, summaries, index>>
  BY DEF ReadBoundary, BoundaryDue, Pending, node, segments, saved
<1>2. PassFiles /\ FilesTypeOK /\ CheckpointsIntact /\ RunningInv /\ StoreTypeOK
  BY <1>1 DEF FilesInv, KeptInv, StoreInv, Running
<1>3. Intact(chain, rows, summaries, index, Present) /\ AllBehind(Present) /\ series = Recorded(rows, Present)
      /\ logdir = seg /\ DOMAIN rows = 0 .. seg
  BY <1>2 DEF PassFiles
<1>4. Start \in Nat \ {0} /\ Interval \in Nat \ {0} /\ Lag \in Nat
  BY PeriodAssumption
<1>5. /\ last \in Nat /\ last <= Len(chain) /\ Len(chain) \in Nat
      /\ attempted \in Int /\ attempted >= Start - Interval /\ seg \in Nat
  <2>1. CheckpointShape(Present)
    BY <1>3 DEF Intact
  <2>2. QED
    BY <1>2, <2>1, PresentIs DEF RunningInv, StoreTypeOK, ChainHead, CheckpointShape, NoBoundary
<1>6. PICK k \in Nat : k = attempted + Interval /\ k \in 1 .. Len(chain)
  BY <1>1, <1>4, <1>5
<1>7. seg \in DOMAIN rows /\ rows[seg] \in Seq(Row)
  BY <1>2, <1>3, <1>5 DEF FilesTypeOK
<1>8. /\ Present.seg = seg /\ Present.rows = Len(rows[seg]) /\ Present.block = last
      /\ Present.segStart = segStart /\ Present.attempted = attempted
      /\ Present'.seg = seg /\ Present'.rows = Len(rows'[seg]) /\ Present'.block = last
      /\ Present'.segStart = segStart /\ Present'.attempted = attempted + Interval
  BY <1>1, <1>3, PresentIs
<1>9. ~Closing /\ ~Closing' /\ pc' # "closed"
  BY <1>1 DEF Closing
<1>10. SUFFICES /\ FilesTypeOK' /\ CheckpointsIntact' /\ DOMAIN rows' = DOMAIN rows
                /\ Intact(chain', rows', summaries', index', Present')
                /\ series' = Recorded(rows', Present')
                /\ Len(rows[seg]) <= Len(rows'[seg])
  <2>1. ASSUME Len(rows[seg]) <= Len(rows'[seg]), rows'[seg] \in Seq(Row)
        PROVE  AllBehind(Present)'
    <3>1. ASSUME NEW cp, CheckpointShape(cp), Behind(cp, Present) PROVE Behind(cp, Present')
      <4>1. PICK m \in Nat, l \in Nat : m = Len(rows[seg]) /\ l = Len(rows'[seg]) /\ m <= l
        BY <1>7, <2>1
      <4>2. QED
        BY <1>8, <3>1, <4>1 DEF Behind, CheckpointShape
    <3>2. \A cp \in Checkpoints : state # NoCheckpoint /\ OnChain(cp) => CheckpointShape(cp)
      BY <1>2 DEF CheckpointsIntact, Intact
    <3>3. QED
      BY <1>1, <1>3, <3>1, <3>2 DEF AllBehind, Checkpoints, OnChain, ChainHead
  <2>2. rows'[seg] \in Seq(Row)
    BY <1>7, <1>10 DEF FilesTypeOK
  <2>3. PassFiles'
    BY <1>1, <1>2, <1>9, <1>10, <2>1, <2>2 DEF PassFiles
  <2>4. QED
    BY <1>1, <1>10, <2>3 DEF FilesInv, Running, Starting, NeverStuck
<1>11. CASE UNCHANGED <<series, rows>>
  <2>1. FilesTypeOK' /\ CheckpointsIntact'
    BY <1>1, <1>2, <1>11, DiskStays DEF Checkpoints
  <2>2. Stays(Present)
    BY <1>1, <1>3, <1>11, StaysPut
  <2>3. Intact(chain', rows', summaries', index', Present')
    <3>1. /\ Present'.seg = Present.seg /\ Present'.rows = Present.rows
          /\ Present'.segStart = Present.segStart /\ Present'.block \in Nat
          /\ Present'.block >= Present.block /\ Present'.attempted \in Int
          /\ Present'.attempted >= Present.attempted
          /\ Present'.attempted <= Present'.block - Lag
      BY <1>1, <1>4, <1>5, <1>8, <1>11
    <3>2. QED
      BY <1>3, <2>2, <3>1, IntactStays
  <2>4. series' = Recorded(rows', Present')
    BY <1>3, <1>8, <1>11 DEF Recorded
  <2>5. Len(rows[seg]) <= Len(rows'[seg])
    BY <1>7, <1>11
  <2>6. QED
    BY <1>11, <2>1, <2>3, <2>4, <2>5
<1>12. CASE /\ series' = Append(series, [block |-> Pending, era |-> chain[Pending]])
            /\ rows' = [rows EXCEPT ![logdir] = Append(@, [block |-> Pending, era |-> chain[Pending]])]
  <2>1. PICK row : row = [block |-> k, era |-> chain[k]]
    OBVIOUS
  <2>2. row \in Row /\ row.block = k /\ OnThis(chain, row)
    <3>1. chain[k] \in Nat /\ k \in DOMAIN chain
      BY <1>2, <1>6 DEF StoreTypeOK
    <3>2. QED
      BY <2>1, <3>1 DEF Row, OnThis
  <2>3. series' = Append(series, row) /\ rows' = [rows EXCEPT ![seg] = Append(@, row)]
    BY <1>3, <1>6, <1>12, <2>1 DEF Pending
  <2>4. DOMAIN rows' = DOMAIN rows /\ rows'[seg] = Append(rows[seg], row)
        /\ \A s \in DOMAIN rows : s # seg => rows'[s] = rows[s]
    BY <1>7, <2>3
  <2>5. /\ rows'[seg] \in Seq(Row) /\ Len(rows'[seg]) = Len(rows[seg]) + 1 /\ Len(rows[seg]) \in Nat
        /\ \A i \in 1 .. Len(rows[seg]) : rows'[seg][i] = rows[seg][i]
    BY <1>7, <2>2, <2>4
  <2>6. FilesTypeOK'
    BY <1>1, <1>2, <2>4, <2>5 DEF FilesTypeOK
  <2>7. Intact(chain', rows', summaries', index', Present') /\ series' = Recorded(rows', Present')
    <3>1. /\ Present.rows = Len(rows[Present.seg]) /\ series = Recorded(rows, Present)
          /\ row.block = Present.attempted + Interval
          /\ rows' = [rows EXCEPT ![Present.seg] = Append(@, row)]
          /\ Present'.seg = Present.seg /\ Present'.segStart = Present.segStart
          /\ Present'.block = Present.block /\ Present'.rows = Present.rows + 1
          /\ Present'.attempted = Present.attempted + Interval
          /\ Present'.attempted <= Present'.block - Lag
      BY <1>1, <1>3, <1>6, <1>8, <2>2, <2>3, <2>5
    <3>2. UNCHANGED <<chain, summaries, index>>
      BY <1>1
    <3>3. QED
      BY ONLY <1>3, <2>2, <2>3, <3>1, <3>2, ReadKeeps
  <2>8. Stays(Present)
    <3>1. ASSUME NEW s \in 0 .. (seg - 1)
          PROVE  /\ s \in DOMAIN rows' /\ rows'[s] = rows[s]
                 /\ s \in DOMAIN summaries' /\ s \in DOMAIN index'
      <4>1. s \in 0 .. seg /\ s # seg
        BY <1>5
      <4>2. s \in DOMAIN summaries /\ s \in DOMAIN index
        BY <1>3, <1>8 DEF Intact, SegmentsBehind, SummariesBehind
      <4>3. QED
        BY <1>1, <1>3, <2>4, <4>1, <4>2
    <3>2. Len(rows[seg]) <= Len(rows'[seg])
      BY <2>5
    <3>3. QED
      BY <1>1, <1>7, <1>8, <2>4, <2>5, <3>1, <3>2 DEF Stays
  <2>9. CheckpointsIntact'
    BY <1>1, <1>2, <1>3, <2>8, BehindStay
  <2>10. Len(rows[seg]) <= Len(rows'[seg])
    BY <2>5
  <2>11. QED
    BY <2>4, <2>6, <2>7, <2>9, <2>10
<1>13. QED
  BY <1>11, <1>12 DEF ReadBoundary

\* closeSegment() scores the intervals of the series that end in the segment.
LEMMA SummariseFiles ==
    ASSUME KeptInv, FilesInv, Summarise
    PROVE  FilesInv'
<1>1. /\ pc = "boundaries" /\ pc' = "summarised" /\ RollAt >= Start /\ ~(Pending <= RollAt)
      /\ summaries' = Put(summaries, logdir, IF Len(series) < 2 THEN <<>> ELSE Slice(segStart, RollAt))
      /\ UNCHANGED <<chain, last, attempted, series, seg, segStart, logdir, state, history, rows, index>>
  BY DEF Summarise, BoundaryDue, RollAt, node, memory, scorer, segments, saved
<1>2. PassFiles /\ FilesTypeOK /\ CheckpointsIntact /\ RunningInv
  BY <1>1 DEF FilesInv, KeptInv, Running
<1>3. Intact(chain, rows, summaries, index, Present) /\ AllBehind(Present) /\ series = Recorded(rows, Present)
      /\ logdir = seg /\ DOMAIN rows = 0 .. seg
  BY <1>2 DEF PassFiles
<1>4. CheckpointShape(Present) /\ RowsBehind(chain, rows, Present)
  BY <1>3 DEF Intact
<1>5. seg \in Nat /\ segStart \in Nat /\ last \in Nat /\ attempted \in Int
  BY <1>4, PresentIs DEF CheckpointShape
<1>6. RollAt \in Nat /\ Pending \in Int /\ RollAt < Pending
  BY <1>1, <1>5, PeriodAssumption DEF RollAt, Pending
<1>7. series \in Seq(Row) /\ Ascending(series)
  BY <1>3, <1>4, RecordedIsSeq DEF RowsBehind
<1> DEFINE sum == IF Len(series) < 2 THEN <<>> ELSE Slice(segStart, RollAt)
<1>8. Scores(sum, series, segStart, RollAt)
  <2>1. CASE Len(series) < 2
    <3>1. 2 .. Len(series) = {}
      BY <1>7, <2>1
    <3>2. Between(series, segStart, RollAt) = {}
      BY <3>1 DEF Between, Intervals
    <3>3. QED
      BY <2>1, <3>2, EmptyScores
  <2>2. CASE ~(Len(series) < 2)
    BY <1>5, <1>6, <1>7, <2>2, SliceScores
  <2>3. QED
    BY <2>1, <2>2
<1> HIDE DEF sum
<1>9. /\ summaries'[seg] = sum /\ DOMAIN summaries' = DOMAIN summaries \cup {seg}
      /\ \A s \in DOMAIN summaries : s # seg => summaries'[s] = summaries[s]
  BY <1>1, <1>3 DEF Put, sum
<1>10. DOMAIN summaries' = 0 .. seg
  <2>1. DOMAIN summaries = 0 .. (seg - 1)
    BY <1>1, <1>2 DEF PassFiles, Closing
  <2>2. QED
    BY <1>5, <1>9, <2>1
<1>11. FilesTypeOK'
  BY <1>1, <1>2, <1>3, <1>10 DEF FilesTypeOK
<1>12. Stays(Present)
  <2>1. ASSUME NEW s \in 0 .. (seg - 1)
        PROVE  /\ s \in DOMAIN rows /\ s \in DOMAIN index
               /\ s \in DOMAIN summaries' /\ summaries'[s] = summaries[s]
    <3>1. s \in DOMAIN index /\ s \in DOMAIN summaries
      BY <1>3, PresentIs DEF Intact, SegmentsBehind, SummariesBehind
    <3>2. s \in 0 .. seg /\ s # seg
      BY <1>5
    <3>3. QED
      BY <1>3, <1>9, <3>1, <3>2
  <2>2. /\ seg \in DOMAIN rows /\ rows[seg] \in Seq(Row)
        /\ Present.rows <= Len(rows[seg]) /\ Present.seg = seg
    <3>1. Present.seg \in 0 .. Present.seg
      BY <1>4 DEF CheckpointShape
    <3>2. QED
      BY <1>4, <3>1, PresentIs DEF RowsBehind
  <2>3. QED
    BY <1>1, <2>1, <2>2 DEF Stays
<1>13. CheckpointsIntact'
  BY <1>1, <1>2, <1>3, <1>12, BehindStay
<1>14. Present' = Present
  BY <1>1 DEF Present
<1>15. Intact(chain', rows', summaries', index', Present')
  BY <1>3, <1>12, <1>14, IntactHolds
<1>16. AllBehind(Present)' /\ series' = Recorded(rows', Present')
  BY <1>1, <1>3, <1>14 DEF AllBehind, Checkpoints, OnChain, ChainHead
<1>17. Closing' /\ pc' # "closed" /\ RollAt' = RollAt /\ Pending' = Pending
  BY <1>1 DEF Closing, RollAt, Pending
<1>18. PassFiles'
  BY <1>1, <1>3, <1>6, <1>8, <1>9, <1>10, <1>15, <1>16, <1>17 DEF PassFiles
<1>19. QED
  BY <1>1, <1>11, <1>13, <1>18 DEF FilesInv, Running, Starting, NeverStuck

\* The index entry of the segment that closes, or opens: those before it stay.
LEMMA IndexStays ==
    ASSUME FilesInv, PassFiles,
           UNCHANGED <<chain, last, attempted, series, seg, segStart, logdir, state, history, rows,
                       summaries>>,
           \A s \in DOMAIN index : s # seg => s \in DOMAIN index' /\ index'[s] = index[s]
    PROVE  /\ FilesTypeOK' /\ CheckpointsIntact' /\ Present' = Present
           /\ Intact(chain', rows', summaries', index', Present')
           /\ AllBehind(Present)' /\ series' = Recorded(rows', Present')
           /\ logdir' = seg' /\ DOMAIN rows' = 0 .. seg'
<1>1. Intact(chain, rows, summaries, index, Present) /\ AllBehind(Present) /\ series = Recorded(rows, Present)
      /\ logdir = seg /\ DOMAIN rows = 0 .. seg
  BY DEF PassFiles
<1>2. CheckpointShape(Present) /\ RowsBehind(chain, rows, Present)
  BY <1>1 DEF Intact
<1>3. seg \in Nat
  BY <1>2, PresentIs DEF CheckpointShape
<1>4. Stays(Present)
  <2>1. ASSUME NEW s \in 0 .. (seg - 1)
        PROVE  /\ s \in DOMAIN rows /\ s \in DOMAIN summaries
               /\ s \in DOMAIN index' /\ index'[s] = index[s]
    <3>1. s \in DOMAIN index /\ s \in DOMAIN summaries
      BY <1>1, PresentIs DEF Intact, SegmentsBehind, SummariesBehind
    <3>2. s \in 0 .. seg /\ s # seg
      BY <1>3
    <3>3. QED
      BY <1>1, <3>1, <3>2
  <2>2. /\ seg \in DOMAIN rows /\ rows[seg] \in Seq(Row)
        /\ Present.rows <= Len(rows[seg]) /\ Present.seg = seg
    <3>1. Present.seg \in 0 .. Present.seg
      BY <1>2 DEF CheckpointShape
    <3>2. QED
      BY <1>2, <3>1, PresentIs DEF RowsBehind
  <2>3. QED
    BY <2>1, <2>2 DEF Stays
<1>5. CheckpointsIntact'
  BY <1>1, <1>4, BehindStay DEF FilesInv
<1>6. Present' = Present
  BY DEF Present
<1>7. Intact(chain', rows', summaries', index', Present')
  BY <1>1, <1>4, <1>6, IntactHolds
<1>8. AllBehind(Present)' /\ series' = Recorded(rows', Present')
  BY <1>1, <1>6 DEF AllBehind, Checkpoints, OnChain, ChainHead
<1>9. FilesTypeOK'
  BY DEF FilesInv, FilesTypeOK
<1>10. QED
  BY <1>1, <1>5, <1>6, <1>7, <1>8, <1>9

LEMMA CloseIndexEntryFiles ==
    ASSUME FilesInv, CloseIndexEntry
    PROVE  FilesInv'
<1>1. /\ pc = "summarised" /\ pc' = "closed"
      /\ index' = Put(index, seg, [first |-> segStart, final |-> RollAt, open |-> FALSE])
      /\ UNCHANGED <<chain, last, attempted, series, seg, segStart, logdir, state, history, rows,
                     summaries>>
  BY DEF CloseIndexEntry, node, memory, scorer, segments, saved
<1>2. PassFiles
  BY <1>1 DEF FilesInv, Running
<1>3. /\ \A s \in DOMAIN index : s # seg => s \in DOMAIN index' /\ index'[s] = index[s]
      /\ seg \in DOMAIN index' /\ index'[seg].first = segStart /\ index'[seg].final = RollAt
  BY <1>1 DEF Put
<1>4. /\ FilesTypeOK' /\ CheckpointsIntact'
      /\ Intact(chain', rows', summaries', index', Present')
      /\ AllBehind(Present)' /\ series' = Recorded(rows', Present')
      /\ logdir' = seg' /\ DOMAIN rows' = 0 .. seg'
  BY <1>1, <1>2, <1>3, IndexStays
<1>5. Closing /\ Closing' /\ RollAt' = RollAt /\ Pending' = Pending
  BY <1>1 DEF Closing, RollAt, Pending
<1>6. PassFiles'
  BY <1>1, <1>2, <1>3, <1>4, <1>5 DEF PassFiles
<1>7. QED
  BY <1>1, <1>4, <1>6 DEF FilesInv, Running, Starting, NeverStuck

LEMMA WriteIndexFiles ==
    ASSUME FilesInv, WriteIndex
    PROVE  FilesInv'
<1>1. /\ pc = "opened" /\ pc' = "checkpoint"
      /\ index' = PutNew(index, seg, [first |-> segStart, final |-> segStart, open |-> TRUE])
      /\ UNCHANGED <<chain, last, attempted, series, seg, segStart, logdir, state, history, rows,
                     summaries>>
  BY DEF WriteIndex, node, memory, scorer, segments, saved
<1>2. PassFiles
  BY <1>1 DEF FilesInv, Running
<1>3. \A s \in DOMAIN index : s # seg => s \in DOMAIN index' /\ index'[s] = index[s]
  BY <1>1 DEF Put, PutNew
<1>4. /\ FilesTypeOK' /\ CheckpointsIntact'
      /\ Intact(chain', rows', summaries', index', Present')
      /\ AllBehind(Present)' /\ series' = Recorded(rows', Present')
      /\ logdir' = seg' /\ DOMAIN rows' = 0 .. seg'
  BY <1>1, <1>2, <1>3, IndexStays
<1>5. ~Closing /\ ~Closing' /\ pc' # "closed"
  BY <1>1 DEF Closing
<1>6. PassFiles'
  BY <1>1, <1>2, <1>4, <1>5 DEF PassFiles
<1>7. QED
  BY <1>1, <1>4, <1>6 DEF FilesInv, Running, Starting, NeverStuck

LEMMA OpenSegmentFiles ==
    ASSUME KeptInv, FilesInv, OpenSegment, ~DiskFull
    PROVE  FilesInv'
<1>1. /\ pc = "closed" /\ pc' = "opened" /\ seg' = seg + 1 /\ segStart' = RollAt
      /\ rows' = PutNew(rows, seg + 1, <<>>) /\ logdir' = seg + 1
      /\ UNCHANGED <<chain, last, attempted, series, state, history, summaries, index>>
  BY DEF OpenSegment, Outcomes, node, scorer, saved
<1>2. PassFiles /\ FilesTypeOK /\ CheckpointsIntact
  BY <1>1 DEF FilesInv, Running
<1>3. /\ Intact(chain, rows, summaries, index, Present) /\ AllBehind(Present)
      /\ series = Recorded(rows, Present) /\ logdir = seg /\ DOMAIN rows = 0 .. seg
      /\ DOMAIN summaries = 0 .. seg /\ RollAt >= Start /\ RollAt < attempted + Interval
      /\ Scores(summaries[seg], series, segStart, RollAt)
      /\ seg \in DOMAIN index /\ index[seg].first = segStart /\ index[seg].final = RollAt
  BY <1>1, <1>2 DEF PassFiles, Closing, Pending
<1>4. CheckpointShape(Present) /\ RowsBehind(chain, rows, Present)
  BY <1>3 DEF Intact
<1>5. seg \in Nat /\ last \in Nat /\ attempted \in Int
  BY <1>4, PresentIs DEF CheckpointShape
<1>6. RollAt \in Nat
  BY <1>3, <1>5, PeriodAssumption DEF RollAt
<1>7. seg + 1 \notin DOMAIN rows /\ rows' = Put(rows, seg + 1, <<>>)
  BY <1>1, <1>3, <1>5 DEF PutNew
<1>8. /\ DOMAIN rows' = DOMAIN rows \cup {seg + 1} /\ rows'[seg + 1] = <<>>
      /\ \A s \in DOMAIN rows : rows'[s] = rows[s]
  BY <1>7 DEF Put
<1>9. DOMAIN rows' = 0 .. (seg + 1)
  BY <1>3, <1>5, <1>8
<1>10. FilesTypeOK'
  <2>1. <<>> \in Seq(Row)
    OBVIOUS
  <2>2. \A s \in DOMAIN rows' : rows'[s] \in Seq(Row)
    BY <1>2, <1>8, <2>1 DEF FilesTypeOK
  <2>3. DOMAIN rows' \subseteq Nat /\ DOMAIN summaries' \subseteq DOMAIN rows'
    BY <1>1, <1>2, <1>5, <1>8 DEF FilesTypeOK
  <2>4. QED
    BY <2>2, <2>3 DEF FilesTypeOK
<1>11. /\ Present.seg = seg /\ Present.segStart = segStart /\ Present.block = last
       /\ Present.attempted = attempted /\ Present.rows = Len(rows[seg])
       /\ Present'.seg = seg + 1 /\ Present'.segStart = RollAt /\ Present'.block = last
       /\ Present'.attempted = attempted /\ Present'.rows = 0
  <2>1. Present'.rows = Len(rows'[seg + 1])
    BY <1>1, PresentIs
  <2>2. Len(<<>>) = 0
    OBVIOUS
  <2>3. Present'.rows = 0
    BY ONLY <1>8, <2>1, <2>2
  <2>4. QED
    BY <1>1, <1>3, <2>3, PresentIs
<1>12. Intact(chain', rows', summaries', index', Present') /\ series' = Recorded(rows', Present')
  <2>1. /\ Present.rows = Len(rows[Present.seg]) /\ Present.seg \in DOMAIN index
        /\ index[Present.seg].first = Present.segStart /\ index[Present.seg].final = RollAt
        /\ Present.seg \in DOMAIN summaries
        /\ Scores(summaries[Present.seg], series, Present.segStart, RollAt)
        /\ RollAt >= Start /\ RollAt = Present.block - Lag /\ RollAt < Present.attempted + Interval
        /\ Present.seg + 1 \notin DOMAIN rows /\ rows' = Put(rows, Present.seg + 1, <<>>)
    BY <1>3, <1>5, <1>7, <1>11 DEF RollAt
  <2>2. /\ Present'.seg = Present.seg + 1 /\ Present'.segStart = RollAt
        /\ Present'.block = Present.block /\ Present'.rows = 0
        /\ Present'.attempted = Present.attempted
    BY <1>11
  <2>3. UNCHANGED <<chain, summaries, index, series>>
    BY <1>1
  <2>4. QED
    BY ONLY <1>3, <1>6, <2>1, <2>2, <2>3, RollKeeps
<1>13. Stays(Present)
  <2>1. ASSUME NEW s \in 0 .. (seg - 1)
        PROVE  /\ s \in DOMAIN rows' /\ rows'[s] = rows[s]
               /\ s \in DOMAIN index /\ s \in DOMAIN summaries
    <3>1. s \in DOMAIN index
      BY <1>3, <1>11 DEF Intact, SegmentsBehind
    <3>2. s \in 0 .. seg
      BY <1>5
    <3>3. QED
      BY <1>3, <1>8, <3>1, <3>2
  <2>2. /\ seg \in DOMAIN rows' /\ rows'[seg] = rows[seg] /\ rows[seg] \in Seq(Row)
        /\ Present.rows <= Len(rows[seg])
    <3>1. seg \in 0 .. seg
      BY <1>5
    <3>2. QED
      BY <1>3, <1>4, <1>8, <1>11, <3>1 DEF RowsBehind
  <2>3. QED
    BY <1>1, <1>11, <2>1, <2>2 DEF Stays
<1>14. CheckpointsIntact'
  BY <1>1, <1>2, <1>3, <1>13, BehindStay
<1>15. AllBehind(Present)'
  <2>1. ASSUME NEW cp, CheckpointShape(cp), Behind(cp, Present) PROVE Behind(cp, Present')
    <3>1. PICK n \in Nat : n = cp.seg
      BY <2>1 DEF CheckpointShape
    <3>2. n < seg + 1
      BY <1>5, <1>11, <2>1, <3>1 DEF Behind
    <3>3. QED
      BY <1>11, <3>1, <3>2 DEF Behind
  <2>2. \A cp \in Checkpoints : state # NoCheckpoint /\ OnChain(cp) => CheckpointShape(cp)
    BY <1>2 DEF CheckpointsIntact, Intact
  <2>3. QED
    BY <1>1, <1>3, <2>1, <2>2 DEF AllBehind, Checkpoints, OnChain, ChainHead
<1>16. ~Closing' /\ pc' # "closed"
  BY <1>1 DEF Closing
<1>17. DOMAIN summaries' = 0 .. (seg' - 1)
  <2>1. seg' - 1 = seg
    BY <1>1, <1>5
  <2>2. QED
    BY <1>1, <1>3, <2>1
<1>18. PassFiles'
  BY <1>1, <1>9, <1>12, <1>15, <1>16, <1>17 DEF PassFiles
<1>19. QED
  BY <1>1, <1>10, <1>14, <1>18 DEF FilesInv, Running, Starting, NeverStuck

LEMMA WriteStateFiles ==
    ASSUME KeptInv, FilesInv, WriteState
    PROVE  FilesInv'
<1>1. /\ pc = "checkpoint" /\ pc' \in {"history", "idle"} /\ state' = Checkpoint
      /\ UNCHANGED <<chain, last, attempted, series, seg, segStart, logdir, history, rows, summaries,
                     index>>
  BY DEF WriteState, node, memory, scorer, segments, artifacts
<1>2. PassFiles /\ FilesTypeOK /\ CheckpointsIntact /\ RunningInv /\ StateIsNewest /\ StoreTypeOK
  BY <1>1 DEF FilesInv, KeptInv, StoreInv, Running
<1>3. /\ Intact(chain, rows, summaries, index, Present) /\ AllBehind(Present)
      /\ series = Recorded(rows, Present) /\ logdir = seg
  BY <1>2 DEF PassFiles
<1>4. /\ Checkpoint.block = Present.block /\ Checkpoint.attempted = Present.attempted
      /\ Checkpoint.seg = Present.seg /\ Checkpoint.segStart = Present.segStart
      /\ Checkpoint.rows = Present.rows /\ Checkpoint.block = last
  BY DEF Checkpoint, Present
<1>5. CheckpointShape(Present)
  BY <1>3 DEF Intact
<1>6. Stays(Present)
  BY <1>1, <1>3, StaysPut
<1>7. Intact(chain, rows, summaries, index, Checkpoint)
  <2>1. /\ Checkpoint.block \in Nat /\ Checkpoint.block >= Present.block
        /\ Checkpoint.attempted \in Int /\ Checkpoint.attempted >= Present.attempted
    BY <1>4, <1>5 DEF CheckpointShape
  <2>2. Intact(chain', rows', summaries', index', Checkpoint)
    BY <1>3, <1>4, <1>6, <2>1, IntactStays
  <2>3. QED
    BY <1>1, <2>2
<1>8. ASSUME NEW cp \in history
      PROVE  /\ state # NoCheckpoint /\ OnChain(cp) /\ cp.block \in Nat /\ cp.block < last
             /\ cp \in Checkpoints /\ Behind(cp, Checkpoint)
  <2>1. state # NoCheckpoint
    <3> SUFFICES ASSUME state = NoCheckpoint PROVE FALSE
      OBVIOUS
    <3>1. state.block = 0
      BY DEF NoCheckpoint
    <3>2. cp.block >= Start /\ (cp.block < state.block \/ cp = state)
      BY <1>2 DEF StateIsNewest
    <3>3. QED
      BY <3>1, <3>2, PeriodAssumption, <1>2 DEF StoreTypeOK, Checkpoints
  <2>2. OnChain(cp) /\ cp.block \in Nat /\ cp.block <= lastHistory /\ lastHistory < last
    BY <1>1, <1>2 DEF RunningInv, StoreTypeOK, Checkpoints, InPass
  <2>3. cp.block < last
    BY <1>2, <2>2 DEF RunningInv
  <2>4. cp \in Checkpoints
    BY DEF Checkpoints
  <2>5. Behind(cp, Present)
    BY <1>3, <2>1, <2>2, <2>4 DEF AllBehind
  <2>6. QED
    BY <1>4, <2>1, <2>2, <2>3, <2>4, <2>5 DEF Behind
<1>9. Checkpoints' = history \cup {Checkpoint}
  BY <1>1 DEF Checkpoints
<1>10. Behind(Checkpoint, Checkpoint)
  BY <1>4, <1>5 DEF Behind, CheckpointShape
<1>11. last \in Nat
  BY <1>2 DEF RunningInv
<1>12. CheckpointsIntact'
  <2>1. ASSUME NEW cp \in Checkpoints' PROVE Intact(chain', rows', summaries', index', cp)
    <3>1. CASE cp \in history
      <4>1. Intact(chain, rows, summaries, index, cp)
        BY <1>2, <1>8, <3>1 DEF CheckpointsIntact
      <4>2. QED
        BY <1>1, <4>1
    <3>2. CASE cp = Checkpoint
      BY <1>1, <1>7, <3>2
    <3>3. QED
      BY <1>9, <3>1, <3>2
  <2>2. ASSUME NEW cp \in Checkpoints', NEW later \in Checkpoints', cp.block <= later.block
        PROVE  Behind(cp, later)
    <3>1. CASE later = Checkpoint
      BY <1>8, <1>9, <1>10, <3>1
    <3>2. CASE later \in history /\ cp = Checkpoint
      BY <1>4, <1>8, <1>11, <2>2, <3>2
    <3>3. CASE later \in history /\ cp \in history
      BY <1>2, <1>8, <2>2, <3>3 DEF CheckpointsIntact
    <3>4. QED
      BY <1>9, <3>1, <3>2, <3>3
  <2>3. QED
    BY <2>1, <2>2 DEF CheckpointsIntact
<1>13. FilesTypeOK'
  BY <1>1, <1>2 DEF FilesTypeOK
<1>14. Present' = Present
  BY <1>1 DEF Present
<1>15. AllBehind(Present)'
  <2>1. \A cp \in Checkpoints' : Behind(cp, Present)
    BY <1>4, <1>8, <1>9, <1>10 DEF Behind
  <2>2. QED
    BY <1>14, <2>1 DEF AllBehind
<1>16. ~Closing /\ ~Closing' /\ pc' # "closed"
  BY <1>1 DEF Closing
<1>17. PassFiles'
  BY <1>1, <1>2, <1>14, <1>15, <1>16 DEF PassFiles
<1>18. QED
  BY <1>1, <1>12, <1>13, <1>17 DEF FilesInv, Running, Starting, NeverStuck

\* A checkpoint that is on the chain after the node mined was on it before.
LEMMA MineStays ==
    ASSUME KeptInv, Mine, state # NoCheckpoint,
           NEW cp \in Checkpoints, OnChain(cp)'
    PROVE  OnChain(cp)
<1>1. /\ chain' = Append(chain, era) /\ StoreTypeOK /\ StateIsNewest /\ DeadIsNewest
  BY DEF Mine, KeptInv, StoreInv
<1>2. /\ Len(chain) \in Nat /\ Len(chain') = Len(chain) + 1 /\ chain'[Len(chain) + 1] = era
      /\ \A b \in 1 .. Len(chain) : chain'[b] = chain[b]
  BY <1>1 DEF StoreTypeOK
<1>3. cp.block \in Nat \ {0} /\ cp.block <= Len(chain) + 1 /\ chain'[cp.block] = cp.era
  BY <1>1, <1>2, PeriodAssumption DEF StateIsNewest, Checkpoints, StoreTypeOK, OnChain, ChainHead
<1>4. cp.block # Len(chain) + 1
  <2> SUFFICES ASSUME cp.block = Len(chain) + 1 PROVE FALSE
    OBVIOUS
  <2>1. cp.block > ChainHead
    BY <1>2 DEF ChainHead
  <2>2. cp.era < era /\ cp.era = era /\ era \in Nat
    BY <1>1, <1>2, <1>3, <2>1 DEF DeadIsNewest, StoreTypeOK
  <2>3. QED
    BY <2>2
<1>5. QED
  BY <1>2, <1>3, <1>4 DEF OnChain, ChainHead

LEMMA MineFiles ==
    ASSUME KeptInv, FilesInv, Mine
    PROVE  FilesInv'
<1>1. /\ pc \in {"idle", "down"} /\ pc' = pc /\ chain' = Append(chain, era)
      /\ UNCHANGED <<last, attempted, series, seg, segStart, logdir, from, state, history, rows,
                     summaries, index>>
  BY DEF Mine, memory, scorer, segments, disk, artifacts, saved
<1>2. FilesTypeOK /\ CheckpointsIntact /\ StoreTypeOK
  BY DEF FilesInv, KeptInv, StoreInv
<1>3. \A b \in DOMAIN chain : b \in DOMAIN chain' /\ chain'[b] = chain[b]
  BY <1>1, <1>2 DEF StoreTypeOK
<1>4. ASSUME NEW p, Intact(chain, rows, summaries, index, p) PROVE Stays(p)
  <2>1. CheckpointShape(p) /\ RowsBehind(chain, rows, p) /\ SegmentsBehind(index, p)
        /\ SummariesBehind(rows, summaries, index, p)
    BY <1>4 DEF Intact
  <2>2. p.seg \in 0 .. p.seg /\ \A s \in 0 .. (p.seg - 1) : s \in 0 .. p.seg
    BY <2>1 DEF CheckpointShape
  <2>3. \A s \in 0 .. (p.seg - 1) : s \in DOMAIN rows /\ s \in DOMAIN summaries /\ s \in DOMAIN index
    BY <2>1, <2>2 DEF RowsBehind, SegmentsBehind, SummariesBehind
  <2>4. p.seg \in DOMAIN rows /\ rows[p.seg] \in Seq(Row) /\ p.rows <= Len(rows[p.seg])
    BY <2>1, <2>2 DEF RowsBehind
  <2>5. QED
    BY <1>1, <1>3, <2>3, <2>4 DEF Stays
<1>5. Checkpoints' = Checkpoints
  BY <1>1 DEF Checkpoints
<1>6. CheckpointsIntact'
  <2>1. ASSUME state' # NoCheckpoint PROVE state # NoCheckpoint /\ CheckpointsLeft
    <3>1. state # NoCheckpoint
      BY <1>1, <2>1
    <3>2. ASSUME NEW cp \in Checkpoints', OnChain(cp)' PROVE cp \in Checkpoints /\ OnChain(cp) /\ Stays(cp)
      <4>1. cp \in Checkpoints /\ OnChain(cp)
        BY <1>5, <3>1, <3>2, MineStays
      <4>2. Intact(chain, rows, summaries, index, cp)
        BY <1>2, <3>1, <4>1 DEF CheckpointsIntact
      <4>3. QED
        BY <1>4, <4>1, <4>2
    <3>3. QED
      BY <3>1, <3>2 DEF CheckpointsLeft
  <2>2. QED
    BY <1>2, <2>1, CheckpointsStay
<1>7. FilesTypeOK'
  BY <1>1, <1>2 DEF FilesTypeOK
<1>8. ASSUME pc = "idle" PROVE PassFiles'
  <2>1. PassFiles
    BY <1>8 DEF FilesInv, Running
  <2>2. Present' = Present
    BY <1>1 DEF Present
  <2>3. Intact(chain', rows', summaries', index', Present')
    <3>1. Intact(chain, rows, summaries, index, Present)
      BY <2>1 DEF PassFiles
    <3>2. QED
      BY <1>4, <2>2, <3>1, IntactHolds
  <2>4. AllBehind(Present)'
    <3>1. AllBehind(Present)
      BY <2>1 DEF PassFiles
    <3>2. ASSUME NEW cp \in Checkpoints, state # NoCheckpoint, OnChain(cp)' PROVE Behind(cp, Present')
      BY <2>2, <3>1, <3>2, MineStays DEF AllBehind
    <3>3. QED
      BY <1>1, <1>5, <3>2 DEF AllBehind
  <2>5. ~Closing /\ ~Closing' /\ pc' # "closed"
    BY <1>1, <1>8 DEF Closing
  <2>6. QED
    BY <1>1, <2>1, <2>2, <2>3, <2>4, <2>5 DEF PassFiles
<1>9. QED
  BY <1>1, <1>6, <1>7, <1>8 DEF FilesInv, Running, Starting, NeverStuck

LEMMA RewindFiles ==
    ASSUME KeptInv, FilesInv, Rewind
    PROVE  FilesInv'
<1>1. /\ pc = "down" /\ pc' = pc /\ chain' = SubSeq(chain, 1, dumped)
      /\ UNCHANGED <<state, history, rows, summaries, index>>
  BY DEF Rewind, disk, artifacts, saved
<1>2. FilesTypeOK /\ CheckpointsIntact /\ StoreTypeOK /\ StateIsNewest
  BY DEF FilesInv, KeptInv, StoreInv
<1>3. PICK n \in Nat, d \in Nat : n = Len(chain) /\ d = dumped /\ d <= n
  BY <1>2 DEF StoreTypeOK, ChainHead
<1>4. /\ Len(chain') = d /\ DOMAIN chain' = 1 .. d /\ DOMAIN chain = 1 .. n
      /\ \A b \in 1 .. d : chain'[b] = chain[b]
  BY <1>1, <1>2, <1>3 DEF StoreTypeOK
<1>5. ASSUME state' # NoCheckpoint PROVE state # NoCheckpoint /\ CheckpointsLeft
  <2>1. state # NoCheckpoint /\ Checkpoints' = Checkpoints
    BY <1>1, <1>5 DEF Checkpoints
  <2>2. ASSUME NEW cp \in Checkpoints', OnChain(cp)' PROVE cp \in Checkpoints /\ OnChain(cp) /\ Stays(cp)
    <3>1. cp \in Checkpoints /\ cp.block \in Nat \ {0}
      BY <1>2, <2>1, PeriodAssumption DEF StateIsNewest, Checkpoints, StoreTypeOK
    <3>2. cp.block <= d /\ chain'[cp.block] = cp.era
      BY <1>4, <2>2 DEF OnChain, ChainHead
    <3>3. OnChain(cp)
      BY <1>3, <1>4, <3>1, <3>2 DEF OnChain, ChainHead
    <3>4. Intact(chain, rows, summaries, index, cp)
      BY <1>2, <2>1, <3>1, <3>3 DEF CheckpointsIntact
    <3>5. \A b \in DOMAIN chain : b <= cp.block => b \in DOMAIN chain' /\ chain'[b] = chain[b]
      BY <1>3, <1>4, <3>1, <3>2
    <3>6. CheckpointShape(cp) /\ RowsBehind(chain, rows, cp) /\ SegmentsBehind(index, cp)
          /\ SummariesBehind(rows, summaries, index, cp)
      BY <3>4 DEF Intact
    <3>7. cp.seg \in 0 .. cp.seg /\ \A s \in 0 .. (cp.seg - 1) : s \in 0 .. cp.seg
      BY <3>6 DEF CheckpointShape
    <3>8. \A s \in 0 .. (cp.seg - 1) : s \in DOMAIN rows /\ s \in DOMAIN summaries /\ s \in DOMAIN index
      BY <3>6, <3>7 DEF RowsBehind, SegmentsBehind, SummariesBehind
    <3>9. cp.seg \in DOMAIN rows /\ rows[cp.seg] \in Seq(Row) /\ cp.rows <= Len(rows[cp.seg])
      BY <3>6, <3>7 DEF RowsBehind
    <3>10. Stays(cp)
      BY <1>1, <3>5, <3>8, <3>9 DEF Stays
    <3>11. QED
      BY <3>1, <3>3, <3>10
  <2>3. QED
    BY <2>1, <2>2 DEF CheckpointsLeft
<1>6. CheckpointsIntact'
  BY <1>2, <1>5, CheckpointsStay
<1>7. FilesTypeOK'
  BY <1>1, <1>2 DEF FilesTypeOK
<1>8. QED
  BY <1>1, <1>6, <1>7 DEF FilesInv, Running, Starting, NeverStuck

LEMMA CrashFiles ==
    ASSUME FilesInv, Crash \/ StartAgain
    PROVE  FilesInv'
<1>1. /\ pc' = "down"
      /\ UNCHANGED <<chain, state, history, rows, summaries, index>>
  BY DEF Crash, StartAgain, node, disk, artifacts, saved
<1>2. FilesTypeOK' /\ CheckpointsIntact'
  BY <1>1, DiskStays DEF FilesInv, Checkpoints
<1>3. QED
  BY <1>1, <1>2 DEF FilesInv, Running, Starting, NeverStuck

LEMMA ChooseFiles ==
    ASSUME KeptInv, FilesInv, Choose
    PROVE  FilesInv'
<1>1. /\ pc = "down" /\ UNCHANGED <<chain, state, history, rows, summaries, index>>
      /\ pc' \in {"cut", "refused"}
  BY DEF Choose, node, disk, artifacts, saved
<1>2. FilesTypeOK' /\ CheckpointsIntact'
  BY <1>1, DiskStays DEF FilesInv, Checkpoints
<1>3. ASSUME pc' = "cut" PROVE StartFiles'
  <2>1. /\ Newest(from', {cp \in Candidates : OnChain(cp)}) /\ from' \in Candidates
    BY <1>3 DEF Choose
  <2>2. StateIsNewest
    BY DEF KeptInv, StoreInv
  <2>3. \A cp \in Checkpoints : cp \in Candidates
    BY <2>2 DEF Checkpoints, Candidates, StateIsNewest
  <2>4. \A cp \in Checkpoints' : OnChain(cp)' => cp.block <= from'.block
    BY <1>1, <2>1, <2>3 DEF Newest, Checkpoints, OnChain, ChainHead
  <2>5. QED
    BY <1>3, <2>4 DEF StartFiles
<1>4. QED
  BY <1>1, <1>2, <1>3 DEF FilesInv, Running, Starting, NeverStuck

\* What a start that has chosen its checkpoint can rely on.
LEMMA StartHas ==
    ASSUME KeptInv, FilesInv, pc \in Starting
    PROVE  /\ from \in Checkpoints /\ OnChain(from) /\ state # NoCheckpoint
           /\ Intact(chain, rows, summaries, index, from) /\ AllBehind(from)
           /\ FilesTypeOK /\ CheckpointsIntact /\ StartFiles
           /\ from.seg \in Nat /\ from.rows \in Nat
           /\ 0 .. from.seg \subseteq DOMAIN rows /\ rows[from.seg] \in Seq(Row)
           /\ from.rows <= Len(rows[from.seg])
           /\ 0 .. (from.seg - 1) \subseteq DOMAIN summaries
           /\ 0 .. (from.seg - 1) \subseteq DOMAIN index
<1>1. from \in Checkpoints /\ OnChain(from) /\ state # NoCheckpoint
  BY DEF KeptInv, StartingInv, Starting, Running
<1>2. FilesTypeOK /\ CheckpointsIntact /\ StartFiles
  BY DEF FilesInv
<1>3. Intact(chain, rows, summaries, index, from)
  BY <1>1, <1>2 DEF CheckpointsIntact
<1>4. AllBehind(from)
  BY <1>1, <1>2 DEF AllBehind, CheckpointsIntact, StartFiles
<1>5. CheckpointShape(from) /\ RowsBehind(chain, rows, from) /\ SegmentsBehind(index, from)
      /\ SummariesBehind(rows, summaries, index, from)
  BY <1>3 DEF Intact
<1>6. from.seg \in Nat /\ from.rows \in Nat /\ from.seg \in 0 .. from.seg
  BY <1>5 DEF CheckpointShape
<1>7. /\ 0 .. from.seg \subseteq DOMAIN rows /\ rows[from.seg] \in Seq(Row)
      /\ from.rows <= Len(rows[from.seg])
  BY <1>5, <1>6 DEF RowsBehind
<1>8. QED
  BY <1>1, <1>2, <1>3, <1>4, <1>5, <1>6, <1>7 DEF SegmentsBehind, SummariesBehind

\* A step of a start on the files keeps what is behind its checkpoint.
LEMMA CutKeeps ==
    ASSUME KeptInv, FilesInv, pc \in Starting, UNCHANGED <<chain, state, history>>,
           \A s \in 0 .. (from.seg - 1) :
             /\ s \in DOMAIN rows' /\ rows'[s] = rows[s]
             /\ s \in DOMAIN summaries' /\ summaries'[s] = summaries[s]
             /\ s \in DOMAIN index' /\ index'[s] = index[s],
           from.seg \in DOMAIN rows', rows'[from.seg] \in Seq(Row),
           from.rows <= Len(rows'[from.seg]),
           \A i \in 1 .. from.rows : rows'[from.seg][i] = rows[from.seg][i]
    PROVE  CheckpointsIntact'
<1>1. Stays(from)
  BY DEF Stays
<1>2. QED
  BY <1>1, StartHas, BehindStay

LEMMA MoveSegmentFiles ==
    ASSUME KeptInv, FilesInv, MoveSegment
    PROVE  FilesInv'
<1>1. PICK t \in DOMAIN rows : /\ t > from.seg
                               /\ rows' = Restrict(rows, DOMAIN rows \ {t})
                               /\ summaries' = Restrict(summaries, DOMAIN summaries \ {t})
  BY DEF MoveSegment
<1>2. pc = "cut" /\ pc' = pc /\ UNCHANGED <<chain, from, state, history, index>>
  BY DEF MoveSegment, node, saved
<1>3. /\ from.seg \in Nat /\ from.rows \in Nat /\ FilesTypeOK /\ StartFiles
      /\ 0 .. from.seg \subseteq DOMAIN rows /\ rows[from.seg] \in Seq(Row)
      /\ from.rows <= Len(rows[from.seg])
      /\ 0 .. (from.seg - 1) \subseteq DOMAIN summaries
      /\ 0 .. (from.seg - 1) \subseteq DOMAIN index
  BY <1>2, StartHas DEF Starting
<1>4. /\ DOMAIN rows' = DOMAIN rows \ {t} /\ \A s \in DOMAIN rows : s # t => rows'[s] = rows[s]
      /\ DOMAIN summaries' = DOMAIN summaries \ {t}
      /\ \A s \in DOMAIN summaries : s # t => summaries'[s] = summaries[s]
  BY <1>1 DEF Restrict
<1>5. t \in Nat
  BY <1>3 DEF FilesTypeOK
<1>6. \A s \in 0 .. from.seg : s # t /\ s \in DOMAIN rows
  BY <1>1, <1>3, <1>5
<1>7. \A s \in 0 .. (from.seg - 1) : /\ s \in 0 .. from.seg /\ s \in DOMAIN summaries /\ s \in DOMAIN index
  BY <1>3
<1>8. from.seg \in 0 .. from.seg
  BY <1>3
<1>9. CheckpointsIntact'
  BY <1>2, <1>3, <1>4, <1>6, <1>7, <1>8, CutKeeps DEF Starting
<1>10. FilesTypeOK'
  BY <1>3, <1>4 DEF FilesTypeOK
<1>11. StartFiles'
  BY <1>2, <1>3 DEF StartFiles, Checkpoints, OnChain, ChainHead
<1>12. QED
  BY <1>2, <1>9, <1>10, <1>11 DEF FilesInv, Running, Starting, NeverStuck

LEMMA MoveSummaryFiles ==
    ASSUME KeptInv, FilesInv, MoveSummary
    PROVE  FilesInv'
<1>1. pc = "cut" /\ UNCHANGED <<chain, from, state, history, rows, index>>
      /\ \A s \in DOMAIN rows : s <= from.seg
  BY DEF MoveSummary, node, saved
<1>2. /\ from.seg \in Nat /\ from.rows \in Nat /\ FilesTypeOK /\ StartFiles
      /\ 0 .. from.seg \subseteq DOMAIN rows /\ rows[from.seg] \in Seq(Row)
      /\ from.rows <= Len(rows[from.seg])
      /\ 0 .. (from.seg - 1) \subseteq DOMAIN summaries
      /\ 0 .. (from.seg - 1) \subseteq DOMAIN index
  BY <1>1, StartHas DEF Starting
<1>3. DOMAIN rows = 0 .. from.seg /\ from.seg \in DOMAIN rows
  <2>1. \A s \in DOMAIN rows : s \in Nat /\ s <= from.seg
    BY <1>1, <1>2 DEF FilesTypeOK
  <2>2. \A s \in DOMAIN rows : s \in 0 .. from.seg
    BY <1>2, <2>1
  <2>3. from.seg \in 0 .. from.seg
    BY <1>2
  <2>4. QED
    BY <1>2, <2>2, <2>3
<1>4. pc' = "truncate" /\ summaries' = Restrict(summaries, DOMAIN summaries \ {from.seg})
  BY <1>3 DEF MoveSummary
<1>5. /\ DOMAIN summaries' = DOMAIN summaries \ {from.seg}
      /\ \A s \in DOMAIN summaries : s # from.seg => summaries'[s] = summaries[s]
  BY <1>4 DEF Restrict
<1>6. DOMAIN summaries' = 0 .. (from.seg - 1)
  <2>1. DOMAIN summaries \subseteq 0 .. from.seg
    BY <1>2, <1>3 DEF FilesTypeOK
  <2>2. 0 .. (from.seg - 1) = (0 .. from.seg) \ {from.seg}
    BY <1>2
  <2>3. QED
    BY <1>2, <1>5, <2>1, <2>2
<1>7. \A s \in 0 .. (from.seg - 1) : /\ s \in DOMAIN rows /\ s \in DOMAIN index
                                     /\ s \in DOMAIN summaries /\ s # from.seg
  BY <1>2, <1>3
<1>8. CheckpointsIntact'
  BY <1>1, <1>2, <1>3, <1>5, <1>6, <1>7, CutKeeps DEF Starting
<1>9. FilesTypeOK'
  BY <1>1, <1>2, <1>5 DEF FilesTypeOK
<1>10. StartFiles'
  BY <1>1, <1>2, <1>3, <1>4, <1>6 DEF StartFiles, Checkpoints, OnChain, ChainHead
<1>11. QED
  BY <1>4, <1>8, <1>9, <1>10 DEF FilesInv, Running, Starting, NeverStuck

LEMMA TruncateRowsFiles ==
    ASSUME KeptInv, FilesInv, TruncateRows
    PROVE  FilesInv'
<1>1. /\ pc = "truncate" /\ pc' \in {"drop", "open"}
      /\ rows' = [rows EXCEPT ![from.seg] = CutRows(@)]
      /\ UNCHANGED <<chain, from, state, history, summaries, index>>
  BY DEF TruncateRows, node, saved
<1>2. /\ from.seg \in Nat /\ from.rows \in Nat /\ FilesTypeOK /\ StartFiles
      /\ 0 .. from.seg \subseteq DOMAIN rows /\ rows[from.seg] \in Seq(Row)
      /\ from.rows <= Len(rows[from.seg])
      /\ 0 .. (from.seg - 1) \subseteq DOMAIN summaries
      /\ 0 .. (from.seg - 1) \subseteq DOMAIN index
  BY <1>1, StartHas DEF Starting
<1>3. from.seg \in DOMAIN rows /\ \A s \in 0 .. (from.seg - 1) : s \in DOMAIN rows /\ s # from.seg
  BY <1>2
<1>4. PICK f \in Seq(Row) : f = rows[from.seg]
  BY <1>2
<1>5. PICK n \in Nat : n = from.rows /\ n <= Len(f)
  BY <1>2, <1>4
<1>6. PICK g : g = CutRows(f)
  OBVIOUS
<1>7. g \in Seq(Row) /\ Len(g) = n /\ \A i \in 1 .. n : g[i] = f[i]
  <2>1. g = IF Len(f) <= n THEN f ELSE SubSeq(f, 1, n)
    BY <1>5, <1>6 DEF CutRows
  <2>2. QED
    BY ONLY f \in Seq(Row), n \in Nat, <1>5, <2>1
<1>8. /\ DOMAIN rows' = DOMAIN rows /\ rows'[from.seg] = g
      /\ \A s \in DOMAIN rows : s # from.seg => rows'[s] = rows[s]
  BY <1>1, <1>3, <1>4, <1>6
<1>9. CheckpointsIntact'
  <2>1. from.seg \in DOMAIN rows' /\ rows'[from.seg] \in Seq(Row) /\ from.rows <= Len(rows'[from.seg])
    BY <1>3, <1>5, <1>7, <1>8
  <2>2. \A i \in 1 .. from.rows : rows'[from.seg][i] = rows[from.seg][i]
    BY <1>4, <1>5, <1>7, <1>8
  <2>3. \A s \in 0 .. (from.seg - 1) :
             /\ s \in DOMAIN rows' /\ rows'[s] = rows[s]
             /\ s \in DOMAIN summaries' /\ summaries'[s] = summaries[s]
             /\ s \in DOMAIN index' /\ index'[s] = index[s]
    BY <1>1, <1>2, <1>3, <1>8
  <2>4. QED
    BY <1>1, <2>1, <2>2, <2>3, CutKeeps DEF Starting
<1>10. FilesTypeOK'
  BY <1>1, <1>2, <1>7, <1>8 DEF FilesTypeOK
<1>11. StartFiles'
  BY <1>1, <1>2, <1>5, <1>7, <1>8 DEF StartFiles, Checkpoints, OnChain, ChainHead
<1>12. QED
  BY <1>1, <1>9, <1>10, <1>11 DEF FilesInv, Running, Starting, NeverStuck

LEMMA DropHistoryFiles ==
    ASSUME KeptInv, FilesInv, DropHistory
    PROVE  FilesInv'
<1>1. /\ pc = "drop" /\ pc' = "open" /\ history' = {cp \in history : cp.block <= from.block}
      /\ UNCHANGED <<chain, from, state, rows, summaries, index>>
  BY DEF DropHistory, node, artifacts
<1>2. Checkpoints' \subseteq Checkpoints
  BY <1>1 DEF Checkpoints
<1>3. FilesTypeOK' /\ CheckpointsIntact'
  BY <1>1, <1>2, DiskStays DEF FilesInv
<1>4. StartFiles
  BY <1>1 DEF FilesInv, Starting
<1>5. StartFiles'
  BY <1>1, <1>2, <1>4 DEF StartFiles, OnChain, ChainHead
<1>6. QED
  BY <1>1, <1>3, <1>5 DEF FilesInv, Running, Starting, NeverStuck

LEMMA ReopenSegmentFiles ==
    ASSUME KeptInv, FilesInv, ReopenSegment
    PROVE  FilesInv'
<1>1. /\ pc = "open" /\ pc' = "restore" /\ seg' = from.seg /\ segStart' = from.segStart
      /\ logdir' = from.seg
      /\ UNCHANGED <<chain, from, state, history, rows, summaries>>
  BY DEF ReopenSegment, node, saved
<1>2. index' = Put(Restrict(index, {s \in DOMAIN index : s <= from.seg}), from.seg,
                   [first |-> from.segStart, final |-> from.segStart, open |-> TRUE])
  BY DEF ReopenSegment
<1>3. /\ from.seg \in Nat /\ from.rows \in Nat /\ FilesTypeOK /\ StartFiles
      /\ 0 .. from.seg \subseteq DOMAIN rows /\ rows[from.seg] \in Seq(Row)
      /\ from.rows <= Len(rows[from.seg])
      /\ 0 .. (from.seg - 1) \subseteq DOMAIN summaries
      /\ 0 .. (from.seg - 1) \subseteq DOMAIN index
  BY <1>1, StartHas DEF Starting
<1>4. \A s \in DOMAIN index : s <= from.seg /\ s # from.seg => s \in DOMAIN index' /\ index'[s] = index[s]
  BY <1>2 DEF Put, Restrict
<1>5. \A s \in 0 .. (from.seg - 1) : /\ s \in DOMAIN rows /\ s \in DOMAIN index /\ s \in DOMAIN summaries
                                     /\ s <= from.seg /\ s # from.seg
  BY <1>3
<1>6. from.seg \in DOMAIN rows
  BY <1>3
<1>7. CheckpointsIntact'
  BY <1>1, <1>3, <1>4, <1>5, <1>6, CutKeeps DEF Starting
<1>8. FilesTypeOK'
  BY <1>1, <1>3 DEF FilesTypeOK
<1>9. StartFiles'
  BY <1>1, <1>3 DEF StartFiles, Checkpoints, OnChain, ChainHead
<1>10. QED
  BY <1>1, <1>7, <1>8, <1>9 DEF FilesInv, Running, Starting, NeverStuck

\* readPeriodBoundaries() reads what is recorded behind the checkpoint, which restore() accepts.
LEMMA BoundariesAreRecorded ==
    ASSUME KeptInv, FilesInv, pc = "restore"
    PROVE  PeriodBoundaries = Recorded(rows, from) /\ InOrder(PeriodBoundaries)
<1>1. /\ from.seg \in Nat /\ Intact(chain, rows, summaries, index, from)
      /\ 0 .. from.seg \subseteq DOMAIN rows /\ 0 .. (from.seg - 1) \subseteq DOMAIN index
      /\ rows[from.seg] \in Seq(Row) /\ StartFiles
  BY StartHas DEF Starting
<1>2. Len(rows[from.seg]) = from.rows
  BY <1>1 DEF StartFiles
<1>3. PICK n \in Nat : n = from.seg
  BY <1>1
<1> DEFINE file(s) == IF s \in DOMAIN rows THEN rows[s] ELSE <<>>
           indexed(s) == IF s \in DOMAIN index THEN file(s) ELSE <<>>
<1>4. \A i \in 1 .. n : indexed(i - 1) = rows[i - 1]
  <2> SUFFICES ASSUME NEW i \in 1 .. n PROVE indexed(i - 1) = rows[i - 1]
    OBVIOUS
  <2>1. i - 1 \in 0 .. n /\ i - 1 \in 0 .. (n - 1)
    OBVIOUS
  <2>2. QED
    BY <1>1, <1>3, <2>1
<1>5. file(n) = rows[n]
  BY <1>1, <1>3
<1>6. PeriodBoundaries = FlattenSeq([i \in 1 .. n |-> indexed(i - 1)]) \o file(n)
  BY <1>3 DEF PeriodBoundaries
<1> HIDE DEF file, indexed
<1>7. [i \in 1 .. n |-> indexed(i - 1)] = [i \in 1 .. n |-> rows[i - 1]]
  BY <1>4
<1>8. PeriodBoundaries = Earlier(rows, n) \o rows[n]
  BY <1>5, <1>6, <1>7 DEF Earlier
<1>9. PeriodBoundaries = Recorded(rows, from)
  <2>1. SubSeq(rows[n], 1, Len(rows[n])) = rows[n]
    BY <1>1, <1>3, WholeFile
  <2>2. QED
    BY <1>2, <1>3, <1>8, <2>1 DEF Recorded
<1> DEFINE b == Recorded(rows, from)
<1>10. CheckpointShape(from) /\ RowsBehind(chain, rows, from)
  BY <1>1 DEF Intact
<1>11. /\ b \in Seq(Row) /\ Ascending(b) /\ DOMAIN b = 1 .. Len(b) /\ Len(b) \in Nat
       /\ \A i \in DOMAIN b : b[i].block <= from.attempted
  <2>1. b \in Seq(Row) /\ DOMAIN b = 1 .. Len(b)
    BY <1>10, RecordedIsSeq
  <2>2. Ascending(b) /\ \A i \in DOMAIN b : b[i].block <= from.attempted
    BY <1>10 DEF RowsBehind
  <2> HIDE DEF b
  <2>3. Len(b) \in Nat
    BY <2>1
  <2>4. QED
    BY <2>1, <2>2, <2>3
<1> HIDE DEF b
<1>12. \A i \in 2 .. Len(b) : b[i - 1].block < b[i].block
  <2> SUFFICES ASSUME NEW i \in 2 .. Len(b) PROVE b[i - 1].block < b[i].block
    OBVIOUS
  <2>1. i \in DOMAIN b /\ i - 1 \in DOMAIN b /\ i - 1 < i
    BY <1>11
  <2>2. QED
    BY <1>11, <2>1 DEF Ascending
<1>13. b # <<>> => Last(b).block <= from.attempted
  <2> SUFFICES ASSUME b # <<>> PROVE Last(b).block <= from.attempted
    OBVIOUS
  <2>1. Len(b) \in DOMAIN b
    BY <1>11
  <2>2. QED
    BY <1>11, <2>1 DEF Last
<1>14. InOrder(b)
  BY <1>12, <1>13 DEF InOrder
<1>15. QED
  BY <1>9, <1>14 DEF b

LEMMA RestoreFiles ==
    ASSUME KeptInv, FilesInv, Restore
    PROVE  FilesInv'
<1>1. /\ pc = "restore" /\ UNCHANGED <<chain, seg, segStart, logdir, from, state, history, rows,
                                       summaries, index>>
  BY DEF Restore, node, segments, disk, artifacts, saved
<1>2. PeriodBoundaries = Recorded(rows, from) /\ InOrder(PeriodBoundaries)
  BY <1>1, BoundariesAreRecorded
<1>3. /\ pc' = "idle" /\ last' = from.block /\ attempted' = from.attempted
      /\ series' = Recorded(rows, from)
  BY <1>2 DEF Restore
<1>4. /\ from \in Checkpoints /\ state # NoCheckpoint /\ StartFiles
      /\ Intact(chain, rows, summaries, index, from) /\ AllBehind(from)
  BY <1>1, StartHas DEF Starting
<1>5. FilesTypeOK' /\ CheckpointsIntact'
  BY <1>1, DiskStays DEF FilesInv, Checkpoints
<1>6. /\ DOMAIN rows = 0 .. from.seg /\ DOMAIN summaries = 0 .. (from.seg - 1)
      /\ Len(rows[from.seg]) = from.rows
      /\ seg = from.seg /\ segStart = from.segStart /\ logdir = from.seg
  BY <1>1, <1>4 DEF StartFiles
<1>7. /\ Present'.seg = from.seg /\ Present'.rows = from.rows /\ Present'.block = from.block
      /\ Present'.segStart = from.segStart /\ Present'.attempted = from.attempted
  BY <1>1, <1>3, <1>6, PresentIs
<1>8. Intact(chain', rows', summaries', index', Present')
  <2>1. Stays(from)
    BY <1>1, <1>4, StaysPut
  <2>2. /\ Present'.block \in Nat /\ Present'.block >= from.block
        /\ Present'.attempted \in Int /\ Present'.attempted >= from.attempted
    BY <1>4, <1>7 DEF Intact, CheckpointShape
  <2>3. QED
    BY <1>4, <1>7, <2>1, <2>2, IntactStays
<1>9. series' = Recorded(rows', Present')
  BY <1>1, <1>3, <1>7 DEF Recorded
<1>10. AllBehind(Present)'
  BY <1>1, <1>4, <1>7 DEF AllBehind, Checkpoints, OnChain, ChainHead, Behind
<1>11. ~Closing' /\ pc' # "closed"
  BY <1>3 DEF Closing
<1>12. PassFiles'
  BY <1>1, <1>6, <1>8, <1>9, <1>10, <1>11 DEF PassFiles
<1>13. QED
  BY <1>3, <1>5, <1>12 DEF FilesInv, Running, Starting, NeverStuck

LEMMA FilesStep == ~DiskFull /\ ~ReadsFail /\ KeptInv /\ FilesInv /\ [Next]_vars => FilesInv'
<1> SUFFICES ASSUME ~DiskFull, ~ReadsFail, KeptInv, FilesInv, [Next]_vars PROVE FilesInv'
  OBVIOUS
<1>1. CASE Mine
  BY <1>1, MineFiles
<1>2. CASE Rewind
  BY <1>2, RewindFiles
<1>3. ASSUME NEW block \in 1 .. MaxHead, StartPass(block) PROVE FilesInv'
  BY <1>3, StartPassFiles
<1>4. CASE ReadBoundary
  BY <1>4, ReadBoundaryFiles
<1>5. CASE PassThrows \/ NoRoll \/ CheckpointFails
  <2>1. /\ UNCHANGED <<node, memory, disk>> /\ pc \in {"boundaries", "checkpoint", "history", "prune"}
        /\ pc' \in {"idle", "checkpoint"}
    BY <1>5 DEF PassThrows, NoRoll, CheckpointFails
  <2>2. UNCHANGED <<chain, artifacts, last, scorer, segments, state, history>>
    BY <2>1 DEF node, memory, disk, saved
  <2>3. Checkpoints' = Checkpoints
    BY <2>2 DEF Checkpoints
  <2>4. QED
    BY <2>1, <2>2, <2>3, QuietStep DEF Running
<1>6. CASE Summarise
  BY <1>6, SummariseFiles
<1>7. CASE CloseIndexEntry
  BY <1>7, CloseIndexEntryFiles
<1>8. CASE OpenSegment
  BY <1>8, OpenSegmentFiles
<1>9. CASE WriteIndex
  BY <1>9, WriteIndexFiles
<1>10. CASE WriteState
  BY <1>10, WriteStateFiles
<1>11. CASE WriteHistory \/ PruneHistory
  <2>1. /\ UNCHANGED <<chain, artifacts, last, scorer, segments, state>>
        /\ pc \in {"history", "prune"} /\ pc' \in {"prune", "idle"}
    BY <1>11 DEF WriteHistory, PruneHistory, node, memory
  <2>2. Checkpoints' \subseteq Checkpoints
    BY <1>11, <2>1 DEF WriteHistory, PruneHistory, Pruned, Checkpoints
  <2>3. QED
    BY <2>1, <2>2, QuietStep DEF Running
<1>12. CASE Crash \/ StartAgain
  BY <1>12, CrashFiles
<1>13. CASE Choose \/ ChoosePastFailures
  BY <1>13, ChooseFiles DEF ChoosePastFailures
<1>14. CASE MoveSegment \/ MoveSummary
  BY <1>14, MoveSegmentFiles, MoveSummaryFiles
<1>15. CASE TruncateRows \/ DropHistory
  BY <1>15, TruncateRowsFiles, DropHistoryFiles
<1>16. CASE ReopenSegment \/ Restore
  BY <1>16, ReopenSegmentFiles, RestoreFiles
<1>17. CASE UNCHANGED vars
  <2>1. UNCHANGED <<chain, artifacts, last, scorer, segments, state, history, from, pc>>
    BY <1>17 DEF vars, node, memory, disk, saved
  <2>2. Checkpoints' = Checkpoints
    BY <2>1 DEF Checkpoints
  <2>3. CASE pc \in Running
    BY <2>1, <2>2, <2>3, QuietStep
  <2>4. CASE pc \notin Running
    <3>1. UNCHANGED <<chain, rows, summaries, index, state, history, from, pc, seg, segStart, logdir>>
      BY <2>1 DEF artifacts, segments
    <3>2. FilesTypeOK' /\ CheckpointsIntact'
      BY <2>2, <3>1, DiskStays DEF FilesInv
    <3>3. StartFiles => StartFiles'
      BY <2>2, <3>1 DEF StartFiles, OnChain, ChainHead
    <3>4. QED
      BY <2>4, <3>1, <3>2, <3>3 DEF FilesInv, NeverStuck
  <2>5. QED
    BY <2>3, <2>4
<1>18. QED
  BY <1>1, <1>2, <1>3, <1>4, <1>5, <1>6, <1>7, <1>8, <1>9, <1>10, <1>11, <1>12, <1>13, <1>14, <1>15,
     <1>16, <1>17
  DEF Next, Node, Pass, Resume

\* What a running period has in its files.
LEMMA FilesHave ==
    ASSUME FilesInv, pc \in Running
    PROVE  /\ PassFiles /\ seg \in Nat /\ rows[seg] \in Seq(Row)
           /\ Intact(chain, rows, summaries, index, Present)
           /\ RowsBehind(chain, rows, Present) /\ CheckpointShape(Present)
           /\ series = Recorded(rows, Present) /\ series = Earlier(rows, seg) \o rows[seg]
           /\ \A i \in DOMAIN series : OnThis(chain, series[i])
           /\ \A i \in DOMAIN rows[seg] : \E j \in DOMAIN series : rows[seg][i] = series[j]
<1>1. PassFiles /\ FilesTypeOK
  BY DEF FilesInv
<1>2. /\ Intact(chain, rows, summaries, index, Present) /\ logdir = seg
      /\ series = Recorded(rows, Present)
  BY <1>1 DEF PassFiles
<1>3. RowsBehind(chain, rows, Present) /\ CheckpointShape(Present)
  BY <1>2 DEF Intact
<1>4. Present.seg = seg /\ Present.rows = Len(rows[seg]) /\ seg \in Nat /\ seg \in 0 .. seg
  BY <1>2, <1>3, PresentIs DEF CheckpointShape
<1>5. rows[seg] \in Seq(Row) /\ Earlier(rows, seg) \in Seq(Row)
  BY <1>3, <1>4 DEF RowsBehind
<1>6. series = Earlier(rows, seg) \o rows[seg]
  <2>1. SubSeq(rows[seg], 1, Len(rows[seg])) = rows[seg]
    BY <1>5, WholeFile
  <2>2. QED
    BY <1>2, <1>4, <2>1 DEF Recorded
<1>7. \A i \in DOMAIN series : OnThis(chain, series[i])
  BY <1>2, <1>3 DEF RowsBehind
<1>8. \A i \in DOMAIN rows[seg] : \E j \in DOMAIN series : rows[seg][i] = series[j]
  <2>1. PICK e \in Seq(Row), f \in Seq(Row) : e = Earlier(rows, seg) /\ f = rows[seg]
    BY <1>5
  <2>2. \A i \in DOMAIN f : Len(e) + i \in DOMAIN (e \o f) /\ (e \o f)[Len(e) + i] = f[i]
    OBVIOUS
  <2>3. QED
    BY <1>6, <2>1, <2>2
<1>9. QED
  BY <1>1, <1>2, <1>3, <1>4, <1>5, <1>6, <1>7, <1>8

LEMMA FilesOnChain == FilesInv => RowsAreOnTheChain
<1> SUFFICES ASSUME FilesInv, pc \in Running, NEW file \in Range(rows) \cup Range(summaries),
                    NEW i \in DOMAIN file
             PROVE  file[i].block \in DOMAIN chain /\ chain[file[i].block] = file[i].era
  BY DEF RowsAreOnTheChain
<1>1. /\ PassFiles /\ seg \in Nat /\ Intact(chain, rows, summaries, index, Present)
      /\ RowsBehind(chain, rows, Present) /\ series = Recorded(rows, Present)
      /\ \A j \in DOMAIN series : OnThis(chain, series[j])
      /\ \A k \in DOMAIN rows[seg] : \E j \in DOMAIN series : rows[seg][k] = series[j]
  BY FilesHave
<1>2. Present.seg = seg
  BY PresentIs
<1>3. SUFFICES OnThis(chain, file[i])
  BY DEF OnThis
<1>4. ASSUME NEW s \in DOMAIN rows, file = rows[s] PROVE OnThis(chain, file[i])
  <2>1. s \in 0 .. seg
    BY <1>1 DEF PassFiles
  <2>2. CASE s = seg
    BY <1>1, <1>4, <2>2
  <2>3. CASE s # seg
    <3>1. s \in 0 .. (Present.seg - 1)
      BY <1>1, <1>2, <2>1, <2>3
    <3>2. QED
      BY <1>1, <1>4, <3>1 DEF RowsBehind
  <2>4. QED
    BY <2>2, <2>3
<1>5. ASSUME NEW s \in DOMAIN summaries, file = summaries[s] PROVE OnThis(chain, file[i])
  <2>1. \E j \in DOMAIN series : file[i] = series[j]
    <3>1. CASE Closing /\ s = seg
      BY <1>1, <1>5, <3>1 DEF PassFiles, Scores
    <3>2. CASE ~(Closing /\ s = seg)
      <4>1. s \in 0 .. (Present.seg - 1)
        <5>1. s \in 0 .. (IF Closing THEN seg ELSE seg - 1)
          BY <1>1 DEF PassFiles
        <5>2. QED
          BY <1>1, <1>2, <3>2, <5>1
      <4>2. QED
        BY <1>1, <1>5, <4>1 DEF Intact, SummariesBehind, Scores
    <3>3. QED
      BY <3>1, <3>2
  <2>2. QED
    BY <1>1, <2>1
<1>6. (\E s \in DOMAIN rows : file = rows[s]) \/ (\E s \in DOMAIN summaries : file = summaries[s])
  BY DEF Range
<1>7. QED
  BY <1>4, <1>5, <1>6

LEMMA FilesAreTheSeries == FilesInv => SeriesIsTheFiles
<1> SUFFICES ASSUME FilesInv, pc \in Running
             PROVE  series = FlattenSeq([i \in 1 .. (seg + 1) |-> rows[i - 1]])
  BY DEF SeriesIsTheFiles
<1>1. seg \in Nat /\ series = Earlier(rows, seg) \o rows[seg] /\ PassFiles /\ FilesTypeOK
  BY FilesHave DEF FilesInv
<1>2. \A s \in 0 .. seg : rows[s] \in Seq(Row)
  BY <1>1 DEF PassFiles, FilesTypeOK
<1>3. Earlier(rows, seg + 1) = Earlier(rows, seg) \o rows[seg]
  <2>1. PICK n \in Nat : n = seg
    BY <1>1
  <2>2. \A s \in 0 .. n : rows[s] \in Seq(Row)
    BY <1>2, <2>1
  <2>3. Earlier(rows, n + 1) = Earlier(rows, n) \o rows[n]
    BY ONLY <2>2, n \in Nat, EarlierMore
  <2>4. QED
    BY <2>1, <2>3
<1>4. QED
  BY <1>1, <1>3 DEF Earlier

LEMMA FilesScoreOnce == FilesInv => EachIntervalInOneSegment
<1> SUFFICES ASSUME FilesInv, pc \in Running, NEW interval \in Intervals(series)
             PROVE  Cardinality({s \in DOMAIN summaries : s < seg /\ interval \in Intervals(summaries[s])})
                      = IF interval[2].block <= segStart THEN 1 ELSE 0
  BY DEF EachIntervalInOneSegment
<1>1. /\ PassFiles /\ seg \in Nat /\ Intact(chain, rows, summaries, index, Present)
      /\ series = Recorded(rows, Present)
  BY FilesHave
<1>2. Present.seg = seg /\ Present.segStart = segStart
  BY PresentIs
<1> DEFINE scoredBy == {s \in DOMAIN summaries : s < seg /\ interval \in Intervals(summaries[s])}
<1>3. scoredBy = {s \in 0 .. (Present.seg - 1) : interval \in Intervals(summaries[s])}
  <2>1. DOMAIN summaries = 0 .. (IF Closing THEN seg ELSE seg - 1)
    BY <1>1 DEF PassFiles
  <2>2. \A s : s \in DOMAIN summaries /\ s < seg <=> s \in 0 .. (seg - 1)
    BY <1>1, <2>1
  <2>3. QED
    BY <1>2, <2>2
<1> HIDE DEF scoredBy
<1>4. interval \in Intervals(Recorded(rows, Present))
  BY <1>1
<1>5. Cardinality(scoredBy) = IF interval[2].block <= Present.segStart THEN 1 ELSE 0
  BY <1>1, <1>3, <1>4, OneSummaryEach
<1>6. QED
  BY <1>2, <1>5 DEF scoredBy

LEMMA FilesAlways ==
    ASSUME ~DiskFull, ~ReadsFail
    PROVE  Spec => []FilesInv
<1>1. Init => KeptInv /\ FilesInv
  BY KeptAtFirst, FilesAtFirst
<1>2. KeptInv /\ FilesInv /\ [Next]_vars => (KeptInv /\ FilesInv)'
  BY KeptStep, FilesStep
<1>3. QED
  BY <1>1, <1>2, PTL DEF Spec

\* RowsAreOnTheChain: no row and no summary of a running period was read on a chain the node lost
\* (cutArtifactsToCheckpoint).
THEOREM NothingDeadIsKept ==
    ASSUME ~DiskFull, ~ReadsFail
    PROVE  Spec => []RowsAreOnTheChain
BY FilesAlways, FilesOnChain, PTL

\* SeriesIsTheFiles: through every crash, rewind and roll the scorer's series is what the files say
\* (readPeriodBoundaries, LiveScorer.restore).
THEOREM SeriesFollowsTheFiles ==
    ASSUME ~DiskFull, ~ReadsFail
    PROVE  Spec => []SeriesIsTheFiles
BY FilesAlways, FilesAreTheSeries, PTL

\* EachIntervalInOneSegment: an interval that ended in a closed segment is scored by one summary, any
\* other by none (sliceIntervalSeries, closeSegment).
THEOREM NoSeamLosesAnInterval ==
    ASSUME ~DiskFull, ~ReadsFail
    PROVE  Spec => []EachIntervalInOneSegment
BY FilesAlways, FilesScoreOnce, PTL

\* NeverStuck: a start that found its checkpoint finds the files it needs (resume, restore).
THEOREM EveryStartResumes ==
    ASSUME ~DiskFull, ~ReadsFail
    PROVE  Spec => []NeverStuck
<1>1. FilesInv => NeverStuck
  BY DEF FilesInv
<1>2. QED
  BY <1>1, FilesAlways, PTL
=============================================================================
