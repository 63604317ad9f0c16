-------------------------- MODULE FlowRelay_proofs --------------------------
(***************************************************************************)
(* The relay's guarantees for any wallets, any age limit and any bounds.   *)
(***************************************************************************)
EXTENDS FlowRelay, TLAPS

USE AgeAssumption, BoundAssumption

\* An idle lane holds nothing, and what waits is the newest batch handed over for the wallet.
LaneShape ==
    \A w \in Wallets :
        /\ ~Busy(w) => lanes[w].now = Nothing
        /\ lanes[w].next.items = 0 => lanes[w].next = Nothing
        /\ lanes[w].next.items > 0 => lanes[w].next.id = newest[w]

\* The inductive invariant of the relay.
RelayInv ==
    /\ TypeOK
    /\ LaneShape
    /\ NothingStranded
    /\ EveryOrderAccountedFor
    /\ FreshWhenHandedOver

-----------------------------------------------------------------------------
(* What draining does *)

\* Whatever the batches are, what is sent next is not stale and no order is lost.
LEMMA DrainedKeepsCount ==
    ASSUME NEW b \in Batches, NEW n \in Batches, n.items = 0 => n = Nothing
    PROVE  LET d == Drained(b, n) IN
           /\ d.now \in Batches /\ d.next \in Batches /\ d.dropped \in Nat
           /\ b.items + n.items = d.now.items + d.next.items + d.dropped
           /\ d.now.items > 0 => ~Stale(d.now)
           /\ d.now.items = 0 => d.now = Nothing /\ d.next = Nothing
           /\ d.next = Nothing \/ d.next = n
           /\ d.now = Nothing \/ d.now = b \/ (d.now = n /\ n.items > 0 /\ (b.items > 0 => Stale(b)))
BY DEF Batches, Nothing, Unknown, Drained

\* A new batch that finds the wallet idle starts, or is dropped whole.
LEMMA DrainedAlone ==
    ASSUME NEW b \in Batches
    PROVE  LET d == Drained(Nothing, b) IN
           /\ d.now \in Batches /\ d.next = Nothing /\ d.dropped \in Nat
           /\ b.items = d.now.items + d.dropped
           /\ d.now.items > 0 => ~Stale(d.now)
           /\ d.now = Nothing \/ (d.now = b /\ b.items > 0)
BY DEF Batches, Nothing, Unknown, Drained

LEMMA NothingIsABatch == Nothing \in Batches /\ Nothing.items = 0 /\ Nothing.id = 0
BY DEF Nothing, Batches, Unknown

-----------------------------------------------------------------------------
(* Steps *)

\* What push() leaves a wallet with, when the batch has orders of it.
LEMMA TakenKeepsCount ==
    ASSUME RelayInv, NEW w \in Wallets, NEW b \in Batches, b.items > 0
    PROVE  LET t == Taken(w, b) IN
           /\ t.now \in Batches /\ t.next \in Batches /\ t.dropped \in Nat
           /\ lanes[w].now.items + b.items = t.now.items + t.next.items + t.dropped
           /\ Busy(w) => t.now = lanes[w].now /\ t.next = b
           /\ ~Busy(w) => /\ t.next = Nothing
                          /\ t.now = Nothing \/ (t.now = b /\ ~Stale(b))
<1>1. CASE Busy(w)
  BY <1>1 DEF RelayInv, TypeOK, Taken, Batches
<1>2. CASE ~Busy(w)
  <2>1. lanes[w].now.items = 0
    BY <1>2, NothingIsABatch DEF RelayInv, LaneShape
  <2>2. Taken(w, b) = Drained(Nothing, b)
    BY <1>2 DEF Taken
  <2>3. QED
    BY <1>2, <2>1, <2>2, DrainedAlone, NothingIsABatch DEF Batches
<1>3. QED
  BY <1>1, <1>2

LEMMA PushStep ==
    ASSUME RelayInv, NEW round \in Nat, NEW count \in [Wallets -> 0..MaxItems],
           Push(round, count), lastRound' \in Nat
    PROVE  RelayInv'
<1> DEFINE batch(w) == [id |-> pushes + 1, round |-> round, items |-> count[w]]
           took(w) == Taken(w, batch(w))
<1>1. TypeOK
  BY DEF RelayInv
<1>2. \A w \in Wallets : batch(w) \in Batches
  BY <1>1 DEF TypeOK, Batches
<1>3. ASSUME NEW w \in Wallets, count[w] # 0
      PROVE  /\ took(w).now \in Batches /\ took(w).next \in Batches /\ took(w).dropped \in Nat
             /\ lanes[w].now.items + count[w] = took(w).now.items + took(w).next.items + took(w).dropped
             /\ Busy(w) => took(w).now = lanes[w].now /\ took(w).next = batch(w)
             /\ ~Busy(w) => /\ took(w).next = Nothing
                            /\ took(w).now = Nothing \/ (took(w).now = batch(w) /\ ~Stale(batch(w)))
  <2>1. batch(w).items > 0 /\ batch(w).items = count[w]
    BY <1>3
  <2>2. QED
    BY <1>2, <2>1, TakenKeepsCount
<1>4. ASSUME NEW w \in Wallets, count[w] = 0
      PROVE  /\ lanes'[w] = lanes[w] /\ stats'[w] = stats[w] /\ handedAt'[w] = handedAt[w]
             /\ newest'[w] = newest[w]
  <2>1. lanes'[w] = lanes[w] /\ stats'[w] = stats[w] /\ newest'[w] = newest[w]
    BY <1>4 DEF Push
  <2>2. handedAt'[w] = handedAt[w]
    BY <2>1 DEF Push
  <2>3. QED
    BY <2>1, <2>2
<1>5. ASSUME NEW w \in Wallets, count[w] # 0
      PROVE  /\ lanes'[w].now = took(w).now /\ lanes'[w].next = took(w).next
             /\ lanes'[w] \in [now : Batches, next : Batches]
             /\ stats'[w] \in [sent : Nat, superseded : Nat, stale : Nat, failed : Nat]
             /\ stats'[w].sent = stats[w].sent /\ stats'[w].failed = stats[w].failed
             /\ stats'[w].superseded = stats[w].superseded + lanes[w].next.items
             /\ stats'[w].stale = stats[w].stale + took(w).dropped
             /\ handedAt'[w] = IF took(w).now.id # lanes[w].now.id THEN head ELSE handedAt[w]
             /\ newest'[w] = pushes + 1
  <2>1. lanes'[w] = [now |-> took(w).now, next |-> took(w).next]
    BY <1>5 DEF Push
  <2>2. stats'[w] = [stats[w] EXCEPT !.superseded = @ + lanes[w].next.items,
                                     !.stale = @ + took(w).dropped]
    BY <1>5 DEF Push
  <2>3. handedAt'[w] = IF lanes'[w].now.id # lanes[w].now.id THEN head ELSE handedAt[w]
    BY DEF Push
  <2>4. newest'[w] = pushes + 1
    BY <1>5 DEF Push
  <2>5. /\ stats[w] \in [sent : Nat, superseded : Nat, stale : Nat, failed : Nat]
        /\ lanes[w].next.items \in Nat /\ took(w).dropped \in Nat
    BY <1>1, <1>3, <1>5 DEF TypeOK, Batches
  <2> HIDE DEF took
  <2> DEFINE s == stats[w]
             a == lanes[w].next.items
             b == took(w).dropped
  <2>a. stats'[w] = [s EXCEPT !.superseded = @ + a, !.stale = @ + b]
    BY <2>2
  <2>b. /\ s \in [sent : Nat, superseded : Nat, stale : Nat, failed : Nat]
        /\ a \in Nat /\ b \in Nat
    BY <2>5
  <2> HIDE DEF s, a, b
  <2>c. /\ stats'[w] \in [sent : Nat, superseded : Nat, stale : Nat, failed : Nat]
        /\ stats'[w].sent = s.sent /\ stats'[w].failed = s.failed
        /\ stats'[w].superseded = s.superseded + a
        /\ stats'[w].stale = s.stale + b
    <3> DEFINE t == [s EXCEPT !.superseded = s.superseded + a]
    <3>1. /\ t \in [sent : Nat, superseded : Nat, stale : Nat, failed : Nat]
          /\ t.sent = s.sent /\ t.failed = s.failed /\ t.stale = s.stale
          /\ t.superseded = s.superseded + a
      BY <2>b
    <3>2. stats'[w] = [t EXCEPT !.stale = s.stale + b]
      BY <2>a
    <3> HIDE DEF t
    <3>3. QED
      BY <2>b, <3>1, <3>2
  <2>6. /\ stats'[w] \in [sent : Nat, superseded : Nat, stale : Nat, failed : Nat]
        /\ stats'[w].sent = stats[w].sent /\ stats'[w].failed = stats[w].failed
        /\ stats'[w].superseded = stats[w].superseded + lanes[w].next.items
        /\ stats'[w].stale = stats[w].stale + took(w).dropped
    BY <2>c DEF s, a, b
  <2>7. lanes'[w].now = took(w).now /\ lanes'[w].next = took(w).next
    BY <2>1
  <2>8. lanes'[w] \in [now : Batches, next : Batches]
    <3>1. took(w).now \in Batches /\ took(w).next \in Batches
      BY <1>3, <1>5
    <3>2. QED
      BY <2>1, <3>1
  <2>9. QED
    BY <2>3, <2>4, <2>6, <2>7, <2>8
<1>6. \A w \in Wallets : count[w] \in Nat /\ pushed'[w] = pushed[w] + count[w]
  <2>1. \A w \in Wallets : count[w] \in Nat
    OBVIOUS
  <2>2. \A w \in Wallets : pushed'[w] = pushed[w] + count[w]
    BY DEF Push
  <2>3. QED
    BY <2>1, <2>2
<1>7. /\ head' = head /\ reported' = reported /\ pushes' = pushes + 1 /\ drains' = drains
      /\ asked' \in BOOLEAN
  BY DEF Push, AnswerIdle
<1>8. /\ DOMAIN lanes' = Wallets /\ lanes' = [w \in Wallets |-> lanes'[w]]
      /\ stats' = [w \in Wallets |-> stats'[w]] /\ newest' = [w \in Wallets |-> newest'[w]]
      /\ pushed' = [w \in Wallets |-> pushed'[w]] /\ handedAt' = [w \in Wallets |-> handedAt'[w]]
  BY DEF Push
<1> HIDE DEF took
<1>9. ASSUME NEW w \in Wallets
      PROVE  /\ lanes'[w] \in [now : Batches, next : Batches]
             /\ stats'[w] \in [sent : Nat, superseded : Nat, stale : Nat, failed : Nat]
             /\ newest'[w] \in Nat /\ pushed'[w] \in Nat /\ handedAt'[w] \in Nat
  <2>1. CASE count[w] = 0
    BY <1>1, <1>4, <1>6, <2>1 DEF TypeOK
  <2>2. CASE count[w] # 0
    BY <1>1, <1>5, <1>6, <2>2 DEF TypeOK
  <2>3. QED
    BY <2>1, <2>2
<1>10. TypeOK'
  BY <1>1, <1>7, <1>8, <1>9 DEF TypeOK
<1>11. ASSUME NEW w \in Wallets
       PROVE  /\ ~Busy(w)' => lanes'[w].now = Nothing
              /\ lanes'[w].next.items = 0 => lanes'[w].next = Nothing
              /\ lanes'[w].next.items > 0 => lanes'[w].next.id = newest'[w]
              /\ lanes'[w].next.items > 0 => Busy(w)'
  <2>1. CASE count[w] = 0
    BY <1>4, <2>1 DEF RelayInv, LaneShape, NothingStranded, Busy
  <2>2. CASE count[w] # 0 /\ Busy(w)
    <3>1. lanes'[w].now = lanes[w].now /\ lanes'[w].next = batch(w) /\ newest'[w] = pushes + 1
      BY <1>3, <1>5, <2>2
    <3>2. batch(w).items > 0 /\ batch(w).id = pushes + 1
      BY <1>6, <2>2
    <3>3. QED
      BY <2>2, <3>1, <3>2 DEF Busy
  <2>3. CASE count[w] # 0 /\ ~Busy(w)
    <3>1. lanes'[w].next = Nothing /\ (lanes'[w].now = Nothing \/ lanes'[w].now = batch(w))
      BY <1>3, <1>5, <2>3
    <3>2. batch(w).items > 0
      BY <1>6, <2>3
    <3>3. QED
      BY <3>1, <3>2, NothingIsABatch DEF Busy
  <2>4. QED
    BY <1>6, <2>1, <2>2, <2>3
<1>12. ASSUME NEW w \in Wallets
       PROVE  pushed'[w] = reported'[w] + Counted(stats'[w]) + lanes'[w].now.items + lanes'[w].next.items
  <2>0. pushed[w] = reported[w] + Counted(stats[w]) + lanes[w].now.items + lanes[w].next.items
    BY DEF RelayInv, EveryOrderAccountedFor
  <2>1. CASE count[w] = 0
    BY <1>1, <1>4, <1>6, <1>7, <2>0, <2>1 DEF TypeOK
  <2>2. CASE count[w] # 0
    <3>1. /\ stats'[w].sent = stats[w].sent /\ stats'[w].failed = stats[w].failed
          /\ stats'[w].superseded = stats[w].superseded + lanes[w].next.items
          /\ stats'[w].stale = stats[w].stale + took(w).dropped
      BY <1>5, <2>2
    <3>2. /\ stats[w].sent \in Nat /\ stats[w].failed \in Nat
          /\ stats[w].superseded \in Nat /\ stats[w].stale \in Nat
          /\ lanes[w].now.items \in Nat /\ lanes[w].next.items \in Nat
          /\ took(w).dropped \in Nat /\ took(w).now.items \in Nat /\ took(w).next.items \in Nat
          /\ reported[w] \in Nat /\ pushed[w] \in Nat
      BY <1>1, <1>3, <2>2 DEF TypeOK, Batches
    <3>3. Counted(stats'[w]) = Counted(stats[w]) + lanes[w].next.items + took(w).dropped
      BY <3>1, <3>2 DEF Counted
    <3>4. Counted(stats[w]) \in Nat
      BY <3>2 DEF Counted
    <3>5. lanes'[w].now = took(w).now /\ lanes'[w].next = took(w).next /\ pushed'[w] = pushed[w] + count[w]
      BY <1>5, <1>6, <2>2
    <3>6. lanes[w].now.items + count[w] = took(w).now.items + took(w).next.items + took(w).dropped
      BY <1>3, <2>2
    <3>7. QED
      BY <1>6, <1>7, <2>0, <3>2, <3>3, <3>4, <3>5, <3>6
  <2>3. QED
    BY <1>6, <2>1, <2>2
<1>13. ASSUME NEW w \in Wallets, Busy(w)', lanes'[w].now.round # Unknown
       PROVE  handedAt'[w] - lanes'[w].now.round <= MaxAge
  <2>1. CASE count[w] = 0 \/ (count[w] # 0 /\ Busy(w))
    <3>1. lanes'[w].now = lanes[w].now /\ handedAt'[w] = handedAt[w]
      BY <1>3, <1>4, <1>5, <2>1
    <3>2. QED
      BY <1>13, <3>1 DEF RelayInv, FreshWhenHandedOver, Busy
  <2>2. CASE count[w] # 0 /\ ~Busy(w)
    <3>1. lanes[w].now.id = 0
      BY <2>2, NothingIsABatch DEF RelayInv, LaneShape
    <3>2. took(w).now = batch(w) /\ ~Stale(batch(w))
      BY <1>3, <1>5, <1>13, <2>2, NothingIsABatch DEF Busy
    <3>3. batch(w).id = pushes + 1 /\ pushes + 1 # 0
      BY <1>1 DEF TypeOK
    <3>4. handedAt'[w] = head /\ lanes'[w].now = batch(w)
      BY <1>5, <2>2, <3>1, <3>2, <3>3
    <3>5. QED
      BY <1>1, <1>13, <3>2, <3>4 DEF Stale, TypeOK
  <2>3. QED
    BY <1>6, <2>1, <2>2
<1>14. QED
  BY <1>10, <1>11, <1>12, <1>13
     DEF RelayInv, LaneShape, NothingStranded, EveryOrderAccountedFor, FreshWhenHandedOver

\* A send settles: the order in flight becomes a counted one.
LEMMA SettleStep ==
    ASSUME RelayInv, NEW w \in Wallets, NEW outcome \in {"sent", "failed"}, Settle(w, outcome)
    PROVE  RelayInv'
<1> DEFINE rest == [lanes[w].now EXCEPT !.items = @ - 1]
           took == Drained(rest, lanes[w].next)
<1>1. TypeOK
  BY DEF RelayInv
<1>2. /\ lanes[w].now \in Batches /\ lanes[w].next \in Batches /\ lanes[w].now.items > 0
      /\ lanes[w].next.items = 0 => lanes[w].next = Nothing
  BY <1>1 DEF Settle, Busy, TypeOK, RelayInv, LaneShape
<1>3. /\ rest \in Batches /\ rest.items = lanes[w].now.items - 1
      /\ rest.id = lanes[w].now.id /\ rest.round = lanes[w].now.round
  BY <1>2 DEF Batches
<1> HIDE DEF rest
<1>4. /\ took.now \in Batches /\ took.next \in Batches /\ took.dropped \in Nat
      /\ rest.items + lanes[w].next.items = took.now.items + took.next.items + took.dropped
      /\ took.now.items > 0 => ~Stale(took.now)
      /\ took.now.items = 0 => took.now = Nothing /\ took.next = Nothing
      /\ took.next = Nothing \/ took.next = lanes[w].next
  BY <1>2, <1>3, DrainedKeepsCount
<1>5. /\ lanes' = [lanes EXCEPT ![w] = [now |-> took.now, next |-> took.next]]
      /\ handedAt' = [handedAt EXCEPT ![w] = IF took.now.items > 0 THEN head ELSE @]
      /\ stats' = [stats EXCEPT ![w].sent = IF outcome = "sent" THEN @ + 1 ELSE @,
                                ![w].failed = IF outcome = "failed" THEN @ + 1 ELSE @,
                                ![w].stale = @ + took.dropped]
      /\ head' = head /\ lastRound' = lastRound /\ asked' \in BOOLEAN
      /\ pushes' = pushes /\ newest' = newest /\ pushed' = pushed
      /\ reported' = reported /\ drains' = drains
  BY DEF Settle, AnswerIdle, history, rest
<1> HIDE DEF took
<1>6. /\ lanes' \in [Wallets -> [now : Batches, next : Batches]]
      /\ lanes'[w].now = took.now /\ lanes'[w].next = took.next
      /\ \A v \in Wallets : v # w => lanes'[v] = lanes[v]
  BY <1>1, <1>4, <1>5 DEF TypeOK
<1>7. /\ stats' \in [Wallets -> [sent : Nat, superseded : Nat, stale : Nat, failed : Nat]]
      /\ Counted(stats'[w]) = Counted(stats[w]) + 1 + took.dropped
      /\ \A v \in Wallets : v # w => stats'[v] = stats[v]
  <2> DEFINE a == IF outcome = "sent" THEN 1 ELSE 0
             s1 == [stats EXCEPT ![w].sent = @ + a]
             s2 == [s1 EXCEPT ![w].failed = @ + (1 - a)]
  <2>1. /\ a \in Nat /\ 1 - a \in Nat
        /\ stats \in [Wallets -> [sent : Nat, superseded : Nat, stale : Nat, failed : Nat]]
    BY <1>1 DEF TypeOK
  <2>2. stats' = [s2 EXCEPT ![w].stale = @ + took.dropped]
    <3>1. CASE outcome = "sent"
      <4>1. a = 1 /\ 1 - a = 0
        BY <3>1
      <4>2. s1 \in [Wallets -> [sent : Nat, superseded : Nat, stale : Nat, failed : Nat]]
        BY <2>1
      <4>3. s2 = s1
        <5> HIDE DEF s1, a
        <5>1. s1[w].failed \in Nat
          BY <4>2
        <5>2. s1[w].failed + (1 - a) = s1[w].failed
          BY <4>1, <5>1
        <5>3. QED
          BY <4>2, <5>2
      <4>4. [stats EXCEPT ![w].sent = @ + 1, ![w].failed = @, ![w].stale = @ + took.dropped]
            = [s1 EXCEPT ![w].stale = @ + took.dropped]
        BY <2>1, <4>1
      <4>5. QED
        BY <1>5, <3>1, <4>3, <4>4
    <3>2. CASE outcome = "failed"
      BY <1>1, <1>5, <3>2 DEF TypeOK
    <3>3. QED
      BY <3>1, <3>2
  <2> HIDE DEF a
  <2>3. /\ s1 \in [Wallets -> [sent : Nat, superseded : Nat, stale : Nat, failed : Nat]]
        /\ s1[w].sent = stats[w].sent + a /\ s1[w].failed = stats[w].failed
        /\ s1[w].superseded = stats[w].superseded /\ s1[w].stale = stats[w].stale
        /\ \A v \in Wallets : v # w => s1[v] = stats[v]
    BY <2>1
  <2> HIDE DEF s1
  <2>4. /\ s2 \in [Wallets -> [sent : Nat, superseded : Nat, stale : Nat, failed : Nat]]
        /\ s2[w].failed = s1[w].failed + (1 - a) /\ s2[w].sent = s1[w].sent
        /\ s2[w].superseded = s1[w].superseded /\ s2[w].stale = s1[w].stale
        /\ \A v \in Wallets : v # w => s2[v] = s1[v]
    BY <2>1, <2>3
  <2> HIDE DEF s2
  <2>5. /\ stats' \in [Wallets -> [sent : Nat, superseded : Nat, stale : Nat, failed : Nat]]
        /\ stats'[w].stale = s2[w].stale + took.dropped /\ stats'[w].sent = s2[w].sent
        /\ stats'[w].superseded = s2[w].superseded /\ stats'[w].failed = s2[w].failed
        /\ \A v \in Wallets : v # w => stats'[v] = s2[v]
    BY <1>4, <2>2, <2>4
  <2>6. QED
    BY <1>4, <2>1, <2>3, <2>4, <2>5 DEF Counted
<1>8. TypeOK'
  <2>1. handedAt' \in [Wallets -> Nat]
    BY <1>1, <1>5 DEF TypeOK
  <2>2. QED
    BY <1>1, <1>5, <1>6, <1>7, <2>1 DEF TypeOK
<1>9. ASSUME NEW v \in Wallets
      PROVE  /\ ~Busy(v)' => lanes'[v].now = Nothing
             /\ lanes'[v].next.items = 0 => lanes'[v].next = Nothing
             /\ lanes'[v].next.items > 0 => lanes'[v].next.id = newest'[v]
             /\ lanes'[v].next.items > 0 => Busy(v)'
  <2>1. CASE v # w
    BY <1>5, <1>6, <2>1 DEF RelayInv, LaneShape, NothingStranded, Busy
  <2>2. CASE v = w
    <3>1. took.now.items \in Nat
      BY <1>4 DEF Batches
    <3>2. QED
      BY <1>2, <1>4, <1>5, <1>6, <2>2, <3>1, NothingIsABatch DEF RelayInv, LaneShape, Busy
  <2>3. QED
    BY <2>1, <2>2
<1>10. ASSUME NEW v \in Wallets
       PROVE  pushed'[v] = reported'[v] + Counted(stats'[v]) + lanes'[v].now.items + lanes'[v].next.items
  <2>0. pushed[v] = reported[v] + Counted(stats[v]) + lanes[v].now.items + lanes[v].next.items
    BY DEF RelayInv, EveryOrderAccountedFor
  <2>1. CASE v # w
    BY <1>5, <1>6, <1>7, <2>0, <2>1
  <2>2. CASE v = w
    <3>1. /\ Counted(stats[w]) \in Nat /\ reported[w] \in Nat /\ pushed[w] \in Nat
          /\ lanes[w].now.items \in Nat /\ lanes[w].next.items \in Nat
          /\ took.now.items \in Nat /\ took.next.items \in Nat
      BY <1>1, <1>2, <1>4 DEF TypeOK, Counted, Batches
    <3>2. QED
      BY <1>3, <1>4, <1>5, <1>6, <1>7, <2>0, <2>2, <3>1
  <2>3. QED
    BY <2>1, <2>2
<1>11. ASSUME NEW v \in Wallets, Busy(v)', lanes'[v].now.round # Unknown
       PROVE  handedAt'[v] - lanes'[v].now.round <= MaxAge
  <2>1. CASE v # w
    <3>1. lanes'[v] = lanes[v] /\ handedAt'[v] = handedAt[v]
      BY <1>1, <1>5, <1>6, <2>1 DEF TypeOK
    <3>2. QED
      BY <1>11, <3>1 DEF RelayInv, FreshWhenHandedOver, Busy
  <2>2. CASE v = w
    <3>1. took.now.items > 0 /\ handedAt'[w] = head /\ lanes'[w].now = took.now
      BY <1>1, <1>5, <1>6, <1>11, <2>2 DEF TypeOK, Busy
    <3>2. QED
      BY <1>1, <1>4, <1>11, <2>2, <3>1 DEF Stale, TypeOK, Batches
  <2>3. QED
    BY <2>1, <2>2
<1>12. QED
  BY <1>8, <1>9, <1>10, <1>11
     DEF RelayInv, LaneShape, NothingStranded, EveryOrderAccountedFor, FreshWhenHandedOver

\* drainStats() moves the counts to what has been reported.
LEMMA DrainStatsStep ==
    ASSUME RelayInv, DrainStats
    PROVE  RelayInv'
<1>1. TypeOK
  BY DEF RelayInv
<1>2. \A w \in Wallets : Counted(stats[w]) \in Nat
  BY <1>1 DEF TypeOK, Counted
<1>3. /\ reported' \in [Wallets -> Nat]
      /\ \A w \in Wallets : reported'[w] = reported[w] + Counted(stats[w])
  BY <1>1, <1>2 DEF DrainStats, TypeOK
<1>4. /\ stats' \in [Wallets -> [sent : Nat, superseded : Nat, stale : Nat, failed : Nat]]
      /\ \A w \in Wallets : Counted(stats'[w]) = 0
  BY DEF DrainStats, NoStats, Counted
<1>5. TypeOK'
  BY <1>1, <1>3, <1>4 DEF TypeOK, DrainStats
<1>6. EveryOrderAccountedFor'
  BY <1>1, <1>2, <1>3, <1>4 DEF RelayInv, EveryOrderAccountedFor, DrainStats, TypeOK, Batches
<1>7. QED
  BY <1>5, <1>6 DEF RelayInv, LaneShape, NothingStranded, FreshWhenHandedOver, Busy, DrainStats

LEMMA RelayStep == RelayInv /\ [Next]_vars => RelayInv'
<1> SUFFICES ASSUME RelayInv, [Next]_vars PROVE RelayInv'
  OBVIOUS
<1>1. CASE NewHead
  BY <1>1 DEF NewHead, history, RelayInv, TypeOK, LaneShape, NothingStranded,
              EveryOrderAccountedFor, FreshWhenHandedOver, Busy
<1>2. CASE BotAnswers
  <2>1. PICK round \in {Unknown} \cup (lastRound + 1)..head, count \in [Wallets -> 0..MaxItems] :
           Push(round, count) /\ lastRound' = IF round = Unknown THEN lastRound ELSE round
    BY <1>2 DEF BotAnswers
  <2>2. round \in Nat /\ lastRound \in Nat
    BY DEF RelayInv, TypeOK, Unknown
  <2>3. QED
    BY <2>1, <2>2, PushStep
<1>3. ASSUME NEW w \in Wallets, NEW outcome \in {"sent", "failed"}, Settle(w, outcome)
      PROVE  RelayInv'
  BY <1>3, SettleStep
<1>4. CASE DrainStats
  BY <1>4, DrainStatsStep
<1>5. CASE AskIdle
  BY <1>5 DEF AskIdle, history, RelayInv, TypeOK, LaneShape, NothingStranded,
              EveryOrderAccountedFor, FreshWhenHandedOver, Busy
<1>6. CASE UNCHANGED vars
  BY <1>6 DEF vars, history, RelayInv, TypeOK, LaneShape, NothingStranded,
              EveryOrderAccountedFor, FreshWhenHandedOver, Busy
<1>7. QED
  BY <1>1, <1>2, <1>3, <1>4, <1>5, <1>6 DEF Next

LEMMA RelayInit == Init => RelayInv
<1> SUFFICES ASSUME Init PROVE RelayInv
  OBVIOUS
<1>1. /\ \A w \in Wallets : lanes[w].now = Nothing /\ lanes[w].next = Nothing
      /\ \A w \in Wallets : Counted(stats[w]) = 0 /\ pushed[w] = 0 /\ reported[w] = 0
  BY DEF Init, Counted, NoStats
<1>2. TypeOK
  BY NothingIsABatch DEF Init, TypeOK, NoStats
<1>3. LaneShape /\ NothingStranded /\ FreshWhenHandedOver /\ EveryOrderAccountedFor
  BY <1>1, NothingIsABatch
     DEF LaneShape, NothingStranded, FreshWhenHandedOver, EveryOrderAccountedFor, Busy
<1>4. QED
  BY <1>2, <1>3 DEF RelayInv

LEMMA RelayHolds == Spec => []RelayInv
BY RelayInit, RelayStep, PTL DEF Spec

-----------------------------------------------------------------------------
(* What follows *)

THEOREM TypeCorrect == Spec => []TypeOK
<1>1. RelayInv => TypeOK
  BY DEF RelayInv
<1>2. QED
  BY <1>1, RelayHolds, PTL

\* No order is lost and none is counted twice, whatever the sends do and however often the counters
\* are drained.
THEOREM NoOrderLost == Spec => []EveryOrderAccountedFor
<1>1. RelayInv => EveryOrderAccountedFor
  BY DEF RelayInv
<1>2. QED
  BY <1>1, RelayHolds, PTL

\* No order goes out more than MaxAge blocks after the one it was made for.
THEOREM NothingStaleIsSent == Spec => []FreshWhenHandedOver
<1>1. RelayInv => FreshWhenHandedOver
  BY DEF RelayInv
<1>2. QED
  BY <1>1, RelayHolds, PTL

\* An order never waits in the lane of a wallet with nothing in flight.
THEOREM NoLaneIsForgotten == Spec => []NothingStranded
<1>1. RelayInv => NothingStranded
  BY DEF RelayInv
<1>2. QED
  BY <1>1, RelayHolds, PTL

-----------------------------------------------------------------------------
(* What a step may not do *)

\* Only an idle wallet's lane is given a batch to send by push(): the one just handed over.
LEMMA PushStarts ==
    ASSUME RelayInv, BotAnswers, NEW w \in Wallets, lanes'[w].now.id # lanes[w].now.id
    PROVE  ~Busy(w) /\ (lanes'[w].now.id # 0 => lanes'[w].now.id = newest'[w])
<1>1. PICK round \in {Unknown} \cup (lastRound + 1)..head, count \in [Wallets -> 0..MaxItems] :
         Push(round, count)
  BY DEF BotAnswers
<1> DEFINE batch == [id |-> pushes + 1, round |-> round, items |-> count[w]]
           took == Taken(w, batch)
<1>2. /\ lanes'[w] = IF count[w] = 0 THEN lanes[w] ELSE [now |-> took.now, next |-> took.next]
      /\ newest'[w] = IF count[w] = 0 THEN newest[w] ELSE pushes + 1
  BY <1>1 DEF Push
<1>3. count[w] # 0 /\ lanes'[w].now = took.now /\ newest'[w] = pushes + 1
  BY <1>2
<1>4. batch \in Batches /\ batch.items > 0
  <2>1. round \in Nat /\ pushes \in Nat /\ count[w] \in Nat
    BY DEF RelayInv, TypeOK, Unknown
  <2>2. QED
    BY <1>3, <2>1 DEF Batches
<1>5. /\ Busy(w) => took.now = lanes[w].now
      /\ ~Busy(w) => took.now = Nothing \/ took.now = batch
  BY <1>4, TakenKeepsCount
<1> HIDE DEF took
<1>6. QED
  BY <1>3, <1>5, NothingIsABatch

\* A send that settles leaves the lane with the rest of its batch, unless that has become stale, and
\* else with the batch that waited or with none.
LEMMA SettleStarts ==
    ASSUME RelayInv, NEW v \in Wallets, NEW outcome \in {"sent", "failed"}, Settle(v, outcome),
           NEW w \in Wallets, lanes'[w].now.id # lanes[w].now.id
    PROVE  /\ lanes'[w].now.id # 0 => lanes'[w].now.id = newest'[w]
           /\ lanes[w].now.items > 1 => Stale(lanes[w].now)
<1> DEFINE rest == [lanes[v].now EXCEPT !.items = @ - 1]
           took == Drained(rest, lanes[v].next)
<1>1. lanes' = [lanes EXCEPT ![v] = [now |-> took.now, next |-> took.next]] /\ newest' = newest
  BY DEF Settle, history
<1>2. lanes \in [Wallets -> [now : Batches, next : Batches]]
  BY DEF RelayInv, TypeOK
<1>3. v = w /\ lanes'[w].now = took.now
  BY <1>1, <1>2
<1>4. /\ lanes[w].now \in Batches /\ lanes[w].next \in Batches
      /\ lanes[w].next.items = 0 => lanes[w].next = Nothing
      /\ lanes[w].next.items > 0 => lanes[w].next.id = newest[w]
  BY <1>2 DEF RelayInv, LaneShape
<1>5. /\ rest \in Batches /\ rest.items = lanes[w].now.items - 1
      /\ rest.id = lanes[w].now.id /\ rest.round = lanes[w].now.round
  BY <1>3, <1>4 DEF Batches, Settle, Busy
<1> HIDE DEF rest
<1>6. \/ took.now = Nothing
      \/ took.now = rest
      \/ took.now = lanes[w].next /\ lanes[w].next.items > 0
  BY <1>3, <1>4, <1>5, DrainedKeepsCount
<1>7. rest.items > 0 /\ ~Stale(rest) => took.now = rest
  BY <1>3 DEF Drained
<1> HIDE DEF took
<1>8. took.now # rest
  BY <1>3, <1>5
<1>9. lanes'[w].now.id # 0 => lanes'[w].now.id = newest'[w]
  BY <1>1, <1>3, <1>4, <1>6, <1>8, NothingIsABatch
<1>10. ASSUME lanes[w].now.items > 1 PROVE Stale(lanes[w].now)
  <2>1. rest.items > 0
    BY <1>4, <1>5, <1>10 DEF Batches
  <2>2. Stale(rest)
    BY <1>7, <1>8, <2>1
  <2>3. QED
    BY <1>5, <2>2 DEF Stale
<1>11. QED
  BY <1>9, <1>10

StartsNewest(w) == lanes'[w].now.id \notin {lanes[w].now.id, 0} => lanes'[w].now.id = newest'[w]

FinishesLegs(w) == lanes'[w].now.id # lanes[w].now.id /\ lanes[w].now.items > 1 => Stale(lanes[w].now)

LEMMA LaneStep ==
    ASSUME RelayInv, [Next]_vars, NEW w \in Wallets
    PROVE  StartsNewest(w) /\ FinishesLegs(w)
<1>1. CASE lanes'[w].now.id = lanes[w].now.id
  BY <1>1 DEF StartsNewest, FinishesLegs
<1>2. CASE BotAnswers /\ lanes'[w].now.id # lanes[w].now.id
  <2>1. ~Busy(w) /\ (lanes'[w].now.id # 0 => lanes'[w].now.id = newest'[w])
    BY <1>2, PushStarts
  <2>2. ~(lanes[w].now.items > 1)
    <3>1. lanes[w].now.items \in Nat
      BY DEF RelayInv, TypeOK, Batches
    <3>2. QED
      BY <2>1, <3>1 DEF Busy
  <2>3. QED
    BY <2>1, <2>2 DEF StartsNewest, FinishesLegs
<1>3. ASSUME NEW v \in Wallets, NEW outcome \in {"sent", "failed"}, Settle(v, outcome),
             lanes'[w].now.id # lanes[w].now.id
      PROVE  StartsNewest(w) /\ FinishesLegs(w)
  BY <1>3, SettleStarts DEF StartsNewest, FinishesLegs
<1>4. CASE NewHead \/ DrainStats \/ AskIdle \/ UNCHANGED vars
  <2>1. lanes' = lanes
    BY <1>4 DEF NewHead, DrainStats, AskIdle, vars
  <2>2. QED
    BY <1>1, <2>1
<1>5. QED
  BY <1>1, <1>2, <1>3, <1>4 DEF Next

\* A batch the wallet starts on is the last that was handed over for it: an older one that waited has
\* been replaced, whichever of push() and a settled send comes first.
THEOREM NewestFirst == Spec => StartsOnlyTheNewest
<1>1. RelayInv /\ [Next]_vars =>
        [\A w \in Wallets :
            lanes'[w].now.id \notin {lanes[w].now.id, 0} => lanes'[w].now.id = newest'[w]]_vars
  BY LaneStep DEF StartsNewest
<1>2. QED
  BY <1>1, RelayHolds, PTL DEF Spec, StartsOnlyTheNewest

\* The legs of a trade are sent one after the other to the last, unless the rest has become too old;
\* no newer batch and no failed leg cuts in.
THEOREM LegsFinish == Spec => LegsGoTogether
<1>1. RelayInv /\ [Next]_vars =>
        [\A w \in Wallets :
            lanes'[w].now.id # lanes[w].now.id /\ lanes[w].now.items > 1 => Stale(lanes[w].now)]_vars
  BY LaneStep DEF FinishesLegs
<1>2. QED
  BY <1>1, RelayHolds, PTL DEF Spec, LegsGoTogether
=============================================================================
