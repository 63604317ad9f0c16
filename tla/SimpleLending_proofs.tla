------------------------- MODULE SimpleLending_proofs -------------------------
(***************************************************************************)
(* For any users, amounts, prices, rates and thresholds: the totals stay   *)
(* natural numbers, the list of debtors is the set of debtors, no debt is  *)
(* left without collateral, the totals are the sums of the positions with  *)
(* what is not lent out in the contract, and no share of the supply loses  *)
(* worth but to a write-off.                                               *)
(***************************************************************************)
EXTENDS SimpleLending, FiniteSetTheorems, TLAPS

-----------------------------------------------------------------------------
(* Fixed-point arithmetic *)

LEMMA DownIsNat ==
    ASSUME NEW a \in Nat, NEW b \in Nat, NEW d \in Nat \ {0}
    PROVE  MulDivDown(a, b, d) \in Nat
<1>1. a * b \in Nat
  OBVIOUS
<1>2. QED
  BY <1>1 DEF MulDivDown

LEMMA UpIsNat ==
    ASSUME NEW a \in Nat, NEW b \in Nat, NEW d \in Nat \ {0}
    PROVE  MulDivUp(a, b, d) \in Nat /\ (a > 0 /\ b > 0 => MulDivUp(a, b, d) > 0)
<1>1. a * b \in Nat /\ (a > 0 /\ b > 0 => a * b > 0)
  OBVIOUS
<1>2. a * b + (d - 1) \in Nat /\ (a > 0 /\ b > 0 => a * b + (d - 1) >= d)
  BY <1>1
<1>3. \A n \in Nat : n \div d \in Nat /\ (n >= d => n \div d > 0)
  OBVIOUS
<1>4. QED
  BY <1>2, <1>3 DEF MulDivUp

LEMMA ZeroDown ==
    ASSUME NEW b \in Nat, NEW d \in Nat \ {0}
    PROVE  MulDivDown(0, b, d) = 0
<1>1. 0 * b = 0
  OBVIOUS
<1>2. 0 \div d = 0
  OBVIOUS
<1>3. QED
  BY <1>1, <1>2 DEF MulDivDown

\* A debtor without collateral is never healthy: what is owed rounds up and what backs it is nothing.
LEMMA BareDebtIsUnhealthy ==
    ASSUME TypeOK, NEW m, m.borrow \in Nat, m.borrowShares \in Nat,
           NEW n \in Nat, n > 0
    PROVE  ~Healthy(m, n, 0)
<1>1. m.borrow + 1 \in Nat /\ m.borrow + 1 > 0 /\ m.borrowShares + VirtualShares \in Nat \ {0}
  BY ParameterAssumption
<1>2. ToAssetsUp(n, m.borrow, m.borrowShares) \in Nat /\ ToAssetsUp(n, m.borrow, m.borrowShares) > 0
  BY <1>1, UpIsNat DEF ToAssetsUp
<1>3. MulDivDown(0, price, 1) = 0
  BY ZeroDown, ParameterAssumption DEF TypeOK
<1>4. MulDivDown(0, Lltv, WAD) = 0
  BY ZeroDown, ParameterAssumption
<1>5. QED
  BY <1>2, <1>3, <1>4 DEF Healthy

LEMMA PartIsSmaller ==
    ASSUME NEW a \in Nat, NEW d \in Nat \ {0}, NEW b \in 0 .. d
    PROVE  MulDivDown(a, b, d) \in 0 .. a
<1> DEFINE q == MulDivDown(a, b, d)
<1>1. q \in Nat
  BY DownIsNat
<1>2. a * b \in Nat /\ a * b <= a * d
  OBVIOUS
<1>3. \A n \in Nat : n \div d \in Nat /\ d * (n \div d) <= n
  OBVIOUS
<1>4. d * q <= a * d
  BY <1>2, <1>3 DEF MulDivDown
<1>5. ASSUME q > a PROVE FALSE
  <2>1. d * q >= d * (a + 1)
    BY <1>1, <1>5
  <2>2. d * (a + 1) = a * d + d
    OBVIOUS
  <2>3. d * q \in Nat /\ a * d \in Nat
    BY <1>1
  <2>4. QED
    BY <1>4, <2>1, <2>2, <2>3
<1>6. QED
  BY <1>1, <1>5

LEMMA IncentiveIsPositive == LiquidationIncentive \in Nat \ {0}
<1> DEFINE c == MulDivDown(Cursor, WAD - Lltv, WAD)
           f == MulDivDown(WAD, WAD, WAD - c)
<1>0. /\ Cursor \in Nat /\ WAD \in Nat \ {0} /\ WAD - Lltv \in 0 .. WAD /\ Cursor <= WAD - 1
      /\ MaxIncentive \in Nat \ {0}
  BY ParameterAssumption
<1>1. c \in 0 .. Cursor /\ WAD - c \in 1 .. WAD
  <2>1. c \in 0 .. Cursor
    BY <1>0, PartIsSmaller
  <2>2. QED
    BY <1>0, <2>1
<1>2. f \in Nat
  BY <1>1, DownIsNat, ParameterAssumption
<1>3. f > 0
  <2>1. WAD * WAD >= WAD - c /\ WAD * WAD \in Nat
    BY <1>1, ParameterAssumption
  <2>2. \A n \in Nat : n >= WAD - c => n \div (WAD - c) > 0
    BY <1>1, ParameterAssumption
  <2>3. QED
    BY <2>1, <2>2 DEF MulDivDown
<1>4. QED
  BY <1>2, <1>3, ParameterAssumption DEF LiquidationIncentive, AtMost

LEMMA PaysNat ==
    ASSUME TypeOK, NEW x \in Nat PROVE SeizurePays(x) \in Nat
<1>0. price \in Nat /\ 1 \in Nat \ {0} /\ WAD \in Nat
  BY ParameterAssumption DEF TypeOK
<1>1. MulDivDown(x, price, 1) \in Nat
  BY <1>0, DownIsNat
<1>2. QED
  BY <1>0, <1>1, UpIsNat, IncentiveIsPositive DEF SeizurePays

Totals == [supply : Nat, supplyShares : Nat, borrow : Nat, borrowShares : Nat, collateral : Nat]

\* Accrual adds the same natural number to what is supplied and to what is borrowed.
LEMMA AccruedIsMarket ==
    ASSUME TypeOK, NEW rate \in Rates
    PROVE  /\ Accrued(rate) \in Totals
           /\ \E n \in Nat : /\ Accrued(rate).supply = market.supply + n
                           /\ Accrued(rate).borrow = market.borrow + n
           /\ Accrued(rate).supplyShares = market.supplyShares
           /\ Accrued(rate).borrowShares = market.borrowShares
           /\ Accrued(rate).collateral = market.collateral
<1> DEFINE interest == MulDivDown(market.borrow, rate * elapsed, WAD)
<1>1. rate * elapsed \in Nat /\ market.borrow \in Nat /\ WAD \in Nat \ {0} /\ market \in Totals
  BY ParameterAssumption DEF TypeOK, Totals
<1>2. interest \in Nat
  BY <1>1, DownIsNat
<1>3. Accrued(rate) = [market EXCEPT !.supply = @ + interest, !.borrow = @ + interest]
  BY DEF Accrued
<1>4. PICK n \in Nat : Accrued(rate) = [market EXCEPT !.supply = @ + n, !.borrow = @ + n]
  BY <1>2, <1>3
<1>5. [market EXCEPT !.supply = @ + n] \in Totals
  BY <1>1 DEF Totals
<1>6. Accrued(rate) = [supply |-> market.supply + n, supplyShares |-> market.supplyShares,
                       borrow |-> market.borrow + n, borrowShares |-> market.borrowShares,
                       collateral |-> market.collateral]
  BY <1>1, <1>4, <1>5 DEF Totals
<1>7. market.supply \in Nat /\ market.supplyShares \in Nat /\ market.borrow \in Nat
      /\ market.borrowShares \in Nat /\ market.collateral \in Nat
  BY <1>1 DEF Totals
<1>8. QED
  BY <1>6, <1>7 DEF Totals

LEMMA Conversions ==
    ASSUME NEW x \in Nat, NEW total \in Nat, NEW shares \in Nat
    PROVE  /\ ToSharesDown(x, total, shares) \in Nat
           /\ ToSharesUp(x, total, shares) \in Nat
           /\ ToAssetsDown(x, total, shares) \in Nat
           /\ ToAssetsUp(x, total, shares) \in Nat
<1>1. total + 1 \in Nat \ {0} /\ shares + VirtualShares \in Nat \ {0}
  BY ParameterAssumption
<1>2. QED
  BY <1>1, DownIsNat, UpIsNat DEF ToSharesDown, ToSharesUp, ToAssetsDown, ToAssetsUp

-----------------------------------------------------------------------------
(* The list of debtors *)

\* The list read through its index: every debtor is at the place the index names, nobody else has one.
LEMMA IndexIsList ==
    ASSUME TypeOK
    PROVE  DebtorsListed <=>
             /\ \A v \in Users : borrowShares[v] > 0 =>
                    borrowerIndex[v] \in 1 .. Len(borrowers) /\ borrowers[borrowerIndex[v]] = v
             /\ \A v \in Users : borrowShares[v] = 0 => borrowerIndex[v] = 0
             /\ \A j \in 1 .. Len(borrowers) :
                    borrowShares[borrowers[j]] > 0 /\ borrowerIndex[borrowers[j]] = j
<1>1. /\ borrowers \in Seq(Users) /\ DOMAIN borrowers = 1 .. Len(borrowers)
      /\ \A j \in 1 .. Len(borrowers) : borrowers[j] \in Users
  BY DEF TypeOK
<1>2. ASSUME DebtorsListed, NEW v \in Users, borrowShares[v] > 0
      PROVE  borrowerIndex[v] \in 1 .. Len(borrowers) /\ borrowers[borrowerIndex[v]] = v
  <2>1. PICK j \in DOMAIN borrowers : borrowers[j] = v
    BY <1>2 DEF DebtorsListed
  <2>2. borrowerIndex[v] = j
    BY <1>2, <2>1 DEF DebtorsListed
  <2>3. QED
    BY <1>1, <2>1, <2>2
<1>3. ASSUME DebtorsListed, NEW j \in 1 .. Len(borrowers)
      PROVE  borrowShares[borrowers[j]] > 0 /\ borrowerIndex[borrowers[j]] = j
  <2>1. borrowers[j] \in {borrowers[i] : i \in DOMAIN borrowers} /\ j \in DOMAIN borrowers
    BY <1>1, <1>3
  <2>2. QED
    BY <1>3, <2>1 DEF DebtorsListed
<1>4. QED
  BY <1>1, <1>2, <1>3 DEF DebtorsListed

LEMMA SyncKeepsList ==
    ASSUME TypeOK, DebtorsListed, NEW u \in Users, NEW n \in Nat,
           borrowShares' = [borrowShares EXCEPT ![u] = n], SyncBorrower(u)
    PROVE  /\ borrowers' \in Seq(Users)
           /\ borrowerIndex' \in [Users -> Nat]
           /\ \A v \in Users : borrowShares'[v] > 0 =>
                  borrowerIndex'[v] \in 1 .. Len(borrowers') /\ borrowers'[borrowerIndex'[v]] = v
           /\ \A v \in Users : borrowShares'[v] = 0 => borrowerIndex'[v] = 0
           /\ \A j \in 1 .. Len(borrowers') :
                  borrowShares'[borrowers'[j]] > 0 /\ borrowerIndex'[borrowers'[j]] = j
<1> DEFINE k == Len(borrowers)
           i == borrowerIndex[u]
           last == borrowers[k]
<1>0. /\ borrowers \in Seq(Users) /\ borrowerIndex \in [Users -> Nat] /\ borrowShares \in [Users -> Nat]
      /\ k \in Nat /\ i \in Nat
  BY DEF TypeOK
<1>1. /\ borrowShares' \in [Users -> Nat] /\ borrowShares'[u] = n
      /\ \A v \in Users : v # u => borrowShares'[v] = borrowShares[v]
  BY <1>0
<1>2. /\ \A v \in Users : borrowShares[v] > 0 => borrowerIndex[v] \in 1 .. k /\ borrowers[borrowerIndex[v]] = v
      /\ \A v \in Users : borrowShares[v] = 0 => borrowerIndex[v] = 0
      /\ \A j \in 1 .. k : borrowShares[borrowers[j]] > 0 /\ borrowerIndex[borrowers[j]] = j
  BY IndexIsList
<1>3. \A j \in 1 .. k : borrowers[j] \in Users
  BY <1>0
<1>4. CASE n > 0 /\ i = 0
  <2>1. borrowers' = Append(borrowers, u) /\ borrowerIndex' = [borrowerIndex EXCEPT ![u] = k + 1]
    BY <1>1, <1>4 DEF SyncBorrower
  <2>2. borrowers' \in Seq(Users) /\ Len(borrowers') = k + 1 /\ borrowers'[k + 1] = u
        /\ \A j \in 1 .. k : borrowers'[j] = borrowers[j]
    BY <2>1, <1>0
  <2>3. borrowerIndex' \in [Users -> Nat] /\ borrowerIndex'[u] = k + 1
        /\ \A v \in Users : v # u => borrowerIndex'[v] = borrowerIndex[v]
    BY <2>1, <1>0
  <2>4. \A j \in 1 .. k : borrowers[j] # u
    BY <1>2, <1>4
  <2>5. ASSUME NEW v \in Users, borrowShares'[v] > 0
        PROVE  borrowerIndex'[v] \in 1 .. k + 1 /\ borrowers'[borrowerIndex'[v]] = v
    <3>1. CASE v = u
      BY <3>1, <2>2, <2>3, <1>0
    <3>2. CASE v # u
      <4>1. borrowerIndex[v] \in 1 .. k /\ borrowers[borrowerIndex[v]] = v
        BY <3>2, <2>5, <1>1, <1>2
      <4>2. borrowerIndex'[v] = borrowerIndex[v] /\ borrowers'[borrowerIndex[v]] = v
        BY <4>1, <3>2, <2>2, <2>3
      <4>3. borrowerIndex[v] \in 1 .. k + 1
        BY <4>1, <1>0
      <4>4. QED
        BY <4>2, <4>3
    <3>3. QED
      BY <3>1, <3>2
  <2>6. \A v \in Users : borrowShares'[v] = 0 => borrowerIndex'[v] = 0
    BY <2>3, <1>1, <1>2, <1>4
  <2>7. ASSUME NEW j \in 1 .. k + 1
        PROVE  borrowShares'[borrowers'[j]] > 0 /\ borrowerIndex'[borrowers'[j]] = j
    <3>1. CASE j = k + 1
      BY <3>1, <2>2, <2>3, <1>1, <1>4
    <3>2. CASE j # k + 1
      <4>1. j \in 1 .. k
        BY <3>2, <1>0
      <4>2. borrowers'[j] = borrowers[j] /\ borrowers[j] \in Users /\ borrowers[j] # u
        BY <4>1, <2>2, <2>4, <1>3
      <4>3. QED
        BY <4>1, <4>2, <2>3, <1>1, <1>2
    <3>3. QED
      BY <3>1, <3>2
  <2>8. QED
    BY <2>2, <2>3, <2>5, <2>6, <2>7
<1>5. CASE n = 0 /\ i # 0
  <2>1. i \in 1 .. k /\ borrowers[i] = u /\ borrowShares[u] > 0
    BY <1>0, <1>2, <1>5
  <2>2. k \in 1 .. k /\ last \in Users /\ borrowerIndex[last] = k /\ borrowShares[last] > 0
    BY <2>1, <1>0, <1>2, <1>3
  <2>3. /\ borrowers' = SubSeq([borrowers EXCEPT ![i] = last], 1, k - 1)
        /\ borrowerIndex' = [borrowerIndex EXCEPT ![last] = i, ![u] = 0]
    BY <1>1, <1>5 DEF SyncBorrower
  <2>4. [borrowers EXCEPT ![i] = last] \in Seq(Users) /\ Len([borrowers EXCEPT ![i] = last]) = k
    BY <2>1, <2>2, <1>0
  <2>5. /\ borrowers' \in Seq(Users) /\ Len(borrowers') = k - 1
        /\ \A j \in 1 .. k - 1 : borrowers'[j] = IF j = i THEN last ELSE borrowers[j]
    BY <2>1, <2>2, <2>3, <2>4, <1>0
  <2>6. /\ borrowerIndex' \in [Users -> Nat]
        /\ borrowerIndex'[u] = 0
        /\ last # u => borrowerIndex'[last] = i
        /\ \A v \in Users : v # u /\ v # last => borrowerIndex'[v] = borrowerIndex[v]
    BY <2>1, <2>2, <2>3, <1>0
  <2>7. ASSUME NEW v \in Users, borrowShares'[v] > 0
        PROVE  borrowerIndex'[v] \in 1 .. k - 1 /\ borrowers'[borrowerIndex'[v]] = v
    <3>1. v # u /\ borrowShares[v] > 0
      BY <2>7, <1>1, <1>5
    <3>2. borrowerIndex[v] \in 1 .. k /\ borrowers[borrowerIndex[v]] = v
      BY <3>1, <1>2
    <3>3. CASE v = last
      <4>1. i # k
        BY <3>1, <3>3, <2>1
      <4>2. i \in 1 .. k - 1 /\ borrowerIndex'[v] = i
        BY <4>1, <3>1, <3>3, <2>1, <2>6, <1>0
      <4>3. QED
        BY <4>2, <3>3, <2>5
    <3>4. CASE v # last
      <4>1. borrowerIndex[v] # k /\ borrowerIndex[v] # i
        BY <3>1, <3>2, <3>4, <2>1
      <4>2. borrowerIndex'[v] = borrowerIndex[v]
        BY <3>1, <3>4, <2>6
      <4>3. \A j \in 1 .. k : j # k => j \in 1 .. k - 1
        BY <1>0
      <4>4. borrowerIndex[v] \in 1 .. k - 1
        BY <4>1, <4>3, <3>2
      <4>5. QED
        BY <4>1, <4>2, <4>4, <3>2, <2>5
    <3>5. QED
      BY <3>3, <3>4
  <2>8. \A v \in Users : borrowShares'[v] = 0 => borrowerIndex'[v] = 0
    <3>1. \A v \in Users : v # u /\ borrowShares'[v] = 0 => v # last /\ borrowerIndex[v] = 0
      BY <2>2, <1>1, <1>2
    <3>2. QED
      BY <3>1, <2>6
  <2>9. ASSUME NEW j \in 1 .. k - 1
        PROVE  borrowShares'[borrowers'[j]] > 0 /\ borrowerIndex'[borrowers'[j]] = j
    <3>1. j \in 1 .. k /\ j # k /\ borrowers[j] \in Users
      BY <1>0, <1>3
    <3>2. CASE j = i
      <4>1. borrowers'[j] = last /\ last # u
        BY <3>1, <3>2, <2>1, <2>2, <2>5
      <4>2. QED
        BY <4>1, <3>2, <2>2, <2>6, <1>1
    <3>3. CASE j # i
      <4>1. borrowers'[j] = borrowers[j] /\ borrowShares[borrowers[j]] > 0 /\ borrowerIndex[borrowers[j]] = j
        BY <3>1, <3>3, <2>5, <1>2
      <4>2. borrowers[j] # u /\ borrowers[j] # last
        BY <4>1, <3>1, <3>3, <2>2
      <4>3. QED
        BY <4>1, <4>2, <3>1, <2>6, <1>1
    <3>4. QED
      BY <3>2, <3>3
  <2>10. QED
    BY <2>5, <2>6, <2>7, <2>8, <2>9
<1>6. CASE ~(n > 0 /\ i = 0) /\ ~(n = 0 /\ i # 0)
  <2>1. borrowers' = borrowers /\ borrowerIndex' = borrowerIndex
    BY <1>1, <1>6 DEF SyncBorrower, debtors
  <2>2. n > 0 <=> borrowShares[u] > 0
    BY <1>0, <1>2, <1>6
  <2>3. \A v \in Users : (borrowShares'[v] > 0 <=> borrowShares[v] > 0)
                         /\ (borrowShares'[v] = 0 <=> borrowShares[v] = 0)
    BY <2>2, <1>0, <1>1
  <2>4. QED
    BY <2>1, <2>3, <1>0, <1>2, <1>3
<1>7. QED
  BY <1>4, <1>5, <1>6
-----------------------------------------------------------------------------
(* The invariant *)

IInv == TypeOK /\ DebtorsListed /\ NoDebtWithoutCollateral

LEMMA InitIsInv == Init => IInv
<1> SUFFICES ASSUME Init PROVE IInv
  OBVIOUS
<1>1. TypeOK
  BY DEF Init, TypeOK, Zero
<1>2. DebtorsListed
  <2>1. DOMAIN borrowers = {}
    BY DEF Init
  <2>2. QED
    BY <2>1 DEF Init, DebtorsListed, Zero
<1>3. NoDebtWithoutCollateral
  BY DEF Init, NoDebtWithoutCollateral, Zero
<1>4. QED
  BY <1>1, <1>2, <1>3 DEF IInv

\* A call that touches no debt and takes no collateral of a debtor away.
LEMMA SameDebtKeepsList ==
    ASSUME IInv, borrowShares' = borrowShares, UNCHANGED debtors,
           \A u \in Users : borrowShares[u] > 0 /\ collateral[u] > 0 => collateral'[u] > 0
    PROVE  DebtorsListed' /\ NoDebtWithoutCollateral'
<1>1. DebtorsListed'
  BY DEF IInv, DebtorsListed, debtors
<1>2. NoDebtWithoutCollateral'
  BY DEF IInv, NoDebtWithoutCollateral
<1>3. QED
  BY <1>1, <1>2

LEMMA TakeOutKeepsInv ==
    ASSUME IInv, NEW u \in Users, NEW m \in Totals, NEW shares \in Nat, NEW x \in Nat,
           TakeOut(u, m, shares, x)
    PROVE  IInv'
<1>1. /\ supplyShares \in [Users -> Nat] /\ supplyShares' = [supplyShares EXCEPT ![u] = @ - shares]
      /\ shares <= supplyShares[u]
  BY DEF TakeOut, IInv, TypeOK
<1>2. supplyShares' \in [Users -> Nat]
  BY <1>1
<1>3. m.supply - x \in Nat /\ m.supplyShares - shares \in Nat
  BY DEF TakeOut, Totals
<1>4. market' \in Totals
  BY <1>3 DEF TakeOut, Totals
<1>5. TypeOK'
  BY <1>2, <1>4 DEF TakeOut, IInv, TypeOK, Totals, debtors
<1>6. DebtorsListed' /\ NoDebtWithoutCollateral'
  BY SameDebtKeepsList DEF TakeOut
<1>7. QED
  BY <1>5, <1>6 DEF IInv

LEMMA SupplyKeepsInv ==
    ASSUME IInv, NEW u \in Users, NEW x \in Amounts, Supply(u, x)
    PROVE  IInv'
<1>1. PICK rate \in Rates :
      /\ supplyShares' = [supplyShares EXCEPT
                            ![u] = @ + ToSharesDown(x, Accrued(rate).supply, Accrued(rate).supplyShares)]
      /\ market' = [Accrued(rate) EXCEPT !.supply = @ + x, !.supplyShares =
                            @ + ToSharesDown(x, Accrued(rate).supply, Accrued(rate).supplyShares)]
      /\ elapsed' = 0
      /\ UNCHANGED <<borrowShares, collateral, debtors, price, now, moves>>
  BY DEF Supply
<1>2. PICK m \in Totals : m = Accrued(rate)
  BY AccruedIsMarket DEF IInv
<1>3. x \in Nat
  BY ParameterAssumption
<1>4. PICK shares \in Nat : shares = ToSharesDown(x, m.supply, m.supplyShares)
  BY <1>2, <1>3, Conversions DEF Totals
<1>5. supplyShares' = [supplyShares EXCEPT ![u] = @ + shares] /\ supplyShares' \in [Users -> Nat]
  BY <1>1, <1>2, <1>4 DEF IInv, TypeOK
<1>6. market' = [m EXCEPT !.supply = @ + x, !.supplyShares = @ + shares]
  BY <1>1, <1>2, <1>4
<1>7. market' \in Totals
  <2>1. /\ m.supply + x \in Nat /\ m.supplyShares + shares \in Nat /\ m.borrow \in Nat
        /\ m.borrowShares \in Nat /\ m.collateral \in Nat
    BY <1>3 DEF Totals
  <2>2. market' = [supply |-> m.supply + x, supplyShares |-> m.supplyShares + shares,
                   borrow |-> m.borrow, borrowShares |-> m.borrowShares, collateral |-> m.collateral]
    BY <1>6 DEF Totals
  <2>3. QED
    BY <2>1, <2>2 DEF Totals
<1>8. TypeOK'
  BY <1>1, <1>5, <1>7 DEF IInv, TypeOK, Totals, debtors
<1>9. DebtorsListed' /\ NoDebtWithoutCollateral'
  BY <1>1, SameDebtKeepsList
<1>10. QED
  BY <1>8, <1>9 DEF IInv

LEMMA WithdrawKeepsInv ==
    ASSUME IInv, NEW u \in Users,
           WithdrawAll(u) \/ \E x \in Amounts : Withdraw(u, x)
    PROVE  IInv'
<1>1. CASE WithdrawAll(u)
  <2>1. PICK rate \in Rates :
          TakeOut(u, Accrued(rate), supplyShares[u],
                  ToAssetsDown(supplyShares[u], Accrued(rate).supply, Accrued(rate).supplyShares))
    BY <1>1 DEF WithdrawAll
  <2>2. Accrued(rate) \in Totals /\ supplyShares[u] \in Nat
    BY AccruedIsMarket DEF IInv, TypeOK
  <2>3. ToAssetsDown(supplyShares[u], Accrued(rate).supply, Accrued(rate).supplyShares) \in Nat
    BY <2>2, Conversions DEF Totals
  <2>4. QED
    BY <2>1, <2>2, <2>3, TakeOutKeepsInv
<1>2. ASSUME NEW x \in Amounts, Withdraw(u, x) PROVE IInv'
  <2>1. PICK rate \in Rates :
          TakeOut(u, Accrued(rate), ToSharesUp(x, Accrued(rate).supply, Accrued(rate).supplyShares), x)
    BY <1>2 DEF Withdraw
  <2>2. Accrued(rate) \in Totals /\ x \in Nat
    BY AccruedIsMarket, ParameterAssumption DEF IInv
  <2>3. ToSharesUp(x, Accrued(rate).supply, Accrued(rate).supplyShares) \in Nat
    BY <2>2, Conversions DEF Totals
  <2>4. QED
    BY <2>1, <2>2, <2>3, TakeOutKeepsInv
<1>3. QED
  BY <1>1, <1>2

LEMMA CollateralKeepsInv ==
    ASSUME IInv, NEW u \in Users, NEW x \in Amounts,
           SupplyCollateral(u, x) \/ WithdrawCollateral(u, x)
    PROVE  IInv'
<1>1. x \in Nat /\ collateral \in [Users -> Nat] /\ borrowShares \in [Users -> Nat] /\ market \in Totals
  BY ParameterAssumption DEF IInv, TypeOK, Totals
<1>2. CASE SupplyCollateral(u, x)
  <2>1. collateral' = [collateral EXCEPT ![u] = @ + x] /\ market' = [market EXCEPT !.collateral = @ + x]
    BY <1>2 DEF SupplyCollateral
  <2>2. collateral' \in [Users -> Nat] /\ \A v \in Users : collateral'[v] >= collateral[v]
    BY <1>1, <2>1
  <2>3. market' \in Totals
    BY <1>1, <2>1 DEF Totals
  <2>4. TypeOK'
    BY <1>2, <2>2, <2>3 DEF SupplyCollateral, IInv, TypeOK, Totals, debtors
  <2>5. \A v \in Users : borrowShares[v] > 0 /\ collateral[v] > 0 => collateral'[v] > 0
    BY <1>1, <2>2
  <2>6. DebtorsListed' /\ NoDebtWithoutCollateral'
    BY <1>2, <2>5, SameDebtKeepsList DEF SupplyCollateral
  <2>7. QED
    BY <2>4, <2>6 DEF IInv
<1>3. CASE WithdrawCollateral(u, x)
  <2>1. PICK rate \in Rates :
          /\ x <= collateral[u] /\ x <= Accrued(rate).collateral
          /\ Healthy(Accrued(rate), borrowShares[u], collateral[u] - x)
          /\ collateral' = [collateral EXCEPT ![u] = @ - x]
          /\ market' = [Accrued(rate) EXCEPT !.collateral = @ - x]
          /\ elapsed' = 0
          /\ UNCHANGED <<supplyShares, borrowShares, debtors, price>>
    BY <1>3 DEF WithdrawCollateral
  <2>2. PICK m \in Totals : m = Accrued(rate)
    BY AccruedIsMarket DEF IInv
  <2>3. /\ collateral' \in [Users -> Nat] /\ collateral'[u] = collateral[u] - x
        /\ \A v \in Users : v # u => collateral'[v] = collateral[v]
    BY <1>1, <2>1
  <2>4. market' = [m EXCEPT !.collateral = @ - x] /\ x <= m.collateral
    BY <2>1, <2>2
  <2>5. market' \in Totals
    BY <1>1, <2>4 DEF Totals
  <2>6. TypeOK'
    BY <2>1, <2>3, <2>5 DEF IInv, TypeOK, Totals, debtors
  <2>7. ASSUME borrowShares[u] > 0, collateral'[u] = 0 PROVE FALSE
    <3>1. m.borrow \in Nat /\ m.borrowShares \in Nat /\ borrowShares[u] \in Nat
      BY <1>1 DEF Totals
    <3>2. ~Healthy(m, borrowShares[u], 0)
      BY <2>7, <3>1, BareDebtIsUnhealthy DEF IInv
    <3>3. QED
      BY <2>1, <2>2, <2>3, <2>7, <3>2
  <2>8. \A v \in Users : borrowShares[v] > 0 /\ collateral[v] > 0 => collateral'[v] > 0
    BY <2>3, <2>7
  <2>9. DebtorsListed' /\ NoDebtWithoutCollateral'
    BY <2>1, <2>8, SameDebtKeepsList
  <2>10. QED
    BY <2>6, <2>9 DEF IInv
<1>4. QED
  BY <1>2, <1>3

\* The calls that change a debt: the list follows it.
LEMMA DebtStep ==
    ASSUME IInv, NEW u \in Users, NEW n \in Nat,
           borrowShares' = [borrowShares EXCEPT ![u] = n], SyncBorrower(u),
           supplyShares' \in [Users -> Nat], collateral' \in [Users -> Nat], market' \in Totals,
           price' = price, elapsed' = 0,
           \A v \in Users \ {u} : collateral'[v] = collateral[v],
           n > 0 => collateral'[u] > 0
    PROVE  IInv'
<1>1. borrowShares \in [Users -> Nat]
  BY DEF IInv, TypeOK
<1>2. borrowShares' \in [Users -> Nat] /\ borrowShares'[u] = n
      /\ \A v \in Users \ {u} : borrowShares'[v] = borrowShares[v]
  BY <1>1
<1>3. /\ borrowers' \in Seq(Users) /\ borrowerIndex' \in [Users -> Nat]
      /\ \A v \in Users : borrowShares'[v] > 0 =>
             borrowerIndex'[v] \in 1 .. Len(borrowers') /\ borrowers'[borrowerIndex'[v]] = v
      /\ \A v \in Users : borrowShares'[v] = 0 => borrowerIndex'[v] = 0
      /\ \A j \in 1 .. Len(borrowers') :
             borrowShares'[borrowers'[j]] > 0 /\ borrowerIndex'[borrowers'[j]] = j
  BY SyncKeepsList DEF IInv
<1>4. TypeOK'
  BY <1>2, <1>3 DEF IInv, TypeOK, Totals
<1>5. DebtorsListed'
  <2>1. /\ DOMAIN borrowers' = 1 .. Len(borrowers')
        /\ \A j \in 1 .. Len(borrowers') : borrowers'[j] \in Users
    BY <1>3
  <2>2. {v \in Users : borrowShares'[v] > 0} = {borrowers'[j] : j \in DOMAIN borrowers'}
    BY <1>3, <2>1
  <2>3. QED
    BY <1>3, <2>1, <2>2 DEF DebtorsListed
<1>6. NoDebtWithoutCollateral'
  BY <1>2 DEF IInv, NoDebtWithoutCollateral
<1>7. QED
  BY <1>4, <1>5, <1>6 DEF IInv

LEMMA BorrowKeepsInv ==
    ASSUME IInv, NEW u \in Users, NEW x \in Amounts, Borrow(u, x)
    PROVE  IInv'
<1>1. PICK rate \in Rates :
        LET acc == Accrued(rate)
            shares == ToSharesUp(x, acc.borrow, acc.borrowShares)
            m == [acc EXCEPT !.borrow = @ + x, !.borrowShares = @ + shares] IN
        /\ Healthy(m, borrowShares[u] + shares, collateral[u])
        /\ borrowShares' = [borrowShares EXCEPT ![u] = @ + shares]
        /\ market' = m
        /\ SyncBorrower(u)
        /\ elapsed' = 0
        /\ UNCHANGED <<supplyShares, collateral, price>>
  BY DEF Borrow
<1>2. PICK acc \in Totals : acc = Accrued(rate)
  BY AccruedIsMarket DEF IInv
<1>3. x \in Nat /\ borrowShares \in [Users -> Nat] /\ collateral \in [Users -> Nat]
  BY ParameterAssumption DEF IInv, TypeOK
<1>4. PICK shares \in Nat : shares = ToSharesUp(x, acc.borrow, acc.borrowShares)
  BY <1>2, <1>3, Conversions DEF Totals
<1>5. /\ Healthy(market', borrowShares[u] + shares, collateral[u])
      /\ borrowShares' = [borrowShares EXCEPT ![u] = @ + shares]
      /\ market' = [acc EXCEPT !.borrow = @ + x, !.borrowShares = @ + shares]
  BY <1>1, <1>2, <1>4
<1>6. market' \in Totals
  <2>1. /\ acc.supply \in Nat /\ acc.supplyShares \in Nat /\ acc.borrow + x \in Nat
        /\ acc.borrowShares + shares \in Nat /\ acc.collateral \in Nat
    BY <1>3 DEF Totals
  <2>2. market' = [supply |-> acc.supply, supplyShares |-> acc.supplyShares, borrow |-> acc.borrow + x,
                   borrowShares |-> acc.borrowShares + shares, collateral |-> acc.collateral]
    BY <1>5 DEF Totals
  <2>3. QED
    BY <2>1, <2>2 DEF Totals
<1>7. borrowShares[u] + shares \in Nat /\ borrowShares' = [borrowShares EXCEPT ![u] = borrowShares[u] + shares]
  BY <1>3, <1>5
<1>8. ASSUME borrowShares[u] + shares > 0, collateral[u] = 0 PROVE FALSE
  <2>1. market'.borrow \in Nat /\ market'.borrowShares \in Nat
    BY <1>6 DEF Totals
  <2>2. ~Healthy(market', borrowShares[u] + shares, 0)
    BY <1>7, <1>8, <2>1, BareDebtIsUnhealthy DEF IInv
  <2>3. QED
    BY <1>5, <1>8, <2>2
<1>9. borrowShares[u] + shares > 0 => collateral[u] > 0
  BY <1>3, <1>8
<1>10. QED
  BY <1>1, <1>3, <1>6, <1>7, <1>9, DebtStep DEF IInv, TypeOK

LEMMA PayBackKeepsInv ==
    ASSUME IInv, NEW u \in Users, NEW m \in Totals, NEW x \in Nat,
           NEW shares \in Nat, shares <= borrowShares[u], PayBack(u, m, shares, x)
    PROVE  IInv'
<1>1. /\ borrowShares \in [Users -> Nat] /\ collateral \in [Users -> Nat] /\ supplyShares \in [Users -> Nat]
  BY DEF IInv, TypeOK
<1>2. /\ shares <= m.borrowShares
      /\ borrowShares' = [borrowShares EXCEPT ![u] = borrowShares[u] - shares]
      /\ market' = [m EXCEPT !.borrow = Less(@, x), !.borrowShares = @ - shares]
      /\ SyncBorrower(u) /\ elapsed' = 0 /\ UNCHANGED <<supplyShares, collateral, price>>
  BY DEF PayBack
<1>3. Less(m.borrow, x) \in Nat
  BY DEF Less, Totals
<1>4. market' \in Totals
  <2>1. market' = [supply |-> m.supply, supplyShares |-> m.supplyShares, borrow |-> Less(m.borrow, x),
                   borrowShares |-> m.borrowShares - shares, collateral |-> m.collateral]
    BY <1>2 DEF Totals
  <2>2. m.supply \in Nat /\ m.supplyShares \in Nat /\ m.borrowShares - shares \in Nat /\ m.collateral \in Nat
    BY <1>2 DEF Totals
  <2>3. QED
    BY <1>3, <2>1, <2>2 DEF Totals
<1>5. borrowShares[u] - shares \in Nat
  BY <1>1
<1>6. borrowShares[u] - shares > 0 => collateral[u] > 0
  BY <1>1 DEF IInv, NoDebtWithoutCollateral
<1>7. QED
  BY <1>1, <1>2, <1>4, <1>5, <1>6, DebtStep

LEMMA RepayKeepsInv ==
    ASSUME IInv, NEW u \in Users, RepayAll(u) \/ \E x \in Amounts : Repay(u, x)
    PROVE  IInv'
<1>1. borrowShares[u] \in Nat
  BY DEF IInv, TypeOK
<1>2. CASE RepayAll(u)
  <2>1. PICK rate \in Rates :
          PayBack(u, Accrued(rate), borrowShares[u],
                  ToAssetsUp(borrowShares[u], Accrued(rate).borrow, Accrued(rate).borrowShares))
    BY <1>2 DEF RepayAll
  <2>2. Accrued(rate) \in Totals
    BY AccruedIsMarket DEF IInv
  <2>3. ToAssetsUp(borrowShares[u], Accrued(rate).borrow, Accrued(rate).borrowShares) \in Nat
    BY <1>1, <2>2, Conversions DEF Totals
  <2>4. borrowShares[u] <= borrowShares[u]
    BY <1>1
  <2>5. QED
    BY <1>1, <2>1, <2>2, <2>3, <2>4, PayBackKeepsInv
<1>3. ASSUME NEW x \in Amounts, Repay(u, x) PROVE IInv'
  <2>1. PICK rate \in Rates :
          LET m == Accrued(rate)
              shares == AtMost(ToSharesDown(x, m.borrow, m.borrowShares), borrowShares[u]) IN
          PayBack(u, m, shares, AtMost(x, ToAssetsUp(shares, m.borrow, m.borrowShares)))
    BY <1>3 DEF Repay
  <2>2. PICK m \in Totals : m = Accrued(rate)
    BY AccruedIsMarket DEF IInv
  <2>3. x \in Nat /\ m.borrow \in Nat /\ m.borrowShares \in Nat
    BY ParameterAssumption DEF Totals
  <2>4. ToSharesDown(x, m.borrow, m.borrowShares) \in Nat
    BY <2>3, Conversions
  <2>5. PICK shares \in Nat : /\ shares = AtMost(ToSharesDown(x, m.borrow, m.borrowShares), borrowShares[u])
                              /\ shares <= borrowShares[u]
    BY <1>1, <2>4 DEF AtMost
  <2>6. ToAssetsUp(shares, m.borrow, m.borrowShares) \in Nat
    BY <2>3, Conversions
  <2>7. PICK paid \in Nat : paid = AtMost(x, ToAssetsUp(shares, m.borrow, m.borrowShares))
    BY <2>3, <2>6 DEF AtMost
  <2>8. PayBack(u, m, shares, paid)
    BY <2>1, <2>2, <2>5, <2>7
  <2>9. QED
    BY <2>5, <2>8, PayBackKeepsInv
<1>4. QED
  BY <1>2, <1>3

\* The books after a seizure stay natural numbers, bad debt written off or not.
LEMMA WrittenOffIsTotals ==
    ASSUME NEW m \in Totals, NEW shares \in Nat, shares <= m.borrowShares
    PROVE  WrittenOff(m, shares) \in Totals
<1>1. /\ m.supply \in Nat /\ m.supplyShares \in Nat /\ m.borrow \in Nat /\ m.borrowShares \in Nat
      /\ m.collateral \in Nat
  BY DEF Totals
<1>2. ToAssetsUp(shares, m.borrow, m.borrowShares) \in Nat
  BY <1>1, Conversions
<1>3. PICK bad \in Nat : /\ bad = AtMost(ToAssetsUp(shares, m.borrow, m.borrowShares), m.supply)
                         /\ bad <= m.supply
  BY <1>1, <1>2 DEF AtMost
<1>4. WrittenOff(m, shares) = [m EXCEPT !.borrow = Less(@, bad), !.borrowShares = @ - shares, !.supply = @ - bad]
  BY <1>3 DEF WrittenOff
<1>5. WrittenOff(m, shares) =
        [supply |-> m.supply - bad, supplyShares |-> m.supplyShares, borrow |-> Less(m.borrow, bad),
         borrowShares |-> m.borrowShares - shares, collateral |-> m.collateral]
  BY <1>4 DEF Totals
<1>6. Less(m.borrow, bad) \in Nat /\ m.supply - bad \in Nat /\ m.borrowShares - shares \in Nat
  BY <1>1, <1>3 DEF Less
<1>7. QED
  BY <1>1, <1>5, <1>6 DEF Totals

LEMMA LiquidateKeepsInv ==
    ASSUME IInv, NEW l \in Users, NEW u \in Users, NEW x \in Amounts, Liquidate(l, u, x)
    PROVE  IInv'
<1>1. PICK rate \in Rates :
        LET acc == Accrued(rate)
            paid == SeizurePays(x)
            repaid == ToSharesDown(paid, acc.borrow, acc.borrowShares)
            left == borrowShares[u] - repaid
            m == [acc EXCEPT !.borrow = Less(@, paid), !.borrowShares = @ - repaid, !.collateral = @ - x]
            bad == collateral[u] = x /\ left > 0 IN
        /\ repaid <= borrowShares[u] /\ borrowShares[u] <= acc.borrowShares
        /\ x <= collateral[u] /\ x <= acc.collateral
        /\ borrowShares' = [borrowShares EXCEPT ![u] = IF bad THEN 0 ELSE left]
        /\ collateral' = [collateral EXCEPT ![u] = @ - x]
        /\ market' = IF bad THEN WrittenOff(m, left) ELSE m
        /\ SyncBorrower(u)
        /\ elapsed' = 0
        /\ UNCHANGED <<supplyShares, price>>
  BY DEF Liquidate
<1>2. PICK acc \in Totals : acc = Accrued(rate)
  BY AccruedIsMarket DEF IInv
<1>3. /\ x \in Nat /\ borrowShares \in [Users -> Nat] /\ collateral \in [Users -> Nat]
      /\ supplyShares \in [Users -> Nat]
      /\ acc.supply \in Nat /\ acc.supplyShares \in Nat /\ acc.borrow \in Nat /\ acc.borrowShares \in Nat
      /\ acc.collateral \in Nat
  BY ParameterAssumption DEF IInv, TypeOK, Totals
<1>4. PICK paid \in Nat : paid = SeizurePays(x)
  BY <1>3, PaysNat DEF IInv
<1>5. PICK repaid \in Nat : repaid = ToSharesDown(paid, acc.borrow, acc.borrowShares)
  BY <1>3, Conversions
<1> DEFINE left == borrowShares[u] - repaid
           m == [acc EXCEPT !.borrow = Less(@, paid), !.borrowShares = @ - repaid, !.collateral = @ - x]
           bad == collateral[u] = x /\ left > 0
           n == IF bad THEN 0 ELSE left
<1>6. /\ repaid <= borrowShares[u] /\ borrowShares[u] <= acc.borrowShares
      /\ x <= collateral[u] /\ x <= acc.collateral
      /\ borrowShares' = [borrowShares EXCEPT ![u] = n]
      /\ collateral' = [collateral EXCEPT ![u] = @ - x]
      /\ market' = IF bad THEN WrittenOff(m, left) ELSE m
  BY <1>1, <1>2, <1>4, <1>5
<1>7. left \in Nat /\ n \in Nat /\ left <= acc.borrowShares - repaid
  BY <1>3, <1>6
<1>8. m \in Totals /\ left <= m.borrowShares
  <2>1. PICK b \in Nat, c \in Nat, d \in Nat :
          b = Less(acc.borrow, paid) /\ c = acc.borrowShares - repaid /\ d = acc.collateral - x
    BY <1>3, <1>6, <1>7 DEF Less
  <2>2. m = [acc EXCEPT !.borrow = b, !.borrowShares = c, !.collateral = d]
    BY <2>1
  <2>3. PICK m1 \in Totals : m1 = [acc EXCEPT !.borrow = b]
    BY DEF Totals
  <2>4. PICK m2 \in Totals : m2 = [m1 EXCEPT !.borrowShares = c]
    BY DEF Totals
  <2>5. m2.borrowShares = c
    BY <2>4 DEF Totals
  <2>6. [m2 EXCEPT !.collateral = d] \in Totals /\ [m2 EXCEPT !.collateral = d].borrowShares = c
    BY <2>5 DEF Totals
  <2>7. m = [m2 EXCEPT !.collateral = d]
    BY <2>2, <2>3, <2>4
  <2>8. PICK w : w = m
    OBVIOUS
  <2>9. w \in Totals /\ w.borrowShares = c
    BY <2>6, <2>7, <2>8
  <2> HIDE DEF m
  <2>10. QED
    BY <1>7, <2>1, <2>8, <2>9
<1>9. market' \in Totals
  BY <1>6, <1>7, <1>8, WrittenOffIsTotals
<1>10. /\ collateral' \in [Users -> Nat] /\ collateral'[u] = collateral[u] - x
       /\ \A v \in Users \ {u} : collateral'[v] = collateral[v]
  BY <1>3, <1>6
<1>11. n > 0 => collateral'[u] > 0
  BY <1>3, <1>6, <1>7, <1>10
<1> HIDE DEF n
<1>12. QED
  BY <1>1, <1>3, <1>6, <1>7, <1>9, <1>10, <1>11, DebtStep

-----------------------------------------------------------------------------
(* Theorems *)

LEMMA NextKeepsInv == IInv /\ [Next]_vars => IInv'
<1> SUFFICES ASSUME IInv, [Next]_vars PROVE IInv'
  OBVIOUS
<1>1. CASE Tick
  <2>1. TypeOK'
    BY <1>1 DEF Tick, IInv, TypeOK, positions, debtors
  <2>2. DebtorsListed' /\ NoDebtWithoutCollateral'
    BY <1>1, SameDebtKeepsList DEF Tick, positions
  <2>3. QED
    BY <2>1, <2>2 DEF IInv
<1>2. CASE MovePrice
  <2>1. TypeOK'
    BY <1>2 DEF MovePrice, IInv, TypeOK, positions, debtors
  <2>2. DebtorsListed' /\ NoDebtWithoutCollateral'
    BY <1>2, SameDebtKeepsList DEF MovePrice, positions
  <2>3. QED
    BY <2>1, <2>2 DEF IInv
<1>3. ASSUME NEW u \in Users, WithdrawAll(u) \/ RepayAll(u) PROVE IInv'
  BY <1>3, WithdrawKeepsInv, RepayKeepsInv
<1>4. ASSUME NEW u \in Users, NEW x \in Amounts,
             Supply(u, x) \/ Withdraw(u, x) \/ SupplyCollateral(u, x) \/ WithdrawCollateral(u, x)
             \/ Borrow(u, x) \/ Repay(u, x)
      PROVE  IInv'
  BY <1>4, SupplyKeepsInv, WithdrawKeepsInv, CollateralKeepsInv, BorrowKeepsInv, RepayKeepsInv
<1>5. ASSUME NEW u \in Users, NEW x \in Amounts, NEW l \in Users, Liquidate(l, u, x) PROVE IInv'
  BY <1>5, LiquidateKeepsInv
<1>6. CASE UNCHANGED vars
  <2>1. TypeOK'
    BY <1>6 DEF vars, IInv, TypeOK, positions, debtors
  <2>2. DebtorsListed' /\ NoDebtWithoutCollateral'
    BY <1>6, SameDebtKeepsList DEF vars, positions
  <2>3. QED
    BY <2>1, <2>2 DEF IInv
<1>7. QED
  BY <1>1, <1>2, <1>3, <1>4, <1>5, <1>6 DEF Next

LEMMA InvHolds == Spec => []IInv
<1>1. QED
  BY InitIsInv, NextKeepsInv, PTL DEF Spec

\* The totals and the positions stay natural numbers, so no subtraction of the contract wraps.
THEOREM TypeCorrect == Spec => []TypeOK
<1>1. IInv => TypeOK
  BY DEF IInv
<1>2. QED
  BY <1>1, InvHolds, PTL

\* The list of debtors is the set of debtors, each at its own index, in any order of entering and leaving.
THEOREM ListIsTheDebtors == Spec => []DebtorsListed
<1>1. IInv => DebtorsListed
  BY DEF IInv
<1>2. QED
  BY <1>1, InvHolds, PTL

\* A debt always has collateral behind it, or it has left the books.
THEOREM NoBareDebt == Spec => []NoDebtWithoutCollateral
<1>1. IInv => NoDebtWithoutCollateral
  BY DEF IInv
<1>2. QED
  BY <1>1, InvHolds, PTL

-----------------------------------------------------------------------------
(* Sums over the positions *)

\* A sum follows the one position that changes, up or down.
LEMMA SumGrows ==
    ASSUME NEW f \in [Users -> Nat], NEW g \in [Users -> Nat], NEW u \in Users, NEW n \in Nat,
           IsFiniteSet(Units(f)), g[u] = f[u] + n, \A v \in Users \ {u} : g[v] = f[v]
    PROVE  IsFiniteSet(Units(g)) /\ SumOf(f) \in Nat /\ SumOf(g) = SumOf(f) + n
<1> DEFINE k == f[u]
           new == {u} \X (k + 1 .. k + n)
<1>1. k \in Nat /\ g[u] = k + n
  OBVIOUS
<1>2. IsFiniteSet(new) /\ Cardinality(new) = n
  <2>1. IsFiniteSet({u}) /\ Cardinality({u}) = 1
    BY FS_Singleton
  <2>2. IsFiniteSet(k + 1 .. k + n) /\ Cardinality(k + 1 .. k + n) = n
    <3>1. k + 1 \in Int /\ k + n \in Int
      BY <1>1
    <3>2. /\ IsFiniteSet(k + 1 .. k + n)
          /\ Cardinality(k + 1 .. k + n) = IF k + 1 > k + n THEN 0 ELSE (k + n) - (k + 1) + 1
      BY <3>1, FS_Interval
    <3> HIDE DEF k
    <3>3. QED
      BY <1>1, <3>2
  <2>3. IsFiniteSet(new) /\ Cardinality(new) = Cardinality({u}) * Cardinality(k + 1 .. k + n)
    BY <2>1, <2>2, FS_Product
  <2>4. QED
    BY <2>1, <2>2, <2>3
<1>3. Units(g) = Units(f) \cup new
  <2>1. Units(f) = UNION {{v} \X (1 .. f[v]) : v \in Users}
    BY DEF Units
  <2>2. Units(g) = UNION {{v} \X (1 .. g[v]) : v \in Users}
    BY DEF Units
  <2>3. 1 .. k + n = (1 .. k) \cup (k + 1 .. k + n)
    BY <1>1
  <2>4. {u} \X (1 .. g[u]) = ({u} \X (1 .. f[u])) \cup new
    BY <1>1, <2>3
  <2> HIDE DEF new
  <2>5. QED
    BY <2>1, <2>2, <2>4
<1>4. Units(f) \cap new = {}
  <2>1. \A p \in Units(f) : \E v \in Users : p \in {v} \X (1 .. f[v])
    BY DEF Units
  <2>2. ASSUME NEW p \in Units(f), p \in new PROVE FALSE
    <3>1. PICK v \in Users : p \in {v} \X (1 .. f[v])
      BY <2>1
    <3>2. p[1] = v /\ p[2] \in 1 .. f[v] /\ p[1] = u /\ p[2] \in k + 1 .. k + n
      BY <2>2, <3>1
    <3>3. p[2] \in 1 .. k
      BY <3>2
    <3> HIDE DEF k
    <3>4. QED
      BY <1>1, <3>2, <3>3
  <2>3. QED
    BY <2>2
<1> HIDE DEF new
<1>5. Cardinality(Units(f) \cap new) = 0
  BY <1>4, FS_EmptySet
<1>6. /\ IsFiniteSet(Units(f) \cup new)
      /\ Cardinality(Units(f) \cup new)
           = Cardinality(Units(f)) + Cardinality(new) - Cardinality(Units(f) \cap new)
  BY <1>2, FS_Union
<1>7. Cardinality(Units(f)) \in Nat
  BY FS_CardinalityType
<1>8. QED
  BY <1>2, <1>3, <1>5, <1>6, <1>7 DEF SumOf

LEMMA SumFollows ==
    ASSUME NEW f \in [Users -> Nat], NEW g \in [Users -> Nat], NEW u \in Users,
           NEW a \in Nat, NEW b \in Nat,
           IsFiniteSet(Units(f)), \A v \in Users \ {u} : g[v] = f[v],
           a = SumOf(f), b - a = g[u] - f[u]
    PROVE  IsFiniteSet(Units(g)) /\ b = SumOf(g)
<1>1. f[u] \in Nat /\ g[u] \in Nat
  OBVIOUS
<1>2. CASE g[u] >= f[u]
  <2>1. PICK n \in Nat : n = g[u] - f[u]
    BY <1>1, <1>2
  <2>2. g[u] = f[u] + n /\ b = a + n
    BY <1>1, <2>1
  <2>3. IsFiniteSet(Units(g)) /\ SumOf(g) = SumOf(f) + n
    BY <2>2, SumGrows
  <2>4. QED
    BY <2>2, <2>3
<1>3. CASE ~(g[u] >= f[u])
  <2>1. PICK n \in Nat : n = f[u] - g[u]
    BY <1>1, <1>3
  <2>2. f[u] = g[u] + n /\ a = b + n
    BY <1>1, <2>1
  <2>3. Units(g) \subseteq Units(f)
    <3>1. \A v \in Users : 1 .. g[v] \subseteq 1 .. f[v]
      <4>1. \A v \in Users : g[v] \in Nat /\ f[v] \in Nat /\ g[v] <= f[v]
        BY <1>1, <1>3
      <4>2. QED
        BY <4>1
    <3>2. \A v \in Users : {v} \X (1 .. g[v]) \subseteq {v} \X (1 .. f[v])
      BY <3>1
    <3>3. QED
      BY <3>2 DEF Units
  <2>4. IsFiniteSet(Units(g))
    BY <2>3, FS_Subset
  <2>5. SumOf(g) \in Nat /\ SumOf(f) = SumOf(g) + n
    <3>1. \A p, q \in [Users -> Nat] :
              IsFiniteSet(Units(p)) /\ q[u] = p[u] + n /\ (\A v \in Users \ {u} : q[v] = p[v])
                => SumOf(p) \in Nat /\ SumOf(q) = SumOf(p) + n
      BY SumGrows
    <3>2. \A v \in Users \ {u} : f[v] = g[v]
      OBVIOUS
    <3>3. QED
      BY <2>2, <2>4, <3>1, <3>2
  <2>6. PICK k \in Nat : k = SumOf(g)
    BY <2>5
  <2>7. b = k
    <3>1. b + n = k + n
      BY <2>2, <2>5, <2>6, Zenon
    <3>2. QED
      BY <3>1
  <2>8. QED
    BY <2>4, <2>6, <2>7
<1>4. QED
  BY <1>2, <1>3

-----------------------------------------------------------------------------
(* The books *)

Balances == [loan : Nat, collateral : Nat]

BooksInv ==
    /\ held \in Balances
    /\ IsFiniteSet(Units(supplyShares)) /\ IsFiniteSet(Units(borrowShares)) /\ IsFiniteSet(Units(collateral))
    /\ BooksBalance

\* What a call of one user moves: each total as much as that user's position, and the contract's loan
\* tokens at least as much as what is supplied and not lent out.
Balanced(u) ==
    /\ held' \in Balances
    /\ \A v \in Users \ {u} : /\ supplyShares'[v] = supplyShares[v]
                              /\ borrowShares'[v] = borrowShares[v]
                              /\ collateral'[v] = collateral[v]
    /\ market'.supplyShares - market.supplyShares = supplyShares'[u] - supplyShares[u]
    /\ market'.borrowShares - market.borrowShares = borrowShares'[u] - borrowShares[u]
    /\ market'.collateral - market.collateral = collateral'[u] - collateral[u]
    /\ held'.collateral - held.collateral = market'.collateral - market.collateral
    /\ market'.borrow <= market'.supply
    /\ held'.loan - (market'.supply - market'.borrow) >= held.loan - (market.supply - market.borrow)

LEMMA BalancedKeepsBooks ==
    ASSUME TypeOK, TypeOK', BooksInv, NEW u \in Users, Balanced(u)
    PROVE  BooksInv'
<1>1. /\ supplyShares \in [Users -> Nat] /\ supplyShares' \in [Users -> Nat]
      /\ borrowShares \in [Users -> Nat] /\ borrowShares' \in [Users -> Nat]
      /\ collateral \in [Users -> Nat] /\ collateral' \in [Users -> Nat]
      /\ market \in Totals /\ market' \in Totals /\ held \in Balances /\ held' \in Balances
  BY DEF TypeOK, Totals, BooksInv, Balanced
<1>2. /\ market.supply \in Nat /\ market.supplyShares \in Nat /\ market.borrow \in Nat
      /\ market.borrowShares \in Nat /\ market.collateral \in Nat
      /\ market'.supply \in Nat /\ market'.supplyShares \in Nat /\ market'.borrow \in Nat
      /\ market'.borrowShares \in Nat /\ market'.collateral \in Nat
      /\ held.loan \in Nat /\ held.collateral \in Nat /\ held'.loan \in Nat /\ held'.collateral \in Nat
  BY <1>1 DEF Totals, Balances
<1>3. IsFiniteSet(Units(supplyShares')) /\ market'.supplyShares = SumOf(supplyShares')
  <2>1. /\ IsFiniteSet(Units(supplyShares)) /\ market.supplyShares = SumOf(supplyShares)
        /\ \A v \in Users \ {u} : supplyShares'[v] = supplyShares[v]
        /\ market'.supplyShares - market.supplyShares = supplyShares'[u] - supplyShares[u]
    BY DEF BooksInv, BooksBalance, Balanced
  <2>2. PICK f \in [Users -> Nat], g \in [Users -> Nat] : f = supplyShares /\ g = supplyShares'
    BY <1>1
  <2>3. PICK a \in Nat, b \in Nat : a = market.supplyShares /\ b = market'.supplyShares
    BY <1>2
  <2>4. IsFiniteSet(Units(f)) /\ a = SumOf(f) /\ b - a = g[u] - f[u] /\ \A v \in Users \ {u} : g[v] = f[v]
    BY <2>1, <2>2, <2>3
  <2>5. IsFiniteSet(Units(g)) /\ b = SumOf(g)
    BY <2>4, SumFollows
  <2>6. QED
    BY <2>2, <2>3, <2>5
<1>4. IsFiniteSet(Units(borrowShares')) /\ market'.borrowShares = SumOf(borrowShares')
  <2>1. /\ IsFiniteSet(Units(borrowShares)) /\ market.borrowShares = SumOf(borrowShares)
        /\ \A v \in Users \ {u} : borrowShares'[v] = borrowShares[v]
        /\ market'.borrowShares - market.borrowShares = borrowShares'[u] - borrowShares[u]
    BY DEF BooksInv, BooksBalance, Balanced
  <2>2. PICK f \in [Users -> Nat], g \in [Users -> Nat] : f = borrowShares /\ g = borrowShares'
    BY <1>1
  <2>3. PICK a \in Nat, b \in Nat : a = market.borrowShares /\ b = market'.borrowShares
    BY <1>2
  <2>4. IsFiniteSet(Units(f)) /\ a = SumOf(f) /\ b - a = g[u] - f[u] /\ \A v \in Users \ {u} : g[v] = f[v]
    BY <2>1, <2>2, <2>3
  <2>5. IsFiniteSet(Units(g)) /\ b = SumOf(g)
    BY <2>4, SumFollows
  <2>6. QED
    BY <2>2, <2>3, <2>5
<1>5. IsFiniteSet(Units(collateral')) /\ market'.collateral = SumOf(collateral')
  <2>1. /\ IsFiniteSet(Units(collateral)) /\ market.collateral = SumOf(collateral)
        /\ \A v \in Users \ {u} : collateral'[v] = collateral[v]
        /\ market'.collateral - market.collateral = collateral'[u] - collateral[u]
    BY DEF BooksInv, BooksBalance, Balanced
  <2>2. PICK f \in [Users -> Nat], g \in [Users -> Nat] : f = collateral /\ g = collateral'
    BY <1>1
  <2>3. PICK a \in Nat, b \in Nat : a = market.collateral /\ b = market'.collateral
    BY <1>2
  <2>4. IsFiniteSet(Units(f)) /\ a = SumOf(f) /\ b - a = g[u] - f[u] /\ \A v \in Users \ {u} : g[v] = f[v]
    BY <2>1, <2>2, <2>3
  <2>5. IsFiniteSet(Units(g)) /\ b = SumOf(g)
    BY <2>4, SumFollows
  <2>6. QED
    BY <2>2, <2>3, <2>5
<1>6. held'.collateral = market'.collateral /\ market'.borrow <= market'.supply
  <2>1. /\ held.collateral = market.collateral /\ market'.borrow <= market'.supply
        /\ held'.collateral - held.collateral = market'.collateral - market.collateral
    BY DEF BooksInv, BooksBalance, Balanced
  <2>2. QED
    BY <1>2, <2>1
<1>7. held'.loan >= market'.supply - market'.borrow
  <2>1. /\ held.loan >= market.supply - market.borrow
        /\ held'.loan - (market'.supply - market'.borrow) >= held.loan - (market.supply - market.borrow)
    BY DEF BooksInv, BooksBalance, Balanced
  <2>2. QED
    BY <1>2, <2>1
<1>8. QED
  BY <1>1, <1>3, <1>4, <1>5, <1>6, <1>7 DEF BooksInv, BooksBalance

-----------------------------------------------------------------------------
(* Rounding *)

LEMMA FloorBelow ==
    ASSUME NEW n \in Nat, NEW d \in Nat \ {0}
    PROVE  n \div d \in Nat /\ (n \div d) * d <= n
OBVIOUS

LEMMA CeilingAbove ==
    ASSUME NEW n \in Nat, NEW d \in Nat \ {0}
    PROVE  (n + (d - 1)) \div d \in Nat /\ ((n + (d - 1)) \div d) * d >= n
<1>1. PICK m \in Nat : m = n + (d - 1)
  OBVIOUS
<1>2. m \div d \in Nat /\ (m \div d) * d > m - d
  OBVIOUS
<1>3. (m \div d) * d \in Nat
  BY <1>2
<1>4. QED
  BY <1>1, <1>2, <1>3

\* What leaves the supply is worth no more than the shares that go with it.
LEMMA WorthOfTakeOut ==
    ASSUME NEW a \in Nat, NEW b \in Nat, NEW w \in Nat, NEW shares \in Nat, NEW x \in Nat,
           a <= b, shares <= w, x <= b, x * w <= shares * (b + 1)
    PROVE  (b - x + 1) * w >= (a + 1) * (w - shares)
<1>1. (b - x + 1) * w = (b + 1) * w - x * w
  OBVIOUS
<1>2. (b + 1) * (w - shares) = (b + 1) * w - shares * (b + 1)
  OBVIOUS
<1>3. (a + 1) * (w - shares) <= (b + 1) * (w - shares)
  <2>1. PICK k \in Nat : k = w - shares
    OBVIOUS
  <2>2. (a + 1) * k <= (b + 1) * k
    OBVIOUS
  <2>3. QED
    BY <2>1, <2>2
<1>4. QED
  <2>1. /\ x * w \in Nat /\ shares * (b + 1) \in Nat /\ (b + 1) * w \in Nat
        /\ (a + 1) * (w - shares) \in Int /\ (b - x + 1) * w \in Int
    OBVIOUS
  <2>2. QED
    BY <1>1, <1>2, <1>3, <2>1

LEMMA WorthOfSupply ==
    ASSUME NEW a \in Nat, NEW b \in Nat, NEW w \in Nat, NEW shares \in Nat, NEW x \in Nat,
           a <= b, shares * (b + 1) <= x * w
    PROVE  (b + x + 1) * w >= (a + 1) * (w + shares)
<1>1. (b + x + 1) * w = (b + 1) * w + x * w
  OBVIOUS
<1>2. (b + 1) * (w + shares) = (b + 1) * w + shares * (b + 1)
  OBVIOUS
<1>3. (a + 1) * (w + shares) <= (b + 1) * (w + shares)
  <2>1. PICK k \in Nat : k = w + shares
    OBVIOUS
  <2>2. (a + 1) * k <= (b + 1) * k
    OBVIOUS
  <2>3. QED
    BY <2>1, <2>2
<1>4. QED
  <2>1. /\ x * w \in Nat /\ shares * (b + 1) \in Nat /\ (b + 1) * w \in Nat
        /\ (a + 1) * (w + shares) \in Nat /\ (b + x + 1) * w \in Nat
    OBVIOUS
  <2>2. QED
    BY <1>1, <1>2, <1>3, <2>1

-----------------------------------------------------------------------------
(* What each call does to the books and to the worth of a share *)

KeepsWorth ==
    \/ (market'.supply + 1) * (market.supplyShares + VirtualShares)
          >= (market.supply + 1) * (market'.supplyShares + VirtualShares)
    \/ \E u \in Users : collateral[u] > 0 /\ collateral'[u] = 0 /\ borrowShares[u] > 0

\* The books at the start of a call, interest included.
OpenedBy(m, n) ==
    /\ m \in Totals /\ n \in Nat
    /\ m.supply = market.supply + n /\ m.borrow = market.borrow + n
    /\ m.supplyShares = market.supplyShares /\ m.borrowShares = market.borrowShares
    /\ m.collateral = market.collateral

LEMMA Opens ==
    ASSUME TypeOK, NEW rate \in Rates
    PROVE  \E n \in Nat : OpenedBy(Accrued(rate), n)
BY AccruedIsMarket DEF OpenedBy

LEMMA BooksTyped ==
    ASSUME TypeOK, BooksInv
    PROVE  /\ supplyShares \in [Users -> Nat] /\ borrowShares \in [Users -> Nat] /\ collateral \in [Users -> Nat]
           /\ market \in Totals /\ held \in Balances
           /\ market.supply \in Nat /\ market.supplyShares \in Nat /\ market.borrow \in Nat
           /\ market.borrowShares \in Nat /\ market.collateral \in Nat
           /\ held.loan \in Nat /\ held.collateral \in Nat /\ VirtualShares \in Nat
           /\ market.borrow <= market.supply
BY ParameterAssumption DEF TypeOK, BooksInv, BooksBalance, Totals, Balances

LEMMA SupplyBalanced ==
    ASSUME TypeOK, BooksInv, NEW u \in Users, NEW x \in Amounts, Supply(u, x)
    PROVE  Balanced(u) /\ KeepsWorth
<1>1. PICK rate \in Rates :
      LET m == Accrued(rate)
          shares == ToSharesDown(x, m.supply, m.supplyShares) IN
      /\ supplyShares' = [supplyShares EXCEPT ![u] = @ + shares]
      /\ market' = [m EXCEPT !.supply = @ + x, !.supplyShares = @ + shares]
      /\ PullLoan(u, x)
      /\ UNCHANGED <<borrowShares, collateral>>
  BY DEF Supply
<1>2. PICK m \in Totals, n \in Nat : m = Accrued(rate) /\ OpenedBy(m, n)
  BY Opens DEF OpenedBy
<1>3. /\ x \in Nat
      /\ m.supply \in Nat /\ m.supplyShares \in Nat /\ m.borrow \in Nat /\ m.borrowShares \in Nat /\ m.collateral \in Nat
  BY ParameterAssumption DEF Totals
<1>4. PICK shares \in Nat : shares = ToSharesDown(x, m.supply, m.supplyShares)
  BY <1>3, Conversions
<1>5. /\ supplyShares' = [supplyShares EXCEPT ![u] = @ + shares]
      /\ market' = [m EXCEPT !.supply = @ + x, !.supplyShares = @ + shares]
      /\ held' = [held EXCEPT !.loan = @ + x] /\ UNCHANGED <<borrowShares, collateral>>
  BY <1>1, <1>2, <1>4 DEF PullLoan
<1>6. /\ market'.supply = m.supply + x /\ market'.supplyShares = m.supplyShares + shares
      /\ market'.borrow = m.borrow /\ market'.borrowShares = m.borrowShares /\ market'.collateral = m.collateral
  BY <1>5 DEF Totals
<1>7. held' \in Balances /\ held'.loan = held.loan + x /\ held'.collateral = held.collateral
  BY <1>3, <1>5, BooksTyped DEF Balances
<1>8. /\ \A v \in Users \ {u} : supplyShares'[v] = supplyShares[v]
      /\ supplyShares'[u] = supplyShares[u] + shares /\ supplyShares[u] \in Nat
  BY <1>5, BooksTyped
<1>9. /\ m.supply = market.supply + n /\ m.borrow = market.borrow + n /\ m.supplyShares = market.supplyShares
      /\ m.borrowShares = market.borrowShares /\ m.collateral = market.collateral
  BY <1>2 DEF OpenedBy
<1>10. Balanced(u)
  BY <1>3, <1>5, <1>6, <1>7, <1>8, <1>9, BooksTyped DEF Balanced
<1>11. KeepsWorth
  <2> DEFINE w == m.supplyShares + VirtualShares
  <2>1. w \in Nat /\ x * w \in Nat /\ m.supply + 1 \in Nat \ {0} /\ market.supply \in Nat /\ market.supply <= m.supply
    BY <1>3, <1>9, BooksTyped
  <2>2. shares = (x * w) \div (m.supply + 1)
    BY <1>4 DEF ToSharesDown, MulDivDown
  <2>3. shares * (m.supply + 1) <= x * w
    BY <2>1, <2>2, FloorBelow
  <2> HIDE DEF w
  <2>4. (m.supply + x + 1) * w >= (market.supply + 1) * (w + shares)
    BY <1>3, <2>1, <2>3, WorthOfSupply
  <2>5. market'.supply + 1 = m.supply + x + 1 /\ market.supplyShares + VirtualShares = w
        /\ market'.supplyShares + VirtualShares = w + shares
    BY <1>3, <1>6, <1>9, BooksTyped DEF w
  <2>6. QED
    BY <2>4, <2>5 DEF KeepsWorth
<1>12. QED
  BY <1>10, <1>11

LEMMA TakeOutBalanced ==
    ASSUME TypeOK, BooksInv, NEW u \in Users, NEW m \in Totals, NEW n \in Nat, OpenedBy(m, n),
           NEW shares \in Nat, NEW x \in Nat, TakeOut(u, m, shares, x),
           x * (m.supplyShares + VirtualShares) <= shares * (m.supply + 1)
    PROVE  Balanced(u) /\ KeepsWorth
<1>1. m.supply \in Nat /\ m.supplyShares \in Nat /\ m.borrow \in Nat /\ m.borrowShares \in Nat /\ m.collateral \in Nat
  BY DEF Totals
<1>2. /\ shares <= supplyShares[u] /\ shares <= m.supplyShares /\ x <= m.supply /\ m.borrow <= m.supply - x
      /\ supplyShares' = [supplyShares EXCEPT ![u] = @ - shares]
      /\ market' = [m EXCEPT !.supply = @ - x, !.supplyShares = @ - shares]
      /\ held.loan >= x /\ held' = [held EXCEPT !.loan = @ - x] /\ UNCHANGED <<borrowShares, collateral>>
  BY DEF TakeOut, PushLoan
<1>3. /\ market'.supply = m.supply - x /\ market'.supplyShares = m.supplyShares - shares
      /\ market'.borrow = m.borrow /\ market'.borrowShares = m.borrowShares /\ market'.collateral = m.collateral
  BY <1>2 DEF Totals
<1>4. held' \in Balances /\ held'.loan = held.loan - x /\ held'.collateral = held.collateral
  BY <1>2, BooksTyped DEF Balances
<1>5. /\ \A v \in Users \ {u} : supplyShares'[v] = supplyShares[v]
      /\ supplyShares'[u] = supplyShares[u] - shares /\ supplyShares[u] \in Nat
  BY <1>2, BooksTyped
<1>6. /\ m.supply = market.supply + n /\ m.borrow = market.borrow + n /\ m.supplyShares = market.supplyShares
      /\ m.borrowShares = market.borrowShares /\ m.collateral = market.collateral
  BY DEF OpenedBy
<1>7. Balanced(u)
  BY <1>1, <1>2, <1>3, <1>4, <1>5, <1>6, BooksTyped DEF Balanced
<1>8. KeepsWorth
  <2>1. PICK w \in Nat : w = m.supplyShares + VirtualShares
    BY <1>1, BooksTyped
  <2>2. shares <= w /\ market.supply \in Nat /\ market.supply <= m.supply /\ x * w <= shares * (m.supply + 1)
    BY <1>1, <1>2, <1>6, <2>1, BooksTyped
  <2>3. (m.supply - x + 1) * w >= (market.supply + 1) * (w - shares)
    BY <1>1, <1>2, <2>2, WorthOfTakeOut
  <2>4. market'.supply + 1 = m.supply - x + 1 /\ market.supplyShares + VirtualShares = w
        /\ market'.supplyShares + VirtualShares = w - shares
    BY <1>1, <1>3, <1>6, <2>1, BooksTyped
  <2>5. QED
    BY <2>3, <2>4 DEF KeepsWorth
<1>9. QED
  BY <1>7, <1>8

LEMMA WithdrawBalanced ==
    ASSUME TypeOK, BooksInv, NEW u \in Users, WithdrawAll(u) \/ \E x \in Amounts : Withdraw(u, x)
    PROVE  Balanced(u) /\ KeepsWorth
<1>1. ASSUME NEW x \in Amounts, Withdraw(u, x) PROVE Balanced(u) /\ KeepsWorth
  <2>1. PICK rate \in Rates :
          LET m == Accrued(rate) IN TakeOut(u, m, ToSharesUp(x, m.supply, m.supplyShares), x)
    BY <1>1 DEF Withdraw
  <2>2. PICK m \in Totals, n \in Nat : m = Accrued(rate) /\ OpenedBy(m, n)
    BY Opens DEF OpenedBy
  <2>3. x \in Nat /\ m.supply \in Nat /\ m.supplyShares \in Nat /\ m.supply + 1 \in Nat \ {0}
        /\ m.supplyShares + VirtualShares \in Nat
    BY ParameterAssumption DEF Totals
  <2>4. PICK shares \in Nat : shares = ToSharesUp(x, m.supply, m.supplyShares)
    BY <2>3, Conversions
  <2>5. x * (m.supplyShares + VirtualShares) \in Nat
    BY <2>3
  <2>6. shares * (m.supply + 1) >= x * (m.supplyShares + VirtualShares)
    BY <2>3, <2>4, <2>5, CeilingAbove DEF ToSharesUp, MulDivUp
  <2>7. TakeOut(u, m, shares, x)
    BY <2>1, <2>2, <2>4
  <2>8. x * (m.supplyShares + VirtualShares) <= shares * (m.supply + 1)
    <3>1. shares * (m.supply + 1) \in Nat
      BY <2>3
    <3>2. QED
      BY <2>5, <2>6, <3>1
  <2>9. QED
    BY <2>2, <2>3, <2>7, <2>8, TakeOutBalanced
<1>2. CASE WithdrawAll(u)
  <2>1. PICK rate \in Rates :
          LET m == Accrued(rate) IN
          TakeOut(u, m, supplyShares[u], ToAssetsDown(supplyShares[u], m.supply, m.supplyShares))
    BY <1>2 DEF WithdrawAll
  <2>2. PICK m \in Totals, n \in Nat : m = Accrued(rate) /\ OpenedBy(m, n)
    BY Opens DEF OpenedBy
  <2>3. m.supply \in Nat /\ m.supplyShares \in Nat /\ m.supply + 1 \in Nat
        /\ m.supplyShares + VirtualShares \in Nat \ {0}
    BY ParameterAssumption DEF Totals
  <2>4. PICK shares \in Nat : shares = supplyShares[u]
    BY BooksTyped
  <2>5. PICK x \in Nat : x = ToAssetsDown(shares, m.supply, m.supplyShares)
    BY <2>3, Conversions
  <2>6. shares * (m.supply + 1) \in Nat
    BY <2>3
  <2>7. x * (m.supplyShares + VirtualShares) <= shares * (m.supply + 1)
    BY <2>3, <2>5, <2>6, FloorBelow DEF ToAssetsDown, MulDivDown
  <2>8. TakeOut(u, m, shares, x)
    BY <2>1, <2>2, <2>4, <2>5
  <2>9. QED
    BY <2>2, <2>7, <2>8, TakeOutBalanced
<1>3. QED
  BY <1>1, <1>2

\* A call that leaves the supply as interest left it, or larger, and no share with it.
LEMMA SupplyStays ==
    ASSUME TypeOK, BooksInv, market' \in Totals, market'.supplyShares = market.supplyShares,
           market'.supply >= market.supply
    PROVE  KeepsWorth
<1>1. PICK a \in Nat, b \in Nat, w \in Nat :
        a = market.supply + 1 /\ b = market'.supply + 1 /\ w = market.supplyShares + VirtualShares
  BY BooksTyped DEF Totals
<1>2. a <= b
  BY <1>1, BooksTyped DEF Totals
<1>3. b * w >= a * w
  BY <1>2
<1>4. QED
  BY <1>1, <1>3 DEF KeepsWorth

LEMMA CollateralBalanced ==
    ASSUME TypeOK, BooksInv, NEW u \in Users, NEW x \in Amounts,
           SupplyCollateral(u, x) \/ WithdrawCollateral(u, x)
    PROVE  Balanced(u) /\ KeepsWorth
<1>1. x \in Nat /\ collateral[u] \in Nat
  BY ParameterAssumption, BooksTyped
<1>2. CASE SupplyCollateral(u, x)
  <2>1. /\ collateral' = [collateral EXCEPT ![u] = @ + x] /\ market' = [market EXCEPT !.collateral = @ + x]
        /\ held' = [held EXCEPT !.collateral = @ + x] /\ UNCHANGED <<supplyShares, borrowShares>>
    BY <1>2 DEF SupplyCollateral
  <2>2. /\ market' \in Totals /\ market'.supply = market.supply /\ market'.supplyShares = market.supplyShares
        /\ market'.borrow = market.borrow /\ market'.borrowShares = market.borrowShares
        /\ market'.collateral = market.collateral + x
    BY <1>1, <2>1, BooksTyped DEF Totals
  <2>3. held' \in Balances /\ held'.loan = held.loan /\ held'.collateral = held.collateral + x
    BY <1>1, <2>1, BooksTyped DEF Balances
  <2>4. (\A v \in Users \ {u} : collateral'[v] = collateral[v]) /\ collateral'[u] = collateral[u] + x
    BY <2>1, BooksTyped
  <2>5. Balanced(u)
    BY <1>1, <2>1, <2>2, <2>3, <2>4, BooksTyped DEF Balanced
  <2>6. market'.supply >= market.supply
    BY <2>2, BooksTyped
  <2>7. QED
    BY <2>2, <2>5, <2>6, SupplyStays
<1>3. CASE WithdrawCollateral(u, x)
  <2>1. PICK rate \in Rates :
          LET m == Accrued(rate) IN
          /\ x <= collateral[u] /\ x <= m.collateral
          /\ collateral' = [collateral EXCEPT ![u] = @ - x]
          /\ market' = [m EXCEPT !.collateral = @ - x]
          /\ held' = [held EXCEPT !.collateral = @ - x]
          /\ UNCHANGED <<supplyShares, borrowShares>>
    BY <1>3 DEF WithdrawCollateral
  <2>2. PICK m \in Totals, n \in Nat : m = Accrued(rate) /\ OpenedBy(m, n)
    BY Opens DEF OpenedBy
  <2>3. /\ m.supply \in Nat /\ m.supplyShares \in Nat /\ m.borrow \in Nat /\ m.borrowShares \in Nat
        /\ m.collateral \in Nat
        /\ m.supply = market.supply + n /\ m.borrow = market.borrow + n /\ m.supplyShares = market.supplyShares
        /\ m.borrowShares = market.borrowShares /\ m.collateral = market.collateral
    BY <2>2 DEF Totals, OpenedBy
  <2>4. /\ x <= collateral[u] /\ x <= m.collateral
        /\ collateral' = [collateral EXCEPT ![u] = @ - x] /\ market' = [m EXCEPT !.collateral = @ - x]
        /\ held' = [held EXCEPT !.collateral = @ - x] /\ UNCHANGED <<supplyShares, borrowShares>>
    BY <2>1, <2>2
  <2>5. /\ market' \in Totals /\ market'.supply = m.supply /\ market'.supplyShares = m.supplyShares
        /\ market'.borrow = m.borrow /\ market'.borrowShares = m.borrowShares
        /\ market'.collateral = m.collateral - x
    BY <1>1, <2>3, <2>4 DEF Totals
  <2>6. held.collateral = market.collateral
    BY DEF BooksInv, BooksBalance
  <2>7. held' \in Balances /\ held'.loan = held.loan /\ held'.collateral = held.collateral - x
    BY <1>1, <2>3, <2>4, <2>6, BooksTyped DEF Balances
  <2>8. (\A v \in Users \ {u} : collateral'[v] = collateral[v]) /\ collateral'[u] = collateral[u] - x
    BY <2>4, BooksTyped
  <2>9. Balanced(u)
    BY <1>1, <2>3, <2>4, <2>5, <2>7, <2>8, BooksTyped DEF Balanced
  <2>10. market'.supplyShares = market.supplyShares /\ market'.supply >= market.supply
    BY <2>3, <2>5, BooksTyped
  <2>11. QED
    BY <2>5, <2>9, <2>10, SupplyStays
<1>4. QED
  BY <1>2, <1>3

LEMMA BorrowBalanced ==
    ASSUME TypeOK, BooksInv, NEW u \in Users, NEW x \in Amounts, Borrow(u, x)
    PROVE  Balanced(u) /\ KeepsWorth
<1>1. PICK rate \in Rates :
        LET acc == Accrued(rate)
            shares == ToSharesUp(x, acc.borrow, acc.borrowShares)
            m == [acc EXCEPT !.borrow = @ + x, !.borrowShares = @ + shares] IN
        /\ m.borrow <= m.supply
        /\ borrowShares' = [borrowShares EXCEPT ![u] = @ + shares]
        /\ market' = m
        /\ PushLoan(u, x)
        /\ UNCHANGED <<supplyShares, collateral>>
  BY DEF Borrow
<1>2. PICK acc \in Totals, n \in Nat : acc = Accrued(rate) /\ OpenedBy(acc, n)
  BY Opens DEF OpenedBy
<1>3. /\ acc.supply \in Nat /\ acc.supplyShares \in Nat /\ acc.borrow \in Nat /\ acc.borrowShares \in Nat
      /\ acc.collateral \in Nat
      /\ acc.supply = market.supply + n /\ acc.borrow = market.borrow + n
      /\ acc.supplyShares = market.supplyShares /\ acc.borrowShares = market.borrowShares
      /\ acc.collateral = market.collateral
      /\ x \in Nat
  BY <1>2, ParameterAssumption DEF Totals, OpenedBy
<1>4. PICK shares \in Nat : shares = ToSharesUp(x, acc.borrow, acc.borrowShares)
  BY <1>3, Conversions
<1>5. /\ market' = [acc EXCEPT !.borrow = @ + x, !.borrowShares = @ + shares]
      /\ market'.borrow <= market'.supply
      /\ borrowShares' = [borrowShares EXCEPT ![u] = @ + shares]
      /\ held.loan >= x /\ held' = [held EXCEPT !.loan = @ - x]
      /\ UNCHANGED <<supplyShares, collateral>>
  BY <1>1, <1>2, <1>4 DEF PushLoan
<1>6. /\ market' \in Totals /\ market'.supply = acc.supply /\ market'.supplyShares = acc.supplyShares
      /\ market'.borrow = acc.borrow + x /\ market'.borrowShares = acc.borrowShares + shares
      /\ market'.collateral = acc.collateral
  <2>1. market' = [supply |-> acc.supply, supplyShares |-> acc.supplyShares, borrow |-> acc.borrow + x,
                   borrowShares |-> acc.borrowShares + shares, collateral |-> acc.collateral]
    BY <1>5 DEF Totals
  <2>2. acc.borrow + x \in Nat /\ acc.borrowShares + shares \in Nat
    BY <1>3
  <2>3. QED
    BY <1>3, <2>1, <2>2 DEF Totals
<1>7. held' \in Balances /\ held'.loan = held.loan - x /\ held'.collateral = held.collateral
  BY <1>3, <1>5, BooksTyped DEF Balances
<1>8. /\ \A v \in Users \ {u} : borrowShares'[v] = borrowShares[v]
      /\ borrowShares'[u] = borrowShares[u] + shares /\ borrowShares[u] \in Nat
  BY <1>5, BooksTyped
<1>9. Balanced(u)
  BY <1>3, <1>5, <1>6, <1>7, <1>8, BooksTyped DEF Balanced
<1>10. market'.supplyShares = market.supplyShares /\ market'.supply >= market.supply
  BY <1>3, <1>6, BooksTyped
<1>11. QED
  BY <1>6, <1>9, <1>10, SupplyStays

LEMMA PayBackBalanced ==
    ASSUME TypeOK, BooksInv, NEW u \in Users, NEW m \in Totals, NEW n \in Nat, OpenedBy(m, n),
           NEW shares \in Nat, NEW x \in Nat, shares <= borrowShares[u], PayBack(u, m, shares, x)
    PROVE  Balanced(u) /\ KeepsWorth
<1>1. /\ m.supply \in Nat /\ m.supplyShares \in Nat /\ m.borrow \in Nat /\ m.borrowShares \in Nat
      /\ m.collateral \in Nat
      /\ m.supply = market.supply + n /\ m.borrow = market.borrow + n /\ m.supplyShares = market.supplyShares
      /\ m.borrowShares = market.borrowShares /\ m.collateral = market.collateral
  BY DEF Totals, OpenedBy
<1>2. /\ shares <= m.borrowShares
      /\ borrowShares' = [borrowShares EXCEPT ![u] = @ - shares]
      /\ market' = [m EXCEPT !.borrow = Less(@, x), !.borrowShares = @ - shares]
      /\ held' = [held EXCEPT !.loan = @ + x] /\ UNCHANGED <<supplyShares, collateral>>
  BY DEF PayBack, PullLoan
<1>3. PICK b \in Nat : b = Less(m.borrow, x) /\ b <= m.borrow /\ b >= m.borrow - x
  BY <1>1 DEF Less
<1>4. /\ market' \in Totals /\ market'.supply = m.supply /\ market'.supplyShares = m.supplyShares
      /\ market'.borrow = b /\ market'.borrowShares = m.borrowShares - shares
      /\ market'.collateral = m.collateral
  <2>1. market' = [supply |-> m.supply, supplyShares |-> m.supplyShares, borrow |-> b,
                   borrowShares |-> m.borrowShares - shares, collateral |-> m.collateral]
    BY <1>2, <1>3 DEF Totals
  <2>2. m.borrowShares - shares \in Nat
    BY <1>1, <1>2
  <2>3. QED
    BY <1>1, <2>1, <2>2 DEF Totals
<1>5. held' \in Balances /\ held'.loan = held.loan + x /\ held'.collateral = held.collateral
  BY <1>2, BooksTyped DEF Balances
<1>6. /\ \A v \in Users \ {u} : borrowShares'[v] = borrowShares[v]
      /\ borrowShares'[u] = borrowShares[u] - shares /\ borrowShares[u] \in Nat
  BY <1>2, BooksTyped
<1>7. Balanced(u)
  BY <1>1, <1>2, <1>3, <1>4, <1>5, <1>6, BooksTyped DEF Balanced
<1>8. market'.supplyShares = market.supplyShares /\ market'.supply >= market.supply
  BY <1>1, <1>4, BooksTyped
<1>9. QED
  BY <1>4, <1>7, <1>8, SupplyStays

LEMMA RepayBalanced ==
    ASSUME TypeOK, BooksInv, NEW u \in Users, RepayAll(u) \/ \E x \in Amounts : Repay(u, x)
    PROVE  Balanced(u) /\ KeepsWorth
<1>1. borrowShares[u] \in Nat
  BY BooksTyped
<1>2. CASE RepayAll(u)
  <2>1. PICK rate \in Rates :
          LET m == Accrued(rate) IN
          PayBack(u, m, borrowShares[u], ToAssetsUp(borrowShares[u], m.borrow, m.borrowShares))
    BY <1>2 DEF RepayAll
  <2>2. PICK m \in Totals, n \in Nat : m = Accrued(rate) /\ OpenedBy(m, n)
    BY Opens DEF OpenedBy
  <2>3. PICK shares \in Nat : shares = borrowShares[u] /\ shares <= borrowShares[u]
    BY <1>1
  <2>4. PICK x \in Nat : x = ToAssetsUp(shares, m.borrow, m.borrowShares)
    BY Conversions DEF Totals
  <2>5. PayBack(u, m, shares, x)
    BY <2>1, <2>2, <2>3, <2>4
  <2>6. QED
    BY <2>2, <2>3, <2>5, PayBackBalanced
<1>3. ASSUME NEW x \in Amounts, Repay(u, x) PROVE Balanced(u) /\ KeepsWorth
  <2>1. PICK rate \in Rates :
          LET m == Accrued(rate)
              shares == AtMost(ToSharesDown(x, m.borrow, m.borrowShares), borrowShares[u]) IN
          PayBack(u, m, shares, AtMost(x, ToAssetsUp(shares, m.borrow, m.borrowShares)))
    BY <1>3 DEF Repay
  <2>2. PICK m \in Totals, n \in Nat : m = Accrued(rate) /\ OpenedBy(m, n)
    BY Opens DEF OpenedBy
  <2>3. x \in Nat /\ m.borrow \in Nat /\ m.borrowShares \in Nat
    BY ParameterAssumption DEF Totals
  <2>4. ToSharesDown(x, m.borrow, m.borrowShares) \in Nat
    BY <2>3, Conversions
  <2>5. PICK shares \in Nat : /\ shares = AtMost(ToSharesDown(x, m.borrow, m.borrowShares), borrowShares[u])
                              /\ shares <= borrowShares[u]
    BY <1>1, <2>4 DEF AtMost
  <2>6. ToAssetsUp(shares, m.borrow, m.borrowShares) \in Nat
    BY <2>3, Conversions
  <2>7. PICK paid \in Nat : paid = AtMost(x, ToAssetsUp(shares, m.borrow, m.borrowShares))
    BY <2>3, <2>6 DEF AtMost
  <2>8. PayBack(u, m, shares, paid)
    BY <2>1, <2>2, <2>5, <2>7
  <2>9. QED
    BY <2>2, <2>5, <2>8, PayBackBalanced
<1>4. QED
  BY <1>2, <1>3

\* A seizure pays for the debt it takes over, and debt that is written off leaves both sides.
LEMMA LiquidateBalanced ==
    ASSUME TypeOK, BooksInv, NEW l \in Users, NEW u \in Users, NEW x \in Amounts, Liquidate(l, u, x)
    PROVE  Balanced(u) /\ KeepsWorth
<1>1. PICK rate \in Rates :
        LET acc == Accrued(rate)
            paid == SeizurePays(x)
            repaid == ToSharesDown(paid, acc.borrow, acc.borrowShares)
            left == borrowShares[u] - repaid
            m == [acc EXCEPT !.borrow = Less(@, paid), !.borrowShares = @ - repaid, !.collateral = @ - x]
            bad == collateral[u] = x /\ left > 0 IN
        /\ repaid <= borrowShares[u] /\ borrowShares[u] <= acc.borrowShares
        /\ x <= collateral[u] /\ x <= acc.collateral
        /\ borrowShares' = [borrowShares EXCEPT ![u] = IF bad THEN 0 ELSE left]
        /\ collateral' = [collateral EXCEPT ![u] = @ - x]
        /\ market' = IF bad THEN WrittenOff(m, left) ELSE m
        /\ held' = [held EXCEPT !.loan = @ + paid, !.collateral = @ - x]
        /\ UNCHANGED supplyShares
  BY DEF Liquidate
<1>2. PICK acc \in Totals, n \in Nat : acc = Accrued(rate) /\ OpenedBy(acc, n)
  BY Opens DEF OpenedBy
<1>3. /\ acc.supply \in Nat /\ acc.supplyShares \in Nat /\ acc.borrow \in Nat /\ acc.borrowShares \in Nat
      /\ acc.collateral \in Nat
      /\ acc.supply = market.supply + n /\ acc.borrow = market.borrow + n
      /\ acc.supplyShares = market.supplyShares /\ acc.borrowShares = market.borrowShares
      /\ acc.collateral = market.collateral
      /\ x \in Nat /\ x > 0 /\ borrowShares[u] \in Nat /\ collateral[u] \in Nat
  BY <1>2, ParameterAssumption, BooksTyped DEF Totals, OpenedBy
<1>4. PICK paid \in Nat : paid = SeizurePays(x)
  BY <1>3, PaysNat
<1>5. PICK repaid \in Nat : repaid = ToSharesDown(paid, acc.borrow, acc.borrowShares)
  BY <1>3, Conversions
<1>6. repaid <= borrowShares[u] /\ borrowShares[u] <= acc.borrowShares /\ x <= collateral[u] /\ x <= acc.collateral
  BY <1>1, <1>2, <1>4, <1>5
<1>7. PICK left \in Nat, b \in Nat, c \in Nat, d \in Nat :
        /\ left = borrowShares[u] - repaid /\ b = Less(acc.borrow, paid) /\ b <= acc.borrow /\ b >= acc.borrow - paid
        /\ c = acc.borrowShares - repaid /\ d = acc.collateral - x
  <2>1. \E b \in Nat : b = Less(acc.borrow, paid) /\ b <= acc.borrow /\ b >= acc.borrow - paid
    BY <1>3 DEF Less
  <2>2. borrowShares[u] - repaid \in Nat /\ acc.borrowShares - repaid \in Nat /\ acc.collateral - x \in Nat
    BY <1>3, <1>6
  <2>3. QED
    BY <2>1, <2>2
<1>8. PICK m : m = [acc EXCEPT !.borrow = b, !.borrowShares = c, !.collateral = d]
  OBVIOUS
<1>9. /\ borrowShares' = [borrowShares EXCEPT ![u] = IF collateral[u] = x /\ left > 0 THEN 0 ELSE left]
      /\ collateral' = [collateral EXCEPT ![u] = @ - x]
      /\ market' = IF collateral[u] = x /\ left > 0 THEN WrittenOff(m, left) ELSE m
      /\ held' = [held EXCEPT !.loan = @ + paid, !.collateral = @ - x]
      /\ UNCHANGED supplyShares
  BY <1>1, <1>2, <1>4, <1>5, <1>7, <1>8
<1>10. m = [supply |-> acc.supply, supplyShares |-> acc.supplyShares, borrow |-> b, borrowShares |-> c,
            collateral |-> d]
  BY <1>8 DEF Totals
<1>11. /\ m \in Totals /\ m.supply = acc.supply /\ m.supplyShares = acc.supplyShares /\ m.borrow = b
       /\ m.borrowShares = c /\ m.collateral = d
  BY <1>3, <1>10 DEF Totals
<1>12. held' \in Balances /\ held'.loan = held.loan + paid /\ held'.collateral = held.collateral - x
  <2>1. held.collateral = acc.collateral
    BY <1>3 DEF BooksInv, BooksBalance
  <2>2. held.collateral - x \in Nat /\ held.loan + paid \in Nat
    BY <1>3, <1>6, <2>1, BooksTyped
  <2>3. held' = [loan |-> held.loan + paid, collateral |-> held.collateral - x]
    BY <1>9, BooksTyped DEF Balances
  <2>4. QED
    BY <2>2, <2>3 DEF Balances
<1>13. /\ \A v \in Users \ {u} : borrowShares'[v] = borrowShares[v] /\ collateral'[v] = collateral[v]
       /\ borrowShares'[u] = IF collateral[u] = x /\ left > 0 THEN 0 ELSE left
       /\ collateral'[u] = collateral[u] - x
  BY <1>9, BooksTyped
<1>14. CASE ~(collateral[u] = x /\ left > 0)
  <2>1. market' = m /\ borrowShares'[u] = left
    BY <1>9, <1>13, <1>14
  <2>2. Balanced(u)
    BY <1>3, <1>6, <1>7, <1>9, <1>11, <1>12, <1>13, <2>1, BooksTyped DEF Balanced
  <2>3. market' \in Totals /\ market'.supplyShares = market.supplyShares /\ market'.supply >= market.supply
    BY <1>3, <1>11, <2>1, BooksTyped
  <2>4. QED
    BY <2>2, <2>3, SupplyStays
<1>15. CASE collateral[u] = x /\ left > 0
  <2>1. market' = WrittenOff(m, left) /\ borrowShares'[u] = 0 /\ collateral'[u] = 0
    BY <1>3, <1>9, <1>13, <1>15
  <2>2. ToAssetsUp(left, m.borrow, m.borrowShares) \in Nat
    BY <1>7, <1>11, Conversions
  <2>3. PICK bad \in Nat : /\ bad = AtMost(ToAssetsUp(left, m.borrow, m.borrowShares), m.supply)
                           /\ bad <= m.supply
    BY <1>3, <1>11, <2>2 DEF AtMost
  <2>4. PICK r \in Nat, q \in Nat, t \in Nat :
          /\ r = Less(b, bad) /\ r >= b - bad /\ (r > 0 => r = b - bad) /\ q = c - left /\ t = acc.supply - bad
    BY <1>3, <1>6, <1>7, <1>11, <2>3 DEF Less
  <2>5. market' = [m EXCEPT !.borrow = r, !.borrowShares = q, !.supply = t]
    BY <1>11, <2>1, <2>3, <2>4 DEF WrittenOff
  <2>6. market' = [supply |-> t, supplyShares |-> m.supplyShares, borrow |-> r, borrowShares |-> q,
                   collateral |-> m.collateral]
    BY <1>11, <2>5 DEF Totals
  <2>7. /\ market'.supply = t /\ market'.supplyShares = acc.supplyShares /\ market'.borrow = r
        /\ market'.borrowShares = q /\ market'.collateral = d
    BY <1>11, <2>6
  <2>8. market.borrow <= market.supply
    BY BooksTyped
  <2>9. r <= t
    BY <1>3, <1>7, <2>3, <2>4, <2>8, BooksTyped
  <2>10. market'.borrowShares - market.borrowShares = borrowShares'[u] - borrowShares[u]
    BY <1>3, <1>7, <2>1, <2>4, <2>7
  <2>11. /\ market'.collateral - market.collateral = collateral'[u] - collateral[u]
         /\ held'.collateral - held.collateral = market'.collateral - market.collateral
    BY <1>3, <1>7, <1>12, <1>13, <2>7, BooksTyped
  <2>12. market'.supplyShares - market.supplyShares = supplyShares'[u] - supplyShares[u]
    BY <1>3, <1>9, <2>7, BooksTyped
  <2>13. held'.loan - (market'.supply - market'.borrow) >= held.loan - (market.supply - market.borrow)
    BY <1>3, <1>7, <1>12, <2>4, <2>7, BooksTyped
  <2>14. Balanced(u)
    BY <1>9, <1>12, <1>13, <2>7, <2>9, <2>10, <2>11, <2>12, <2>13 DEF Balanced
  <2>15. KeepsWorth
    BY <1>3, <1>7, <1>15, <2>1 DEF KeepsWorth
  <2>16. QED
    BY <2>14, <2>15
<1>16. QED
  BY <1>14, <1>15

\* Every step is a call of one user, or leaves the books alone.
LEMMA StepIsBalanced ==
    ASSUME TypeOK, BooksInv, [Next]_vars
    PROVE  \/ (\E u \in Users : Balanced(u)) /\ KeepsWorth
           \/ UNCHANGED <<supplyShares, borrowShares, collateral, market, held>>
<1>1. CASE Tick \/ MovePrice \/ UNCHANGED vars
  BY <1>1 DEF Tick, MovePrice, vars, positions, tokens
<1>2. ASSUME NEW u \in Users, WithdrawAll(u) \/ RepayAll(u) PROVE Balanced(u) /\ KeepsWorth
  BY <1>2, WithdrawBalanced, RepayBalanced
<1>3. ASSUME NEW u \in Users, NEW x \in Amounts,
             Supply(u, x) \/ Withdraw(u, x) \/ SupplyCollateral(u, x) \/ WithdrawCollateral(u, x)
             \/ Borrow(u, x) \/ Repay(u, x)
      PROVE  Balanced(u) /\ KeepsWorth
  BY <1>3, SupplyBalanced, WithdrawBalanced, CollateralBalanced, BorrowBalanced, RepayBalanced
<1>4. ASSUME NEW u \in Users, NEW x \in Amounts, NEW l \in Users, Liquidate(l, u, x)
      PROVE  Balanced(u) /\ KeepsWorth
  BY <1>4, LiquidateBalanced
<1>5. QED
  BY <1>1, <1>2, <1>3, <1>4 DEF Next

LEMMA BooksStep == TypeOK /\ BooksInv /\ TypeOK' /\ [Next]_vars => BooksInv'
<1> SUFFICES ASSUME TypeOK, BooksInv, TypeOK', [Next]_vars PROVE BooksInv'
  OBVIOUS
<1>1. CASE UNCHANGED <<supplyShares, borrowShares, collateral, market, held>>
  BY <1>1 DEF BooksInv, BooksBalance, SumOf, Units
<1>2. CASE \E u \in Users : Balanced(u)
  BY <1>2, BalancedKeepsBooks
<1>3. QED
  BY <1>1, <1>2, StepIsBalanced

LEMMA BooksStart == Init => BooksInv
<1> SUFFICES ASSUME Init PROVE BooksInv
  OBVIOUS
<1>1. Units(Zero) = {}
  BY DEF Units, Zero
<1>2. IsFiniteSet(Units(Zero)) /\ SumOf(Zero) = 0
  BY <1>1, FS_EmptySet DEF SumOf
<1>3. QED
  BY <1>2 DEF Init, BooksInv, BooksBalance, Balances

\* In any order of calls, roundings, price moves and write-offs the totals are the sums of the
\* positions, and what is supplied and not lent out is in the contract.
THEOREM BooksAreKept == Spec => []BooksBalance
<1>1. BooksInv => BooksBalance
  BY DEF BooksInv
<1>2. IInv => TypeOK
  BY DEF IInv
<1>3. QED
  BY <1>1, <1>2, BooksStart, InitIsInv, NextKeepsInv, BooksStep, PTL DEF Spec

\* Every conversion rounds for the market: a share of the supply never loses worth to another's call,
\* only to debt that is written off.
THEOREM WorthIsKept == Spec => SharesKeepTheirWorth
<1>1. TypeOK /\ BooksInv /\ [Next]_vars =>
        [\/ (market'.supply + 1) * (market.supplyShares + VirtualShares)
              >= (market.supply + 1) * (market'.supplyShares + VirtualShares)
         \/ \E u \in Users : collateral[u] > 0 /\ collateral'[u] = 0 /\ borrowShares[u] > 0]_vars
  <2> SUFFICES ASSUME TypeOK, BooksInv, [Next]_vars PROVE KeepsWorth
    BY DEF KeepsWorth
  <2>1. CASE KeepsWorth
    BY <2>1
  <2>2. CASE UNCHANGED <<supplyShares, borrowShares, collateral, market, held>>
    <3>1. market' \in Totals /\ market'.supplyShares = market.supplyShares /\ market'.supply >= market.supply
      BY <2>2, BooksTyped
    <3>2. QED
      BY <3>1, SupplyStays
  <2>3. QED
    BY <2>1, <2>2, StepIsBalanced
<1>2. IInv => TypeOK
  BY DEF IInv
<1>3. QED
  BY <1>1, <1>2, BooksStart, InitIsInv, NextKeepsInv, BooksStep, PTL DEF Spec, SharesKeepTheirWorth
=============================================================================
