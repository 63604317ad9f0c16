---------------------------- MODULE SimpleLending ----------------------------
(***************************************************************************)
(* One market of the environment's lending contract (contracts/            *)
(* SimpleLending.sol): suppliers and borrowers hold shares of totals that  *)
(* grow with interest, every conversion rounds in the market's favour, a   *)
(* borrower below the health threshold can be liquidated, and debt that    *)
(* outlives its collateral is taken off the suppliers.  A call that        *)
(* reverts changes nothing, so it is a step the contract does not take;    *)
(* a subtraction below zero is one of the reasons.                         *)
(***************************************************************************)
EXTENDS Integers, Sequences, FiniteSets

CONSTANTS
    Users,
    Amounts,          \* amounts a caller may name
    Prices,           \* what the market's oracle may answer, per unit of collateral
    Rates,            \* what its rate model may answer per tick, 0 included: a failed call reads 0
    WAD,              \* the fixed-point unit of rates and thresholds
    VirtualShares,    \* VIRTUAL_SHARES, one per VIRTUAL_ASSETS
    Lltv,             \* params.lltv
    Cursor,           \* LIQUIDATION_CURSOR
    MaxIncentive,     \* MAX_LIQUIDATION_INCENTIVE_FACTOR
    LoanEach,         \* bound: loan tokens of each user at first
    CollateralEach,   \* bound: collateral tokens of each user at first
    MaxTime,          \* bound: ticks
    MaxMoves,         \* bound: price changes
    MaxShares         \* bound: shares of either side; amounts stay far below their 128 bits

ASSUME ParameterAssumption ==
    /\ WAD \in Nat \ {0} /\ VirtualShares \in Nat \ {0}
    /\ Lltv \in 0 .. WAD - 1 /\ Cursor \in 0 .. WAD - 1
    /\ MaxIncentive \in Nat \ {0}
    /\ Amounts \subseteq Nat \ {0} /\ Prices \subseteq Nat /\ Rates \subseteq Nat

VARIABLES
    supplyShares,  \* position[user]
    borrowShares,
    collateral,
    market,        \* totals of assets and shares
    borrowers,     \* _borrowers: the current debtors
    borrowerIndex, \* _borrowerIndex: 1-based, 0 for no debtor
    loan,          \* loan tokens of each user, and what the contract holds
    pledged,       \* collateral tokens of each user, and what the contract holds
    held,          \* the contract's own balances of both
    price,         \* the oracle's answer
    elapsed,       \* ticks since market.lastUpdate
    now,
    moves

positions == <<supplyShares, borrowShares, collateral>>
tokens == <<loan, pledged, held>>
debtors == <<borrowers, borrowerIndex>>
vars == <<positions, market, debtors, tokens, price, elapsed, now, moves>>

Zero == [u \in Users |-> 0]

Init ==
    /\ supplyShares = Zero /\ borrowShares = Zero /\ collateral = Zero
    /\ market = [supply |-> 0, supplyShares |-> 0, borrow |-> 0, borrowShares |-> 0, collateral |-> 0]
    /\ borrowers = <<>>
    /\ borrowerIndex = Zero
    /\ loan = [u \in Users |-> LoanEach]
    /\ pledged = [u \in Users |-> CollateralEach]
    /\ held = [loan |-> 0, collateral |-> 0]
    /\ price \in Prices
    /\ elapsed = 0
    /\ now = 0
    /\ moves = 0

-----------------------------------------------------------------------------
(* Fixed-point arithmetic *)

MulDivDown(a, b, d) == (a * b) \div d
MulDivUp(a, b, d) == (a * b + (d - 1)) \div d

\* Mutant: a withdrawal burns the shares rounded down.
ToSharesUpRoundedDown(assets, total, shares) == MulDivDown(assets, shares + VirtualShares, total + 1)

ToSharesDown(assets, total, shares) == MulDivDown(assets, shares + VirtualShares, total + 1)
ToSharesUp(assets, total, shares) == MulDivUp(assets, shares + VirtualShares, total + 1)
ToAssetsDown(n, total, shares) == MulDivDown(n, total + 1, shares + VirtualShares)
ToAssetsUp(n, total, shares) == MulDivUp(n, total + 1, shares + VirtualShares)

Less(a, b) == IF a > b THEN a - b ELSE 0
AtMost(a, b) == IF a > b THEN b ELSE a

LiquidationIncentive ==
    AtMost(MulDivDown(WAD, WAD, WAD - MulDivDown(Cursor, WAD - Lltv, WAD)), MaxIncentive)

\* _accrue: the interest since the last call, owed by the borrowers to the suppliers.
Accrued(rate) ==
    LET interest == MulDivDown(market.borrow, rate * elapsed, WAD) IN
    [market EXCEPT !.supply = @ + interest, !.borrow = @ + interest]

\* _isHealthy, on totals that are already accrued.
Healthy(m, shares, posted) ==
    \/ shares = 0
    \/ ToAssetsUp(shares, m.borrow, m.borrowShares)
         <= MulDivDown(MulDivDown(posted, price, 1), Lltv, WAD)

\* Mutant: the leaver's index is cleared before the last debtor's is set.
SyncBorrowerClearsFirst(u) ==
    LET owes == borrowShares'[u] > 0
        i == borrowerIndex[u]
        last == borrowers[Len(borrowers)] IN
    CASE owes /\ i = 0 ->
           /\ borrowers' = Append(borrowers, u)
           /\ borrowerIndex' = [borrowerIndex EXCEPT ![u] = Len(borrowers) + 1]
      [] ~owes /\ i # 0 ->
           /\ borrowers' = SubSeq([borrowers EXCEPT ![i] = last], 1, Len(borrowers) - 1)
           /\ borrowerIndex' = [borrowerIndex EXCEPT ![u] = 0, ![last] = i]
      [] OTHER -> UNCHANGED debtors

\* _syncBorrower: after a change of u's debt shares, the last debtor takes the place of one who has none.
SyncBorrower(u) ==
    LET owes == borrowShares'[u] > 0
        i == borrowerIndex[u]
        last == borrowers[Len(borrowers)] IN
    CASE owes /\ i = 0 ->
           /\ borrowers' = Append(borrowers, u)
           /\ borrowerIndex' = [borrowerIndex EXCEPT ![u] = Len(borrowers) + 1]
      [] ~owes /\ i # 0 ->
           /\ borrowers' = SubSeq([borrowers EXCEPT ![i] = last], 1, Len(borrowers) - 1)
           /\ borrowerIndex' = [borrowerIndex EXCEPT ![last] = i, ![u] = 0]
      [] OTHER -> UNCHANGED debtors

\* _pullToken and _pushToken of the loan token.
PullLoan(u, x) ==
    /\ loan[u] >= x
    /\ loan' = [loan EXCEPT ![u] = @ - x]
    /\ held' = [held EXCEPT !.loan = @ + x]
    /\ UNCHANGED pledged

PushLoan(u, x) ==
    /\ held.loan >= x
    /\ loan' = [loan EXCEPT ![u] = @ + x]
    /\ held' = [held EXCEPT !.loan = @ - x]
    /\ UNCHANGED pledged

-----------------------------------------------------------------------------
(* The supply side *)

Supply(u, x) == \E rate \in Rates :
    LET m == Accrued(rate)
        shares == ToSharesDown(x, m.supply, m.supplyShares) IN
    /\ m.supplyShares + shares <= MaxShares
    /\ supplyShares' = [supplyShares EXCEPT ![u] = @ + shares]
    /\ market' = [m EXCEPT !.supply = @ + x, !.supplyShares = @ + shares]
    /\ PullLoan(u, x)
    /\ elapsed' = 0
    /\ UNCHANGED <<borrowShares, collateral, debtors, price, now, moves>>

\* The two withdrawals once the shares and their assets are known.
TakeOut(u, m, shares, x) ==
    /\ shares <= supplyShares[u] /\ shares <= m.supplyShares /\ x <= m.supply
    /\ m.borrow <= m.supply - x
    /\ supplyShares' = [supplyShares EXCEPT ![u] = @ - shares]
    /\ market' = [m EXCEPT !.supply = @ - x, !.supplyShares = @ - shares]
    /\ PushLoan(u, x)
    /\ elapsed' = 0
    /\ UNCHANGED <<borrowShares, collateral, debtors, price, now, moves>>

Withdraw(u, x) == \E rate \in Rates :
    LET m == Accrued(rate) IN TakeOut(u, m, ToSharesUp(x, m.supply, m.supplyShares), x)

WithdrawAll(u) == \E rate \in Rates :
    LET m == Accrued(rate)
        shares == supplyShares[u] IN
    /\ shares > 0
    /\ TakeOut(u, m, shares, ToAssetsDown(shares, m.supply, m.supplyShares))

-----------------------------------------------------------------------------
(* The borrow side *)

\* No accrual: posting collateral changes no share.
SupplyCollateral(u, x) ==
    /\ pledged[u] >= x
    /\ collateral' = [collateral EXCEPT ![u] = @ + x]
    /\ market' = [market EXCEPT !.collateral = @ + x]
    /\ pledged' = [pledged EXCEPT ![u] = @ - x]
    /\ held' = [held EXCEPT !.collateral = @ + x]
    /\ UNCHANGED <<supplyShares, borrowShares, debtors, loan, price, elapsed, now, moves>>

\* Mutant: the health is that of the collateral before the withdrawal.
WithdrawCollateralHealthyBefore(u, x) == \E rate \in Rates :
    LET m == Accrued(rate) IN
    /\ x <= collateral[u] /\ x <= m.collateral
    /\ Healthy(m, borrowShares[u], collateral[u])
    /\ collateral' = [collateral EXCEPT ![u] = @ - x]
    /\ market' = [m EXCEPT !.collateral = @ - x]
    /\ pledged' = [pledged EXCEPT ![u] = @ + x]
    /\ held' = [held EXCEPT !.collateral = @ - x]
    /\ elapsed' = 0
    /\ UNCHANGED <<supplyShares, borrowShares, debtors, loan, price, now, moves>>

WithdrawCollateral(u, x) == \E rate \in Rates :
    LET m == Accrued(rate) IN
    /\ x <= collateral[u] /\ x <= m.collateral
    /\ Healthy(m, borrowShares[u], collateral[u] - x)
    /\ collateral' = [collateral EXCEPT ![u] = @ - x]
    /\ market' = [m EXCEPT !.collateral = @ - x]
    /\ pledged' = [pledged EXCEPT ![u] = @ + x]
    /\ held' = [held EXCEPT !.collateral = @ - x]
    /\ elapsed' = 0
    /\ UNCHANGED <<supplyShares, borrowShares, debtors, loan, price, now, moves>>

Borrow(u, x) == \E rate \in Rates :
    LET acc == Accrued(rate)
        shares == ToSharesUp(x, acc.borrow, acc.borrowShares)
        m == [acc EXCEPT !.borrow = @ + x, !.borrowShares = @ + shares] IN
    /\ m.borrowShares <= MaxShares
    /\ Healthy(m, borrowShares[u] + shares, collateral[u])
    /\ m.borrow <= m.supply
    /\ borrowShares' = [borrowShares EXCEPT ![u] = @ + shares]
    /\ market' = m
    /\ SyncBorrower(u)
    /\ PushLoan(u, x)
    /\ elapsed' = 0
    /\ UNCHANGED <<supplyShares, collateral, price, now, moves>>

\* The two repayments once the shares and what they cost are known.
PayBack(u, m, shares, x) ==
    /\ shares <= m.borrowShares
    /\ borrowShares' = [borrowShares EXCEPT ![u] = @ - shares]
    /\ market' = [m EXCEPT !.borrow = Less(@, x), !.borrowShares = @ - shares]
    /\ SyncBorrower(u)
    /\ PullLoan(u, x)
    /\ elapsed' = 0
    /\ UNCHANGED <<supplyShares, collateral, price, now, moves>>

\* Never more shares than are owed, and never more tokens than those shares are worth.
Repay(u, x) == \E rate \in Rates :
    LET m == Accrued(rate)
        shares == AtMost(ToSharesDown(x, m.borrow, m.borrowShares), borrowShares[u]) IN
    PayBack(u, m, shares, AtMost(x, ToAssetsUp(shares, m.borrow, m.borrowShares)))

RepayAll(u) == \E rate \in Rates :
    LET m == Accrued(rate)
        shares == borrowShares[u] IN
    /\ shares > 0
    /\ PayBack(u, m, shares, ToAssetsUp(shares, m.borrow, m.borrowShares))

-----------------------------------------------------------------------------
(* Liquidation *)

\* What a seizure of x costs the liquidator.
SeizurePays(x) == MulDivUp(MulDivDown(x, price, 1), WAD, LiquidationIncentive)

\* Mutant: the bad debt leaves the borrowers' side only.
WrittenOffOneSide(m, shares) ==
    LET bad == AtMost(ToAssetsUp(shares, m.borrow, m.borrowShares), m.supply) IN
    [m EXCEPT !.borrow = Less(@, bad), !.borrowShares = @ - shares]

\* Debt left without collateral leaves the books, and the suppliers bear it.
WrittenOff(m, shares) ==
    LET bad == AtMost(ToAssetsUp(shares, m.borrow, m.borrowShares), m.supply) IN
    [m EXCEPT !.borrow = Less(@, bad), !.borrowShares = @ - shares, !.supply = @ - bad]

Liquidate(l, u, x) == \E rate \in Rates :
    LET acc == Accrued(rate)
        paid == SeizurePays(x)
        repaid == ToSharesDown(paid, acc.borrow, acc.borrowShares)
        left == borrowShares[u] - repaid
        m == [acc EXCEPT !.borrow = Less(@, paid), !.borrowShares = @ - repaid, !.collateral = @ - x]
        bad == collateral[u] = x /\ left > 0 IN
    /\ ~Healthy(acc, borrowShares[u], collateral[u])
    /\ repaid <= borrowShares[u] /\ borrowShares[u] <= acc.borrowShares
    /\ x <= collateral[u] /\ x <= acc.collateral
    /\ loan[l] >= paid
    /\ borrowShares' = [borrowShares EXCEPT ![u] = IF bad THEN 0 ELSE left]
    /\ collateral' = [collateral EXCEPT ![u] = @ - x]
    /\ market' = IF bad THEN WrittenOff(m, left) ELSE m
    /\ SyncBorrower(u)
    /\ loan' = [loan EXCEPT ![l] = @ - paid]
    /\ pledged' = [pledged EXCEPT ![l] = @ + x]
    /\ held' = [held EXCEPT !.loan = @ + paid, !.collateral = @ - x]
    /\ elapsed' = 0
    /\ UNCHANGED <<supplyShares, price, now, moves>>

-----------------------------------------------------------------------------
(* Outside the contract *)

Tick ==
    /\ now < MaxTime
    /\ now' = now + 1
    /\ elapsed' = elapsed + 1
    /\ UNCHANGED <<positions, market, debtors, tokens, price, moves>>

MovePrice ==
    /\ moves < MaxMoves
    /\ moves' = moves + 1
    /\ price' \in Prices \ {price}
    /\ UNCHANGED <<positions, market, debtors, tokens, elapsed, now>>

Next ==
    \/ Tick \/ MovePrice
    \/ \E u \in Users : WithdrawAll(u) \/ RepayAll(u)
    \/ \E u \in Users, x \in Amounts :
          \/ Supply(u, x) \/ Withdraw(u, x)
          \/ SupplyCollateral(u, x) \/ WithdrawCollateral(u, x)
          \/ Borrow(u, x) \/ Repay(u, x)
          \/ \E l \in Users : Liquidate(l, u, x)

Spec == Init /\ [][Next]_vars

-----------------------------------------------------------------------------
(* Properties *)

\* Every variable has its shape; no total and no balance goes below zero.
TypeOK ==
    /\ supplyShares \in [Users -> Nat] /\ borrowShares \in [Users -> Nat] /\ collateral \in [Users -> Nat]
    /\ market \in [supply : Nat, supplyShares : Nat, borrow : Nat, borrowShares : Nat, collateral : Nat]
    /\ borrowers \in Seq(Users)
    /\ borrowerIndex \in [Users -> Nat]
    /\ price \in Prices
    /\ elapsed \in Nat

\* The sum of natural numbers: their units, each with what it belongs to.
Units(f) == UNION {{x} \X (1 .. f[x]) : x \in DOMAIN f}
SumOf(f) == Cardinality(Units(f))

\* The totals are the sums of the positions, and what is not lent out is in the contract: every
\* supplier could be paid what the borrowers do not hold (SimpleLending.sol:271-273).
BooksBalance ==
    /\ market.supplyShares = SumOf(supplyShares)
    /\ market.borrowShares = SumOf(borrowShares)
    /\ market.collateral = SumOf(collateral)
    /\ held.collateral = market.collateral
    /\ market.borrow <= market.supply
    /\ held.loan >= market.supply - market.borrow

\* The list of debtors is the set of addresses with debt, each once and at its own index, after any
\* order of entering and leaving (SimpleLending.sol:105-112, 547-548).
DebtorsListed ==
    /\ {u \in Users : borrowShares[u] > 0} = {borrowers[i] : i \in DOMAIN borrowers}
    /\ \A i \in DOMAIN borrowers : borrowerIndex[borrowers[i]] = i
    /\ \A u \in Users : borrowShares[u] = 0 => borrowerIndex[u] = 0

\* No debt outlives its collateral: it is on a borrower who has some posted, or off the books
\* (SimpleLending.sol:436-439).
NoDebtWithoutCollateral == \A u \in Users : borrowShares[u] > 0 => collateral[u] > 0

\* A supply share is never worth less after a call than before it, whatever is rounded, unless that
\* call took bad debt off the books (SimpleLending.sol:45-48).
SharesKeepTheirWorth ==
    [][\/ (market'.supply + 1) * (market.supplyShares + VirtualShares)
             >= (market.supply + 1) * (market'.supplyShares + VirtualShares)
       \/ \E u \in Users : collateral[u] > 0 /\ collateral'[u] = 0 /\ borrowShares[u] > 0]_vars
=============================================================================
