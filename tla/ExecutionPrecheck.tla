------------------------- MODULE ExecutionPrecheck -------------------------
(***************************************************************************)
(* The execution precheck: one pass over the execution pool that decides   *)
(* what is bought and how much of it, before any order is sent.            *)
(*                                                                         *)
(* The account is read once; what the pass has approved so far is kept in  *)
(* running reservations.  Each case gets a budget, a proposed quantity and *)
(* a list of blockers; a case without blockers goes to the execution       *)
(* guard, which sizes the order anew, applies the rules of one order and   *)
(* then those of the portfolio.                                            *)
(*                                                                         *)
(* Quantities are lots, money is whole units, and limits that are shares   *)
(* of the account are given for the account at hand.                       *)
(***************************************************************************)
EXTENDS Integers, FiniteSets, FiniteSetsExt

CONSTANTS
  Cases,        \* the cases that may be in the pool, one symbol each
  Lot,          \* the price of one lot of each
  Sectors,
  Sector,       \* the sector of each
  Equity,       \* total_asset
  Cashes,       \* the balances an account may have
  Held,         \* what may be held of a symbol, in lots
  StockBudget,  \* stock_test_budget_amount
  TotalLimit,   \* effective_total_position_limit of the equity
  SingleLimit,  \* max_single_position of it
  SingleAmount, \* max_single_amount
  HoldCounts,   \* max_hold_count, and the count the regime allows
  BaseSize,     \* base_position_pct of the equity
  SectorLimit,  \* portfolio_sector_concentration_limit of it
  NewExposureLimit,   \* daily_new_exposure_limit of it
  NewExposures  \* what the day's orders may already have bought

ASSUME PrecheckAssumption ==
  /\ IsFiniteSet(Cases)
  /\ Lot \in [Cases -> Nat \ {0}]
  /\ Sector \in [Cases -> Sectors]
  /\ \A n \in {Equity, StockBudget, TotalLimit, SingleLimit, SingleAmount,
               BaseSize, SectorLimit, NewExposureLimit} : n \in Nat
  /\ Cashes \subseteq Nat /\ Held \subseteq Nat /\ NewExposures \subseteq Nat
  /\ HoldCounts \subseteq Nat

VARIABLES
  account,  \* what the pass read at its start
  todo,     \* the cases it has not come to
  approved  \* the lots it approved of each case

vars == <<account, todo, approved>>

Accounts == [cash     : Cashes,
             lots     : [Cases -> Held],
             exposure : NewExposures,
             maxHold  : HoldCounts]

Least2(a, b) == IF a < b THEN a ELSE b
Least(S) == Min(S)
AtLeastZero(n) == IF n < 0 THEN 0 ELSE n

ValueOf(lots) == MapThenSumSet(LAMBDA c : lots[c] * Lot[c], Cases)
HeldCases == {c \in Cases : account.lots[c] > 0}
Invested == ValueOf(account.lots)

\* What this pass has approved so far.  One sum stands for the reserved cash,
\* the reserved position, the reserved stock budget and the new exposure, which
\* the code adds the same value to.

Reserved == ValueOf(approved)

ReservedNewSymbols == {c \in Cases \ HeldCases : approved[c] > 0}

-----------------------------------------------------------------------------
(* The budget of a case, and what it proposes. *)

CashAvailable == AtLeastZero(account.cash - Reserved)
RemainingRiskTotal == AtLeastZero(TotalLimit - Invested - Reserved)
RemainingTestBudget == AtLeastZero(AtLeastZero(StockBudget - Invested) - Reserved)
RemainingTotal == Least2(RemainingRiskTotal, RemainingTestBudget)
RemainingSingle(c) == AtLeastZero(SingleLimit - account.lots[c] * Lot[c])

\* cap: the lifecycle's cap for the case's playbook.
Budget(c, cap) ==
  Least({CashAvailable, RemainingTotal, RemainingSingle(c), SingleAmount, cap})

Proposed(c, cap) == Budget(c, cap) \div Lot[c]

\* Mutant: a case is not counted against those approved before it.
SlotsTakenBefore == Cardinality(HeldCases)
SlotsTaken == Cardinality(HeldCases) + Cardinality(ReservedNewSymbols)

\* The blockers that depend on what the pass has read and reserved; the others
\* (gates, quotes, session, exclusions, the emergency stop) are "vetoed".
Blocked(c, cap) ==
  \/ RemainingTotal = 0
  \/ c \notin HeldCases /\ SlotsTaken >= account.maxHold
  \/ RemainingSingle(c) = 0
  \/ CashAvailable = 0
  \/ Proposed(c, cap) < 1

-----------------------------------------------------------------------------
(* The execution guard. *)

OpenSlots == IF account.maxHold - SlotsTaken < 1 THEN 1 ELSE account.maxHold - SlotsTaken

\* The sizer reads the account's balance: neither the reservations nor the
\* case's budget nor what is held already.  share: half of Kelly's fraction of
\* the equity, or the base allocation scaled by the volatility; -1 for neither.
SizedCap == Least2(SingleLimit, account.cash)
BaseAllocation == Least({BaseSize, account.cash \div OpenSlots, SizedCap})
\* Mutant: the sizer forgets its cap.
Uncapped(share) == IF share = -1 THEN BaseAllocation ELSE share
Allocation(share) == IF share = -1 THEN BaseAllocation ELSE Least2(share, SizedCap)
Sized(c, share) == Allocation(share) \div Lot[c]

\* check_volatility_scaling: of a volatile stock, three fifths of the limit.
VolatilityCap == (SingleLimit * 3) \div 5
Scaled(c, lots, volatile) ==
  IF volatile THEN Least2(lots, VolatilityCap \div Lot[c]) ELSE lots

\* PortfolioRiskChecker: the sector counts what is held, the exposure also what
\* was reserved.
SectorValue(lots, s) ==
  MapThenSumSet(LAMBDA c : lots[c] * Lot[c], {c \in Cases : Sector[c] = s})

\* Mutant: the exposure of this pass is not added.
PortfolioAllowsOld(c, lots) ==
  /\ SectorValue(account.lots, Sector[c]) + lots * Lot[c] <= SectorLimit
  /\ account.exposure + lots * Lot[c] <= NewExposureLimit
PortfolioAllows(c, lots) ==
  /\ SectorValue(account.lots, Sector[c]) + lots * Lot[c] <= SectorLimit
  /\ account.exposure + Reserved + lots * Lot[c] <= NewExposureLimit

-----------------------------------------------------------------------------
(* The pass. *)

Starts ==
  /\ account \in Accounts
  /\ todo = Cases
  /\ approved = [c \in Cases |-> 0]

Turns(c) == /\ c \in todo
            /\ todo' = todo \ {c}
            /\ UNCHANGED account

\* A gate, a rule of one order or the market speaks against the case.
Veto(c) ==
  /\ Turns(c)
  /\ UNCHANGED approved

\* The guard's quantity replaces the one proposed.
Approve(c, cap, share, volatile) ==
  LET lots == Scaled(c, Sized(c, share), volatile)
  IN /\ Turns(c)
     /\ ~Blocked(c, cap)
     /\ Sized(c, share) >= 1 /\ lots >= 1
     /\ PortfolioAllows(c, lots)
     /\ approved' = [approved EXCEPT ![c] = lots]

Caps == {0, SingleLimit, Equity}
Shares == {-1} \cup 0..SingleLimit

Init == Starts
Next ==
  \E c \in Cases :
    \/ Veto(c)
    \/ \E cap \in Caps, share \in Shares, volatile \in BOOLEAN :
         Approve(c, cap, share, volatile)

Spec == Init /\ [][Next]_vars

-----------------------------------------------------------------------------
(* Properties. *)

\* The variables have their types.
TypeOK ==
  /\ account \in Accounts
  /\ todo \subseteq Cases
  /\ approved \in [Cases -> 0..Equity]

\* However many cases one pass approves, together with what the day has already
\* bought they stay within the limit of new exposure.
NewExposureKept ==
  ValueOf(approved) > 0 => account.exposure + ValueOf(approved) <= NewExposureLimit

\* One pass never opens more positions than the hold count leaves free.
HoldCountKept ==
  ReservedNewSymbols # {} =>
    Cardinality(HeldCases \cup ReservedNewSymbols) <= account.maxHold

\* No single order exceeds the share of the account one order may take, nor the
\* account's cash.
OrdersWithinAccount ==
  \A c \in Cases : approved[c] * Lot[c] <= Least2(SingleLimit, account.cash)

\* No approved order exceeds the amount allowed for one order: beyond it the
\* precheck is said to block with single_amount_exceeded.
SingleAmountKept == \A c \in Cases : approved[c] * Lot[c] <= SingleAmount

\* What is held of a sector and what the pass approves of it stay within the
\* sector's limit.
SectorKept ==
  \A c \in Cases :
    approved[c] > 0 =>
      SectorValue([d \in Cases |-> account.lots[d] + approved[d]], Sector[c]) <= SectorLimit

=============================================================================
