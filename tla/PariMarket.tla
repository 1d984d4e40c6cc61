----------------------------- MODULE PariMarket -----------------------------
(***************************************************************************)
(* The on-chain program programs/pari-market: one pari-mutuel market, its  *)
(* vault and the positions of its bettors, from init_market to the last    *)
(* claim_payout.                                                           *)
(*                                                                         *)
(* An instruction of a Solana program is atomic: it either runs to its end *)
(* or reverts every write it made, the token transfer it calls included.   *)
(* So each instruction is one action: its guard, <instruction>Admits, is   *)
(* its account constraints and require! checks, and an instruction that    *)
(* returns an error is no step at all.  Markets do not interact (every     *)
(* account address is derived from the market's own id), so one market is  *)
(* modelled.                                                               *)
(***************************************************************************)
EXTENDS TokenSums

CONSTANTS
  Bettor,         \* the wallets that sign deposits and claims
  Wallets,        \* the token balances the bettors may start with
  DepositAmounts, \* the amounts deposit() is called with (and gifts made of)
  MintAmounts,    \* the amounts the mint's authority issues
  LockTimes,      \* the lock_ts arguments of init_market()
  Terms,          \* the other arguments of init_market()
  Snapshots,      \* the statistics of a fixture the oracle may publish
  MaxTime         \* bound: the clock stops here

ASSUME BettorAssumption == IsFiniteSet(Bettor)

(* A mint's supply is itself a u64, so all balances together fit in one.   *)
ASSUME WalletsAssumption ==
  \A w \in Wallets : /\ w \in [Bettor -> U64]
                     /\ TotalOf(w, Bettor) <= MaxU64

ASSUME InputAssumption ==
  /\ DepositAmounts \subseteq U64 /\ MintAmounts \subseteq U64
  /\ LockTimes \subseteq Nat
  /\ MaxTime \in Nat

VARIABLES
  created,    \* the Market account exists
  terms,      \* fixture_id, epoch_day, stat_a_key, stat_b_key, op, predicate
  lock_ts,    \* Market.lock_ts
  yes_pool,   \* Market.yes_pool
  no_pool,    \* Market.no_pool
  locked,     \* Market.locked
  resolved,   \* Market.resolved
  outcome,    \* Market.outcome
  opened,     \* b's Position exists (Position.bettor is not the default key)
  side,       \* Position.side
  amount,     \* Position.amount
  claimed,    \* Position.claimed
  wallet,     \* the balance of b's own token account
  vault,      \* the balance of the market's token account
  roots,      \* the snapshots that the oracle's daily roots commit to
  now,        \* Clock::get().unix_timestamp
  received,   \* history: what claim_payout has transferred to b
  gifts       \* history: what was sent to the vault other than by deposit()

marketVars   == <<created, terms, lock_ts, yes_pool, no_pool, locked, resolved,
                  outcome>>
positionVars == <<opened, side, amount, claimed>>
tokenVars    == <<wallet, vault, received, gifts>>
vars == <<marketVars, positionVars, tokenVars, roots, now>>

-----------------------------------------------------------------------------
(* An Option<T> is the set of the values it holds: {} is None, {x} Some(x). *)
None == {}
Some(x) == {x}
IsSome(o) == o # None

(* The bool of Position.side and Market.outcome: true is Yes, false is No; *)
(* Unknown stands for the outcome None.                                    *)
Yes == "yes"
No == "no"
Side == {Yes, No}
Unknown == "unknown"

NoTerms == <<>>

(* The program that last set the CPI return data, when it set any.         *)
TxOracle == "txoracle"
Foreign == "another program"

Init ==
  /\ created = FALSE /\ terms = NoTerms /\ lock_ts = 0
  /\ yes_pool = 0 /\ no_pool = 0
  /\ locked = FALSE /\ resolved = FALSE /\ outcome = Unknown
  /\ opened = [b \in Bettor |-> FALSE]
  /\ side = [b \in Bettor |-> No]
  /\ amount = [b \in Bettor |-> 0]
  /\ claimed = [b \in Bettor |-> FALSE]
  /\ wallet \in Wallets
  /\ vault = 0
  /\ received = [b \in Bettor |-> 0]
  /\ gifts = 0
  /\ roots = {}
  /\ now = 0

-----------------------------------------------------------------------------
(* init_market(t, ts): anyone may create the market; `init` makes a second *)
(* call on the same account fail.                                          *)
AnyStats(t) == TRUE  \* mutant: no InconsistentTwoStatConfig check
ConsistentStats(t) == IsSome(t.stat_b_key) <=> IsSome(t.op)

InitMarketAdmits(t, ts) ==
  /\ ~created
  /\ ts > now                                   \* LockNotYetDue
  /\ ConsistentStats(t)                         \* InconsistentTwoStatConfig

InitMarket(t, ts) ==
  /\ InitMarketAdmits(t, ts)
  /\ created' = TRUE
  /\ terms' = t
  /\ lock_ts' = ts
  /\ yes_pool' = 0
  /\ no_pool' = 0
  /\ locked' = FALSE
  /\ resolved' = FALSE
  /\ outcome' = Unknown
  /\ UNCHANGED <<positionVars, tokenVars, roots, now>>

(* An SPL transfer of n out of an account holding `from` into one holding  *)
(* `to`: the token program checks the balance and the sum.                 *)
TransferUnfunded(n, from, to) == to + n <= MaxU64  \* mutant
Transferable(n, from, to) == n <= from /\ to + n <= MaxU64

(* Deposits close when lock_market has run (MarketLocked), and by the      *)
(* clock even if it has not (DepositAfterLock).                            *)
WindowUntilLocked == ~locked  \* mutant: no DepositAfterLock check
DepositWindowOpen == ~locked /\ now <= lock_ts

(* A position has one side (SideMismatch).                                 *)
AnySide(b, s) == TRUE  \* mutant: no SideMismatch check
SideAgrees(b, s) == opened[b] => side[b] = s

(* deposit(n, s) signed by b.  The position is opened on the first deposit *)
(* and only added to, on the side it already has, by later ones.           *)
DepositAdmits(b, n, s) ==
  /\ created
  /\ DepositWindowOpen
  /\ n > 0                                      \* ZeroAmount
  /\ SideAgrees(b, s)
  /\ amount[b] + n <= MaxU64                    \* checked_add
  /\ (IF s = Yes THEN yes_pool ELSE no_pool) + n <= MaxU64
  /\ Transferable(n, wallet[b], vault)          \* token::transfer

Deposit(b, n, s) ==
  /\ DepositAdmits(b, n, s)
  /\ opened' = [opened EXCEPT ![b] = TRUE]
  /\ side' = [side EXCEPT ![b] = s]
  /\ amount' = [amount EXCEPT ![b] = @ + n]
  /\ yes_pool' = IF s = Yes THEN yes_pool + n ELSE yes_pool
  /\ no_pool' = IF s = Yes THEN no_pool ELSE no_pool + n
  /\ wallet' = [wallet EXCEPT ![b] = @ - n]
  /\ vault' = vault + n
  /\ UNCHANGED <<created, terms, lock_ts, locked, resolved, outcome, claimed,
                 received, gifts, roots, now>>

(* lock_market(): permissionless once the lock time has come.              *)
LockMarketAdmits ==
  /\ created
  /\ ~locked                                    \* MarketLocked
  /\ now >= lock_ts                             \* LockNotYetDue

LockMarket ==
  /\ LockMarketAdmits
  /\ locked' = TRUE
  /\ UNCHANGED <<created, terms, lock_ts, yes_pool, no_pool, resolved, outcome,
                 positionVars, tokenVars, roots, now>>

-----------------------------------------------------------------------------
(* The statistic with the keys ka and kb of snapshot sn, and whether it    *)
(* meets the predicate of terms t.                                         *)
Statistic(op, ka, kb, sn) ==
  LET a == sn.stat[ka]
      b == sn.stat[CHOOSE k \in kb : TRUE]
  IN  IF kb = None THEN a
      ELSE IF op = Some("Add") THEN a + b ELSE a - b

HoldsOf(t, ka, kb, sn) ==
  LET s == Statistic(t.op, ka, kb, sn)
  IN  \/ t.comparison = "GreaterThan" /\ s > t.threshold
      \/ t.comparison = "LessThan" /\ s < t.threshold
      \/ t.comparison = "EqualTo" /\ s = t.threshold

(* What the market asks: its predicate of its own statistic.               *)
Holds(t, sn) == HoldsOf(t, t.stat_a_key, t.stat_b_key, sn)

(* The oracle program accepts a proof of a snapshot under the roots of the *)
(* market's day, and only such a proof.                                    *)
Provable(t, sn) == sn \in roots /\ sn.epoch_day = t.epoch_day

(* What get_return_data() may hold after the CPI: the oracle's answer, a   *)
(* byte of the oracle that is no bool, what another program left there,    *)
(* or nothing.  The oracle evaluates the statistic of the proof it is      *)
(* given: that of ka and, for a market with a second one, kb.              *)
ReturnData(t, ka, kb, sn) ==
  LET statB == IF IsSome(t.stat_b_key) THEN kb ELSE None
  IN  {None, Some(<<TxOracle, 2>>), Some(<<Foreign, 0>>), Some(<<Foreign, 1>>),
       Some(<<TxOracle, IF HoldsOf(t, ka, statB, sn) THEN 1 ELSE 0>>)}

(* invoke_and_decode_bool: the answer, Unknown when it is an error.        *)
DecodeAnySource(data) ==  \* mutant: the returning program is not checked
  IF data = Some(<<TxOracle, 1>>) \/ data = Some(<<Foreign, 1>>) THEN Yes
  ELSE IF data = Some(<<TxOracle, 0>>) \/ data = Some(<<Foreign, 0>>) THEN No
  ELSE Unknown

Decode(data) ==
  IF data = Some(<<TxOracle, 1>>) THEN Yes
  ELSE IF data = Some(<<TxOracle, 0>>) THEN No
  ELSE Unknown

(* The proof's keys are the market's (FixtureMismatch).                    *)
AnyKeys(t, ka, kb) == IsSome(t.stat_b_key) => IsSome(t.op)  \* mutant: not compared
KeysAgree(t, ka, kb) ==
  /\ ka = t.stat_a_key
  /\ IsSome(t.stat_b_key) => kb = t.stat_b_key /\ IsSome(t.op)

(* resolve() with a proof of snapshot sn for the keys ka and kb.  Anyone   *)
(* may call it; a stat_b that a single-stat market did not ask for is not  *)
(* looked at.                                                              *)
ResolveAdmits(sn, ka, kb) ==
  /\ created
  /\ locked                                     \* MarketLocked
  /\ ~resolved                                  \* AlreadyResolved
  /\ sn.fixture_id = terms.fixture_id           \* FixtureMismatch
  /\ KeysAgree(terms, ka, kb)                   \* FixtureMismatch
  /\ Provable(terms, sn)                        \* WrongRoot, or the CPI fails

Resolve(sn, ka, kb) ==
  /\ ResolveAdmits(sn, ka, kb)
  /\ \E data \in ReturnData(terms, ka, kb, sn) :
        /\ Decode(data) # Unknown
        /\ outcome' = Decode(data)
  /\ resolved' = TRUE
  /\ UNCHANGED <<created, terms, lock_ts, yes_pool, no_pool, locked,
                 positionVars, tokenVars, roots, now>>

-----------------------------------------------------------------------------
WinningPool == IF outcome = Yes THEN yes_pool ELSE no_pool
TotalPool == yes_pool + no_pool

(* What claim_payout transfers to b: its stake back when nobody backed the *)
(* winning side, else its share of both pools rounded down.                *)
PayoutRoundedUp(b) ==      \* mutant: ceiling division
  IF WinningPool = 0 THEN amount[b]
  ELSE (amount[b] * TotalPool + WinningPool - 1) \div WinningPool

PayoutDividedFirst(b) ==   \* mutant: the quotient is rounded too early
  IF WinningPool = 0 THEN amount[b]
  ELSE amount[b] * (TotalPool \div WinningPool)

Payout(b) ==
  IF WinningPool = 0 THEN amount[b]
  ELSE (amount[b] * TotalPool) \div WinningPool

(* The constraint on the position: it won, or the winning pool is empty.   *)
Eligible(b) ==
  /\ opened[b]
  /\ \/ outcome = side[b]
     \/ outcome = Yes /\ yes_pool = 0
     \/ outcome = No /\ no_pool = 0

(* The checks of the claim's arithmetic and of its token transfer; u128 is *)
(* twice as wide as u64.                                                   *)
Payable(b) ==
  /\ outcome # Unknown                          \* ok_or
  /\ TotalPool <= MaxU64                        \* checked_add
  /\ amount[b] * TotalPool < (MaxU64 + 1) * (MaxU64 + 1)  \* checked_mul
  /\ Payout(b) <= MaxU64                        \* try_from
  /\ Transferable(Payout(b), vault, wallet[b])  \* token::transfer

ClaimableAgain(b) == Eligible(b)  \* mutant: no AlreadyClaimed check
Claimable(b) == ~claimed[b] /\ Eligible(b)

(* claim_payout() signed by b.                                             *)
ClaimPayoutAdmits(b) ==
  /\ created
  /\ resolved                                   \* MarketNotResolved
  /\ Claimable(b)                               \* AlreadyClaimed, LosingPosition
  /\ Payable(b)

ClaimPayout(b) ==
  /\ ClaimPayoutAdmits(b)
  /\ claimed' = [claimed EXCEPT ![b] = TRUE]
  /\ vault' = vault - Payout(b)
  /\ wallet' = [wallet EXCEPT ![b] = @ + Payout(b)]
  /\ received' = [received EXCEPT ![b] = @ + Payout(b)]
  /\ UNCHANGED <<marketVars, opened, side, amount, gifts, roots, now>>

-----------------------------------------------------------------------------
(* The environment.  The vault is an ordinary token account, so a bettor   *)
(* can send it tokens without deposit().                                   *)
Gift(b, n) ==
  /\ created
  /\ n > 0
  /\ Transferable(n, wallet[b], vault)
  /\ wallet' = [wallet EXCEPT ![b] = @ - n]
  /\ vault' = vault + n
  /\ gifts' = gifts + n
  /\ UNCHANGED <<marketVars, positionVars, received, roots, now>>

(* The mint's authority issues n to b; the mint's supply is a u64.         *)
MintAdmits(n) == TotalOf(wallet, Bettor) + vault + n <= MaxU64

MintTo(b, n) ==
  /\ MintAdmits(n)
  /\ wallet' = [wallet EXCEPT ![b] = @ + n]
  /\ UNCHANGED <<marketVars, positionVars, vault, received, gifts, roots, now>>

(* The oracle commits to one more snapshot; what it committed to stays.    *)
PublishRoot(sn) ==
  /\ sn \notin roots
  /\ roots' = roots \cup {sn}
  /\ UNCHANGED <<marketVars, positionVars, tokenVars, now>>

Tick ==
  /\ now < MaxTime
  /\ now' = now + 1
  /\ UNCHANGED <<marketVars, positionVars, tokenVars, roots>>

(* The stat keys a resolver may put in its proof.                          *)
ResolveKeys == UNION {{t.stat_a_key} \cup t.stat_b_key : t \in Terms}

ResolveSome == \E sn \in Snapshots, ka \in ResolveKeys,
                  kb \in {None} \cup {Some(k) : k \in ResolveKeys} :
                 Resolve(sn, ka, kb)

Next ==
  \/ \E t \in Terms, ts \in LockTimes : InitMarket(t, ts)
  \/ \E b \in Bettor, n \in DepositAmounts, s \in Side : Deposit(b, n, s)
  \/ LockMarket
  \/ ResolveSome
  \/ \E b \in Bettor : ClaimPayout(b)
  \/ \E b \in Bettor, n \in DepositAmounts : Gift(b, n)
  \/ \E b \in Bettor, n \in MintAmounts : MintTo(b, n)
  \/ \E sn \in Snapshots : PublishRoot(sn)
  \/ Tick

Spec == Init /\ [][Next]_vars

(* The clock runs, the oracle publishes, and whoever holds a stake calls   *)
(* the permissionless instructions and his own claim until they land.      *)
FairSpec ==
  /\ Spec
  /\ WF_vars(Tick)
  /\ WF_vars(LockMarket)
  /\ WF_vars(ResolveSome)
  /\ \A b \in Bettor : WF_vars(ClaimPayout(b))
  /\ \A sn \in Snapshots : WF_vars(PublishRoot(sn))

-----------------------------------------------------------------------------
(* Properties.                                                             *)

(* The positions on side s.                                                *)
Backers(s) == {b \in Bettor : opened[b] /\ side[b] = s}

(* Type correctness: every amount the program stores or transfers is a     *)
(* u64, so no check the code makes lets one wrap or go negative.           *)
TypeOK ==
  /\ created \in BOOLEAN
  /\ created => terms \in Terms
  /\ lock_ts \in Nat
  /\ yes_pool \in U64 /\ no_pool \in U64
  /\ locked \in BOOLEAN /\ resolved \in BOOLEAN
  /\ outcome \in Side \cup {Unknown}
  /\ opened \in [Bettor -> BOOLEAN]
  /\ side \in [Bettor -> Side]
  /\ amount \in [Bettor -> U64]
  /\ claimed \in [Bettor -> BOOLEAN]
  /\ wallet \in [Bettor -> U64]
  /\ vault \in U64
  /\ roots \subseteq Snapshots
  /\ now \in Nat
  /\ received \in [Bettor -> Nat]
  /\ gifts \in Nat

(* The pools, which every payout is computed from, are the sums of the     *)
(* positions on their side after any sequence of first and repeat deposits *)
(* (deposit: the SideMismatch guard is what keeps them from drifting).     *)
PoolsMatchPositions ==
  /\ yes_pool = TotalOf(amount, Backers(Yes))
  /\ no_pool = TotalOf(amount, Backers(No))

(* Solvency: once the market is resolved, a position that may claim and    *)
(* has not yet can be paid in full, whatever was claimed before it and in  *)
(* whatever order; none of claim_payout's checked operations, nor its      *)
(* transfer out of the vault, can make such a claim revert.                *)
EligibleClaimsPayable ==
  resolved => \A b \in Bettor : Claimable(b) => Payable(b)

(* A bettor is paid once and exactly the payout of its position, which is  *)
(* never less than it staked (claim_payout: claimed is set by the first    *)
(* claim, and no later step of anyone changes what the payout is).         *)
ClaimsPayEntitlement ==
  \A b \in Bettor :
    IF claimed[b] THEN received[b] = Payout(b) /\ received[b] >= amount[b]
    ELSE received[b] = 0

(* The dust policy of claim_payout: when the last eligible position has    *)
(* been paid, what deposits left in the vault is less than one base unit   *)
(* for each position paid, and nothing at all after a refund.              *)
DustBounded ==
  resolved /\ (\A b \in Bettor : Eligible(b) => claimed[b]) =>
    LET dust == vault - gifts
    IN  IF WinningPool = 0 THEN dust = 0
        ELSE 0 <= dust /\ dust < Cardinality({b \in Bettor : claimed[b]})

(* The recorded outcome is the market's own predicate evaluated on a       *)
(* snapshot of its own fixture that the oracle did commit to for its day:  *)
(* no proof, key or return-data buffer a resolver can bring about makes    *)
(* resolve() record anything else, and a false predicate is recorded.      *)
OutcomeProven ==
  resolved =>
    \E sn \in roots : /\ sn.fixture_id = terms.fixture_id
                      /\ sn.epoch_day = terms.epoch_day
                      /\ outcome = (IF Holds(terms, sn) THEN Yes ELSE No)

(* After lock_market, and after lock_ts even when nobody has called        *)
(* lock_market, no step changes a stake, a side or a pool.                 *)
StakesFrozen ==
  [][created /\ (locked \/ now > lock_ts)
        => UNCHANGED <<opened, side, amount, yes_pool, no_pool>>]_vars

(* No stake is stuck: each is eventually on the losing side of a resolved  *)
(* market or paid out (init_market's check of stat_b_key against op is     *)
(* what rules out a market that no proof can resolve).                     *)
StakesSettle ==
  \A b \in Bettor :
    amount[b] > 0 ~> resolved /\ (Eligible(b) => claimed[b])
=============================================================================
