--------------------------- MODULE PariMarketProofs ---------------------------
(***************************************************************************)
(* Proofs about PariMarket, for any finite set of bettors, any stakes and  *)
(* any width of the amounts: that the vault can pay, and what a resolved   *)
(* market is held to.                                                      *)
(***************************************************************************)
EXTENDS PariMarketRefinement, FiniteSetTheorems, TLAPS

-----------------------------------------------------------------------------
(* Sums of amounts.  The main idea: a sum is the size of a finite set of   *)
(* units, so adding disjoint owners adds the sums, and one owner's units   *)
(* are numbered 1 .. f[b].                                                 *)

(* Finitely many owners hold finitely many units.                          *)
LEMMA UnitsFinite ==
  ASSUME NEW S, IsFiniteSet(S), NEW f
  PROVE  /\ IsFiniteSet(Units(f, S))
         /\ TotalOf(f, S) \in Nat
<1>1. IsFiniteSet(1 .. MaxU64)
  BY FS_Interval, MaxU64Assumption
<1>2. IsFiniteSet(S \X (1 .. MaxU64))
  BY <1>1, FS_Product
<1>3. Units(f, S) \in SUBSET (S \X (1 .. MaxU64))
  BY DEF Units
<1>4. IsFiniteSet(Units(f, S))
  BY <1>2, <1>3, FS_Subset
<1> QED
  BY <1>4, FS_CardinalityType DEF TotalOf

(* The sum depends only on the amounts of the owners summed over.          *)
LEMMA TotalOfCongruence ==
  ASSUME NEW S, NEW f, NEW g, \A b \in S : f[b] = g[b]
  PROVE  TotalOf(f, S) = TotalOf(g, S)
<1>1. Units(f, S) = Units(g, S)
  BY DEF Units
<1> QED
  BY <1>1 DEF TotalOf

(* Disjoint sets of owners add up.                                         *)
LEMMA TotalOfDisjoint ==
  ASSUME NEW S, NEW R, IsFiniteSet(S), IsFiniteSet(R), S \cap R = {}, NEW f
  PROVE  TotalOf(f, S \cup R) = TotalOf(f, S) + TotalOf(f, R)
<1>1. Units(f, S \cup R) = Units(f, S) \cup Units(f, R)
  BY DEF Units
<1>2. Units(f, S) \cap Units(f, R) = {}
  BY DEF Units
<1>3. IsFiniteSet(Units(f, S)) /\ IsFiniteSet(Units(f, R))
  BY UnitsFinite
<1>4. /\ Cardinality(Units(f, S)) \in Nat
      /\ Cardinality(Units(f, R)) \in Nat
  BY <1>3, FS_CardinalityType
<1>5. Cardinality(Units(f, S) \cup Units(f, R))
        = Cardinality(Units(f, S)) + Cardinality(Units(f, R)) - Cardinality({})
  BY <1>2, <1>3, FS_Union
<1>6. Cardinality({}) = 0
  BY FS_EmptySet
<1>7. Cardinality(Units(f, S) \cup Units(f, R))
        = Cardinality(Units(f, S)) + Cardinality(Units(f, R))
  BY <1>4, <1>5, <1>6
<1> QED
  BY <1>1, <1>7 DEF TotalOf

(* One owner's units are numbered from 1 to its amount.                    *)
LEMMA TotalOfSingle ==
  ASSUME NEW b, NEW f, f[b] \in U64
  PROVE  TotalOf(f, {b}) = f[b]
<1> DEFINE n == f[b]
           unit == [k \in 1 .. n |-> <<b, k>>]
<1>1. n \in Nat /\ n <= MaxU64
  BY MaxU64Assumption DEF U64
<1>2. unit \in Bijection(1 .. n, Units(f, {b}))
  <2>1. unit \in [1 .. n -> Units(f, {b})]
    BY <1>1, MaxU64Assumption DEF Units
  <2>2. \A x, y \in 1 .. n : unit[x] = unit[y] => x = y
    OBVIOUS
  <2>3. \A u \in Units(f, {b}) : \E k \in 1 .. n : unit[k] = u
    BY <1>1, MaxU64Assumption DEF Units
  <2> QED
    BY <2>1, <2>2, <2>3 DEF Bijection, Injection, Surjection, IsInjective
<1>3. IsFiniteSet(1 .. n) /\ Cardinality(1 .. n) = n
  BY <1>1, FS_Interval
<1>4. ExistsBijection(1 .. n, Units(f, {b}))
  BY <1>2 DEF ExistsBijection
<1> QED
  BY <1>3, <1>4, FS_Bijection DEF TotalOf

(* Taking one owner out of a sum.                                          *)
LEMMA TotalOfRemove ==
  ASSUME NEW S, IsFiniteSet(S), NEW f, NEW b \in S, f[b] \in U64
  PROVE  TotalOf(f, S) = TotalOf(f, S \ {b}) + f[b]
<1>1. IsFiniteSet(S \ {b}) /\ IsFiniteSet({b})
  BY FS_RemoveElement, FS_Singleton
<1>2. S = (S \ {b}) \cup {b} /\ (S \ {b}) \cap {b} = {}
  OBVIOUS
<1> QED
  BY <1>1, <1>2, TotalOfDisjoint, TotalOfSingle

(* Putting one more owner into a sum.                                      *)
LEMMA TotalOfAdd ==
  ASSUME NEW S, IsFiniteSet(S), NEW f, NEW b, b \notin S, f[b] \in U64
  PROVE  TotalOf(f, S \cup {b}) = TotalOf(f, S) + f[b]
<1>1. IsFiniteSet({b}) /\ S \cap {b} = {}
  BY FS_Singleton
<1> QED
  BY <1>1, TotalOfDisjoint, TotalOfSingle

(* A change of one owner's amount changes the sum by the difference.       *)
LEMMA TotalOfUpdate ==
  ASSUME NEW B, NEW S \in SUBSET B, IsFiniteSet(S),
         NEW f \in [B -> U64], NEW g \in [B -> U64], NEW b \in S,
         \A c \in B \ {b} : g[c] = f[c]
  PROVE  TotalOf(g, S) = TotalOf(f, S) - f[b] + g[b]
<1>1. TotalOf(g, S \ {b}) = TotalOf(f, S \ {b})
  BY TotalOfCongruence
<1>2. TotalOf(f, S) = TotalOf(f, S \ {b}) + f[b]
  BY TotalOfRemove
<1>3. TotalOf(g, S) = TotalOf(g, S \ {b}) + g[b]
  BY TotalOfRemove
<1>4. TotalOf(f, S \ {b}) \in Nat
  BY UnitsFinite, FS_RemoveElement
<1>5. f[b] \in Nat /\ g[b] \in Nat
  BY MaxU64Assumption DEF U64
<1> QED
  BY <1>1, <1>2, <1>3, <1>4, <1>5

(* A part is at most the whole.                                            *)
LEMMA TotalOfMember ==
  ASSUME NEW S, IsFiniteSet(S), NEW f, NEW b \in S, f[b] \in U64
  PROVE  f[b] <= TotalOf(f, S)
<1>1. TotalOf(f, S \ {b}) \in Nat
  BY UnitsFinite, FS_RemoveElement
<1>2. f[b] \in Nat
  BY MaxU64Assumption DEF U64
<1> QED
  BY <1>1, <1>2, TotalOfRemove

(* Nothing held by nobody, or by owners who hold nothing.                  *)
LEMMA TotalOfZero ==
  ASSUME NEW S, NEW f, \A b \in S : f[b] = 0
  PROVE  TotalOf(f, S) = 0
<1>1. Units(f, S) = {}
  BY DEF Units
<1> QED
  BY <1>1, FS_EmptySet DEF TotalOf

-----------------------------------------------------------------------------
(* Arithmetic.                                                             *)

(* Floor division: the largest q with w * q <= a.                          *)
LEMMA DivBounds ==
  ASSUME NEW a \in Nat, NEW w \in Nat, w > 0
  PROVE  /\ a \div w \in Nat
         /\ w * (a \div w) <= a
         /\ a < w * (a \div w) + w
  OBVIOUS

(* Multiplication by the same number keeps the order.                      *)
LEMMA MulMono ==
  ASSUME NEW a \in Nat, NEW b \in Nat, NEW c \in Nat, a <= b
  PROVE  a * c <= c * b
  OBVIOUS

(* Whoever takes no more than its share leaves the others theirs.          *)
LEMMA ShareTaken ==
  ASSUME NEW t \in Nat, NEW w \in Nat, NEW v \in Nat,
         NEW u \in Nat, NEW r \in Nat, NEW a \in Nat, NEW p \in Nat,
         u = r + a, t * u <= w * v, w * p <= a * t
  PROVE  t * r <= w * (v - p)
<1>1. t * u = t * r + a * t
  OBVIOUS
<1>2. w * (v - p) = w * v - w * p
  OBVIOUS
<1>3. t * u \in Int /\ w * v \in Int /\ w * p \in Int /\ a * t \in Int /\ t * r \in Int
  OBVIOUS
<1> QED
  BY <1>1, <1>2, <1>3

(* The product of two u64 fits the u128 intermediate.                      *)
LEMMA ProductFits ==
  ASSUME NEW m \in Nat, NEW a \in Nat, NEW t \in Nat, a <= m, t <= m
  PROVE  a * t < (m + 1) * (m + 1)
<1>1. a * t <= m * t /\ t * m <= m * m
  BY MulMono
<1>2. (m + 1) * (m + 1) = m * m + m + m + 1 /\ m * t = t * m
  OBVIOUS
<1>3. a * t \in Int /\ m * t \in Int /\ m * m \in Int
  OBVIOUS
<1> QED
  BY <1>1, <1>2, <1>3

(* A quotient is bounded by what bounds the dividend.                      *)
LEMMA DivAtMost ==
  ASSUME NEW a \in Nat, NEW w \in Nat, NEW v \in Nat, w > 0, a <= w * v
  PROVE  a \div w <= v
  OBVIOUS

-----------------------------------------------------------------------------
(* Type correctness.                                                       *)

(* A u64 is a natural number, and zero is one.                             *)
LEMMA U64Nat == U64 \subseteq Nat /\ 0 \in U64
  BY MaxU64Assumption DEF U64

(* Every payout the program computes is a natural number.                  *)
LEMMA PayoutNat ==
  ASSUME TypeOK, NEW b \in Bettor
  PROVE  /\ WinningPool \in Nat /\ TotalPool \in Nat /\ amount[b] \in Nat
         /\ Payout(b) \in Nat
<1>1. WinningPool \in Nat /\ TotalPool \in Nat /\ amount[b] \in Nat
  <2>1. yes_pool \in Nat /\ no_pool \in Nat /\ amount[b] \in Nat
    BY U64Nat DEF TypeOK
  <2> QED
    BY <2>1 DEF WinningPool, TotalPool
<1>2. CASE WinningPool = 0
  BY <1>1, <1>2 DEF Payout
<1>3. CASE WinningPool > 0
  <2>1. amount[b] * TotalPool \in Nat
    BY <1>1
  <2>2. (amount[b] * TotalPool) \div WinningPool \in Nat
    BY <1>1, <1>3, <2>1, DivBounds
  <2> QED
    BY <1>1, <1>3, <2>2 DEF Payout
<1> QED
  BY <1>1, <1>2, <1>3

(* A state before init_market is well typed.                               *)
LEMMA TypeInit == Init => TypeOK
<1> SUFFICES ASSUME Init PROVE TypeOK
  OBVIOUS
<1>1. wallet \in [Bettor -> U64]
  BY WalletsAssumption DEF Init
<1>2. outcome \in Side \cup {Unknown}
  BY DEF Init
<1> QED
  BY <1>1, <1>2, U64Nat DEF Init, TypeOK, Side

(* init_market: the new market's fields are well typed.                    *)
LEMMA TypeInitMarket ==
  ASSUME TypeOK, NEW t \in Terms, NEW ts \in LockTimes, InitMarket(t, ts)
  PROVE  TypeOK'
<1>1. outcome' \in Side \cup {Unknown} /\ lock_ts' \in Nat
  BY InputAssumption DEF InitMarket
<1> QED
  BY <1>1, U64Nat DEF TypeOK, InitMarket, positionVars, tokenVars

(* deposit: the checked additions and the transfer keep all five amounts   *)
(* within u64.                                                             *)
LEMMA TypeDeposit ==
  ASSUME TypeOK, NEW b \in Bettor, NEW n \in DepositAmounts,
         NEW s \in Side, Deposit(b, n, s)
  PROVE  TypeOK'
<1> USE DEF TypeOK, Deposit
<1>1. n \in Nat /\ n > 0
  BY InputAssumption, MaxU64Assumption DEF DepositAdmits, U64
<1>2. /\ amount[b] \in Nat /\ amount[b] + n \in U64
      /\ wallet[b] \in Nat /\ wallet[b] - n \in U64
      /\ vault \in Nat /\ vault + n \in U64
  BY <1>1, MaxU64Assumption DEF DepositAdmits, U64, Transferable
<1>3. yes_pool' \in U64 /\ no_pool' \in U64
  BY <1>1, MaxU64Assumption DEF DepositAdmits, U64
<1>4. amount' \in [Bettor -> U64] /\ wallet' \in [Bettor -> U64]
  BY <1>2
<1>5. vault' \in U64
  BY <1>2
<1>6. opened' \in [Bettor -> BOOLEAN] /\ side' \in [Bettor -> Side]
  OBVIOUS
<1> QED
  BY <1>3, <1>4, <1>5, <1>6

(* claim_payout: the transfer takes no more than the vault holds and does  *)
(* not overflow the claimant's account.                                    *)
LEMMA TypeClaimPayout ==
  ASSUME TypeOK, NEW b \in Bettor, ClaimPayout(b)
  PROVE  TypeOK'
<1> USE DEF TypeOK, ClaimPayout
<1>1. Payout(b) \in Nat
  BY PayoutNat
<1>2. /\ wallet[b] \in Nat /\ wallet[b] + Payout(b) \in U64
      /\ vault \in Nat /\ vault - Payout(b) \in U64
      /\ received[b] + Payout(b) \in Nat
  BY <1>1, MaxU64Assumption DEF ClaimPayoutAdmits, U64, Payable, Transferable
<1>3. /\ wallet' \in [Bettor -> U64] /\ received' \in [Bettor -> Nat]
      /\ claimed' \in [Bettor -> BOOLEAN] /\ vault' \in U64
  BY <1>2
<1> QED
  BY <1>3 DEF marketVars

(* A plain transfer to the vault keeps both balances within u64.           *)
LEMMA TypeGift ==
  ASSUME TypeOK, NEW b \in Bettor, NEW n \in DepositAmounts, Gift(b, n)
  PROVE  TypeOK'
<1> USE DEF TypeOK, Gift
<1>1. n \in Nat /\ n > 0
  BY InputAssumption, MaxU64Assumption DEF U64
<1>2. /\ wallet[b] \in Nat /\ wallet[b] - n \in U64
      /\ vault \in Nat /\ vault + n \in U64 /\ gifts + n \in Nat
  BY <1>1, MaxU64Assumption DEF U64, Transferable
<1>3. wallet' \in [Bettor -> U64] /\ vault' \in U64 /\ gifts' \in Nat
  BY <1>2
<1> QED
  BY <1>3 DEF marketVars, positionVars

(* What is issued is within the supply, and so is every balance.           *)
LEMMA TypeMintTo ==
  ASSUME TypeOK, NEW b \in Bettor, NEW n \in MintAmounts, MintTo(b, n)
  PROVE  TypeOK'
<1>1. /\ n \in Nat /\ wallet \in [Bettor -> U64] /\ wallet[b] \in U64
      /\ wallet[b] \in Nat /\ vault \in Nat /\ MaxU64 \in Nat
  BY InputAssumption, MaxU64Assumption DEF TypeOK, U64
<1>2. wallet[b] <= TotalOf(wallet, Bettor) /\ TotalOf(wallet, Bettor) \in Nat
  BY <1>1, BettorAssumption, TotalOfMember, UnitsFinite
<1>3. TotalOf(wallet, Bettor) + vault + n <= MaxU64
  BY DEF MintTo, MintAdmits
<1>4. wallet[b] + n \in U64
  BY <1>1, <1>2, <1>3 DEF U64
<1>5. wallet' \in [Bettor -> U64]
  BY <1>1, <1>4 DEF MintTo
<1> QED
  BY <1>5 DEF TypeOK, MintTo, marketVars, positionVars

(* Whatever the return-data buffer holds, it decodes to an outcome or to   *)
(* an error.                                                               *)
LEMMA DecodeType ==
  ASSUME NEW data
  PROVE  Decode(data) \in Side \cup {Unknown}
  BY DEF Decode, Side

(* Amounts, pools and balances stay within u64, in every reachable state.  *)
THEOREM TypeCorrect == Spec => []TypeOK
<1>1. Init => TypeOK
  BY TypeInit
<1>2. TypeOK /\ [Next]_vars => TypeOK'
  <2> SUFFICES ASSUME TypeOK, [Next]_vars
               PROVE  TypeOK'
    OBVIOUS
  <2>1. ASSUME NEW t \in Terms, NEW ts \in LockTimes, InitMarket(t, ts)
        PROVE  TypeOK'
    BY <2>1, TypeInitMarket
  <2>2. ASSUME NEW b \in Bettor, NEW n \in DepositAmounts, NEW s \in Side,
               Deposit(b, n, s)
        PROVE  TypeOK'
    BY <2>2, TypeDeposit
  <2>3. CASE LockMarket
    BY <2>3 DEF LockMarket, TypeOK, positionVars, tokenVars
  <2>4. CASE ResolveSome
    BY <2>4, DecodeType
    DEF ResolveSome, Resolve, TypeOK, positionVars, tokenVars
  <2>5. ASSUME NEW b \in Bettor, ClaimPayout(b)
        PROVE  TypeOK'
    BY <2>5, TypeClaimPayout
  <2>6. ASSUME NEW b \in Bettor, NEW n \in DepositAmounts, Gift(b, n)
        PROVE  TypeOK'
    BY <2>6, TypeGift
  <2>7. ASSUME NEW sn \in Snapshots, PublishRoot(sn)
        PROVE  TypeOK'
    BY <2>7 DEF PublishRoot, TypeOK, marketVars, positionVars, tokenVars
  <2>8. CASE Tick
    BY <2>8 DEF Tick, TypeOK, marketVars, positionVars, tokenVars
  <2>9. CASE UNCHANGED vars
    BY <2>9 DEF TypeOK, vars, marketVars, positionVars, tokenVars
  <2>10. ASSUME NEW b \in Bettor, NEW n \in MintAmounts, MintTo(b, n)
        PROVE  TypeOK'
    BY <2>10, TypeMintTo
  <2> QED
    BY <2>1, <2>2, <2>3, <2>4, <2>5, <2>6, <2>7, <2>8, <2>9, <2>10
    DEF Next
<1> QED
  BY <1>1, <1>2, PTL DEF Spec

-----------------------------------------------------------------------------
(* The inductive invariant.  Solvency itself is not inductive: that the    *)
(* vault covers each claim says nothing of what is left for the others.    *)
(* What a claim preserves is Funded: the stakes still to be paid, scaled   *)
(* by the ratio of the total to the winning pool, are in the vault.        *)

Unpaid == {b \in Bettor : Claimable(b)}

(* How far the market has come and what that says of its positions.        *)
Staged ==
  /\ resolved => locked
  /\ locked => created
  /\ resolved <=> outcome # Unknown
  /\ \A b \in Bettor : /\ opened[b] => created
                       /\ ~opened[b] => amount[b] = 0
                       /\ claimed[b] => resolved

(* All balances together are still within one mint's supply, and so are    *)
(* the pools.                                                              *)
Supplied ==
  /\ TotalOf(wallet, Bettor) + vault <= MaxU64
  /\ TotalPool <= MaxU64

Funded ==
  IF ~resolved THEN TotalPool <= vault
  ELSE IF WinningPool = 0 THEN TotalOf(amount, Unpaid) <= vault
  ELSE TotalPool * TotalOf(amount, Unpaid) <= WinningPool * vault

IInv == TypeOK /\ Staged /\ PoolsMatchPositions /\ Supplied /\ Funded

(* Any set of bettors is finite, and its stakes add up to a number.        *)
LEMMA BettorSums ==
  ASSUME NEW S \in SUBSET Bettor, NEW f
  PROVE  IsFiniteSet(S) /\ TotalOf(f, S) \in Nat
  BY BettorAssumption, FS_Subset, UnitsFinite

(* Nothing is staked, owed or in the vault at the start.                   *)
LEMMA IInvInit == Init => IInv
<1> SUFFICES ASSUME Init PROVE IInv
  OBVIOUS
<1>1. TypeOK
  BY TypeInit
<1>2. Staged
  BY DEF Init, Staged
<1>3. TotalOf(amount, Backers(Yes)) = 0 /\ TotalOf(amount, Backers(No)) = 0
  BY TotalOfZero DEF Init, Backers
<1>4. PoolsMatchPositions
  BY <1>3 DEF Init, PoolsMatchPositions
<1>5. TotalOf(wallet, Bettor) <= MaxU64 /\ TotalOf(wallet, Bettor) \in Nat
  BY WalletsAssumption, BettorSums DEF Init
<1>6. Supplied /\ Funded
  BY <1>5, MaxU64Assumption DEF Init, Supplied, Funded, TotalPool
<1> QED
  BY <1>1, <1>2, <1>4, <1>6 DEF IInv

(* Before the market exists there is nothing in its pools.                 *)
LEMMA IInvInitMarket ==
  ASSUME IInv, NEW t \in Terms, NEW ts \in LockTimes, InitMarket(t, ts)
  PROVE  IInv'
<1> USE DEF IInv
<1>1. TypeOK'
  BY TypeInitMarket
<1>2. /\ UNCHANGED <<opened, side, amount, claimed, wallet, vault>>
      /\ yes_pool' = 0 /\ no_pool' = 0 /\ ~locked' /\ ~resolved'
      /\ created' /\ ~created /\ outcome' = Unknown
  BY DEF InitMarket, InitMarketAdmits, positionVars, tokenVars
<1>3. \A b \in Bettor : ~opened[b] /\ amount[b] = 0 /\ ~claimed[b]
  BY <1>2 DEF Staged, TypeOK
<1>4. Staged'
  BY <1>2, <1>3 DEF Staged
<1>5. PoolsMatchPositions'
  <2>1. \A s : TotalOf(amount, Backers(s)') = 0
    BY <1>2, <1>3, TotalOfZero DEF Backers
  <2> QED
    BY <1>2, <2>1 DEF PoolsMatchPositions
<1>6. Supplied'
  BY <1>2, MaxU64Assumption DEF Supplied, TotalPool
<1>7. Funded'
  <2>1. vault \in Nat
    BY U64Nat DEF TypeOK
  <2> QED
    BY <1>2, <2>1 DEF Funded, TotalPool
<1> QED
  BY <1>1, <1>4, <1>5, <1>6, <1>7

(* A change of one bettor's stake moves a sum that includes it by as much.  *)
LEMMA StakeUpdate ==
  ASSUME amount \in [Bettor -> U64], amount' \in [Bettor -> U64],
         NEW T \in SUBSET Bettor, NEW b \in T,
         \A c \in Bettor \ {b} : amount'[c] = amount[c]
  PROVE  TotalOf(amount', T) = TotalOf(amount, T) - amount[b] + amount'[b]
<1>1. IsFiniteSet(T)
  BY BettorSums
<1> QED
  BY <1>1, TotalOfUpdate

(* The pools follow the positions: the depositor's side grows by n whether *)
(* its position is new or not, the other side's backers are untouched.     *)
LEMMA DepositPools ==
  ASSUME TypeOK, Staged, PoolsMatchPositions, NEW b \in Bettor,
         NEW n \in DepositAmounts, NEW s \in Side, Deposit(b, n, s)
  PROVE  PoolsMatchPositions'
<1> DEFINE S == Backers(s)
<1>1. n \in Nat /\ amount[b] \in U64 /\ amount[b] \in Nat
  BY InputAssumption, U64Nat DEF TypeOK
<1>2. amount[b] + n \in U64
  BY <1>1, MaxU64Assumption DEF Deposit, DepositAdmits, U64
<1>3. amount' = [amount EXCEPT ![b] = amount[b] + n]
  BY DEF Deposit
<1>4. Backers(s)' = S \cup {b}
  BY DEF Backers, Deposit, SideAgrees, TypeOK
<1>5. TotalOf(amount, S \cup {b}) = TotalOf(amount, S)
  <2>1. CASE b \in S
    <3>1. S \cup {b} = S
      BY <2>1
    <3> QED BY <3>1
  <2>2. CASE b \notin S
    <3>1. ~opened[b]
      BY <2>2 DEF Backers, Deposit, DepositAdmits, SideAgrees
    <3>2. amount[b] = 0
      BY <3>1 DEF Staged
    <3>3. IsFiniteSet(S) /\ TotalOf(amount, S) \in Nat
      BY BettorSums DEF Backers
    <3>4. TotalOf(amount, S \cup {b}) = TotalOf(amount, S) + amount[b]
      BY <1>1, <2>2, <3>3, TotalOfAdd
    <3> QED BY <3>2, <3>3, <3>4
  <2> QED BY <2>1, <2>2
<1>6. TotalOf(amount, Backers(s))' = TotalOf(amount, Backers(s)) + n
  <2>1. S \cup {b} \in SUBSET Bettor /\ b \in S \cup {b}
    BY DEF Backers
  <2>2. IsFiniteSet(S \cup {b}) /\ TotalOf(amount, S \cup {b}) \in Nat
    BY <2>1, BettorSums
  <2>3. /\ \A c \in Bettor \ {b} : amount'[c] = amount[c]
        /\ amount \in [Bettor -> U64] /\ amount' \in [Bettor -> U64]
    BY <1>2, <1>3 DEF TypeOK
  <2>4. TotalOf(amount', S \cup {b})
          = TotalOf(amount, S \cup {b}) - amount[b] + amount'[b]
    BY <2>1, <2>3, StakeUpdate
  <2>5. amount'[b] = amount[b] + n
    BY <1>3, <2>3
  <2> QED
    BY <1>1, <1>4, <1>5, <2>2, <2>4, <2>5
<1>7. ASSUME NEW r \in Side, r # s
      PROVE  TotalOf(amount, Backers(r))' = TotalOf(amount, Backers(r))
  <2>1. Backers(r)' = Backers(r) /\ b \notin Backers(r)
    BY <1>7 DEF Backers, Deposit, DepositAdmits, SideAgrees, TypeOK
  <2>2. \A c \in Backers(r) : amount'[c] = amount[c]
    BY <1>3, <2>1 DEF Backers, TypeOK
  <2> QED
    BY <2>1, <2>2, TotalOfCongruence
<1> QED
  BY <1>6, <1>7 DEF PoolsMatchPositions, Deposit, Side, Yes, No

(* A transfer out of or into one bettor's account moves the sum by as much. *)
LEMMA WalletUpdate ==
  ASSUME TypeOK, TypeOK', NEW b \in Bettor,
         \A c \in Bettor \ {b} : wallet'[c] = wallet[c]
  PROVE  TotalOf(wallet, Bettor)'
           = TotalOf(wallet, Bettor) - wallet[b] + wallet'[b]
<1>1. wallet \in [Bettor -> U64] /\ wallet' \in [Bettor -> U64]
  BY DEF TypeOK
<1> QED
  BY <1>1, BettorAssumption, TotalOfUpdate

(* A deposit adds as much to a pool as to the vault and to its position,   *)
(* and the depositor pays it.                                              *)
LEMMA IInvDeposit ==
  ASSUME IInv, NEW b \in Bettor, NEW n \in DepositAmounts, NEW s \in Side,
         Deposit(b, n, s)
  PROVE  IInv'
<1> USE DEF IInv
<1>1. TypeOK'
  BY TypeDeposit
<1>2. /\ created /\ ~locked /\ ~resolved /\ ~resolved'
      /\ UNCHANGED <<created, locked, resolved, outcome, claimed>>
  BY DEF Deposit, DepositAdmits, DepositWindowOpen, Staged
<1>3. Staged'
  BY <1>2 DEF Staged, Deposit, TypeOK
<1>4. PoolsMatchPositions'
  BY DepositPools
<1>5. /\ n \in Nat /\ yes_pool \in Nat /\ no_pool \in Nat /\ vault \in Nat
      /\ wallet[b] \in Nat /\ wallet[b] - n \in U64
  BY InputAssumption, U64Nat, MaxU64Assumption
  DEF TypeOK, Deposit, DepositAdmits, Transferable, U64
<1>6. TotalPool' = TotalPool + n /\ vault' = vault + n
  BY <1>5 DEF TotalPool, Deposit
<1>7. TotalOf(wallet, Bettor)' = TotalOf(wallet, Bettor) - n
  <2>1. /\ \A c \in Bettor \ {b} : wallet'[c] = wallet[c]
        /\ wallet'[b] = wallet[b] - n
    BY DEF Deposit, TypeOK
  <2>2. TotalOf(wallet, Bettor)'
          = TotalOf(wallet, Bettor) - wallet[b] + wallet'[b]
    BY <1>1, <2>1, WalletUpdate
  <2>3. TotalOf(wallet, Bettor) \in Nat
    BY BettorSums
  <2> QED
    BY <1>5, <2>1, <2>2, <2>3
<1>8. TotalOf(wallet, Bettor) \in Nat /\ TotalOf(wallet, Bettor)' \in Nat
  BY BettorSums
<1>9. TotalPool <= vault /\ TotalPool \in Nat
  BY <1>2, <1>5 DEF Funded, TotalPool
<1>10. Supplied'
  BY <1>5, <1>6, <1>7, <1>8, <1>9, MaxU64Assumption DEF Supplied
<1>11. Funded'
  BY <1>2, <1>5, <1>6, <1>9 DEF Funded
<1> QED
  BY <1>1, <1>3, <1>4, <1>10, <1>11

(* When the outcome is recorded nobody has been paid: the claimants are    *)
(* the backers of the winning side, or everybody if it has none.           *)
LEMMA ClaimantsAtResolve ==
  ASSUME IInv, ResolveSome
  PROVE  /\ WinningPool' \in Nat
         /\ TotalOf(amount, Unpaid)' = IF WinningPool' = 0 THEN TotalPool
                                       ELSE WinningPool'
<1> USE DEF IInv
<1>1. /\ ~resolved /\ outcome' \in Side
      /\ UNCHANGED <<yes_pool, no_pool, opened, side, amount, claimed>>
  BY DecodeType DEF ResolveSome, Resolve, ResolveAdmits, positionVars
<1>2. WinningPool' = TotalOf(amount, Backers(outcome')) /\ WinningPool' \in Nat
  BY <1>1, BettorSums DEF WinningPool, PoolsMatchPositions, Backers, Side, Yes, No
<1>3. Unpaid' = {b \in Bettor : Eligible(b)'}
  BY <1>1 DEF Unpaid, Claimable, Staged
<1>4. CASE WinningPool' = 0
  <2>1. Unpaid' = Backers(Yes) \cup Backers(No)
    BY <1>1, <1>3, <1>4
    DEF Eligible, WinningPool, Backers, TypeOK, Side, Yes, No
  <2>2. Backers(Yes) \cap Backers(No) = {}
    BY DEF Backers, Yes, No
  <2>3. TotalOf(amount, Unpaid') = TotalPool
    BY <2>1, <2>2, BettorSums, TotalOfDisjoint
    DEF Backers, PoolsMatchPositions, TotalPool
  <2> QED
    BY <1>1, <1>2, <1>4, <2>3
<1>5. CASE WinningPool' # 0
  <2>1. Unpaid' = Backers(outcome')
    BY <1>1, <1>3, <1>5
    DEF Eligible, WinningPool, Backers, TypeOK, Side, Yes, No
  <2> QED
    BY <1>1, <1>2, <1>5, <2>1
<1> QED
  BY <1>4, <1>5

(* So what they staked, scaled, is all that was staked: it is in the vault. *)
LEMMA IInvResolve ==
  ASSUME IInv, ResolveSome
  PROVE  IInv'
<1> USE DEF IInv
<1>1. /\ created /\ locked /\ ~resolved /\ resolved'
      /\ outcome' \in Side
      /\ UNCHANGED <<created, terms, lock_ts, yes_pool, no_pool, locked,
                     opened, side, amount, claimed, wallet, vault, received,
                     gifts, roots, now>>
  BY DecodeType DEF ResolveSome, Resolve, ResolveAdmits, positionVars, tokenVars
<1>2. TypeOK'
  BY <1>1 DEF TypeOK
<1>3. outcome' # Unknown
  BY <1>1 DEF Side, Yes, No, Unknown
<1>4. Staged'
  BY <1>1, <1>3 DEF Staged
<1>5. PoolsMatchPositions' /\ Supplied'
  BY <1>1 DEF PoolsMatchPositions, Backers, Supplied, TotalPool
<1>6. /\ yes_pool \in Nat /\ no_pool \in Nat /\ vault \in Nat
      /\ TotalPool \in Nat /\ TotalPool <= vault /\ TotalPool' = TotalPool
  BY <1>1, U64Nat DEF TypeOK, Funded, TotalPool
<1>7. /\ WinningPool' \in Nat
      /\ TotalOf(amount, Unpaid)' = IF WinningPool' = 0 THEN TotalPool
                                    ELSE WinningPool'
  BY ClaimantsAtResolve
<1>8. TotalPool * WinningPool' <= WinningPool' * vault
  BY <1>6, <1>7, MulMono
<1>9. Funded'
  BY <1>1, <1>6, <1>7, <1>8 DEF Funded
<1> QED
  BY <1>2, <1>4, <1>5, <1>9

(* The claimant leaves the unpaid and takes no more than its share of what *)
(* is set aside for them.                                                  *)
LEMMA ClaimFunded ==
  ASSUME IInv, NEW b \in Bettor, ClaimPayout(b)
  PROVE  Funded'
<1> USE DEF IInv
<1> DEFINE p == Payout(b)
           U == TotalOf(amount, Unpaid)
           R == TotalOf(amount, Unpaid \ {b})
           a == amount[b]
<1>1. /\ resolved /\ resolved' /\ vault' = vault - p
      /\ UNCHANGED <<yes_pool, no_pool, outcome, amount, opened, side>>
  BY DEF ClaimPayout, ClaimPayoutAdmits, marketVars
<1>2. UNCHANGED <<WinningPool, TotalPool>>
  BY <1>1 DEF WinningPool, TotalPool
<1>3. b \in Unpaid /\ Unpaid' = Unpaid \ {b}
  BY <1>1 DEF Unpaid, Claimable, Eligible, ClaimPayout, ClaimPayoutAdmits,
    TypeOK
<1>4. a \in U64
  BY DEF TypeOK
<1>5. U = R + a
  BY <1>3, <1>4, BettorSums, TotalOfRemove DEF Unpaid
<1>6. U \in Nat /\ R \in Nat
  BY BettorSums DEF Unpaid
<1>7. TotalOf(amount, Unpaid)' = R
  BY <1>1, <1>3
<1>8. /\ WinningPool \in Nat /\ TotalPool \in Nat /\ a \in Nat /\ p \in Nat
      /\ vault \in Nat
  BY PayoutNat, U64Nat DEF TypeOK
<1>9. CASE WinningPool = 0
  <2>1. p = a /\ U <= vault
    BY <1>1, <1>9 DEF Payout, Funded
  <2>2. R <= vault - p
    BY <1>5, <1>6, <1>8, <2>1
  <2> QED
    BY <1>1, <1>2, <1>7, <1>9, <2>2 DEF Funded
<1>10. CASE WinningPool # 0
  <2>1. TotalPool * U <= WinningPool * vault
    BY <1>1, <1>10 DEF Funded
  <2>2. WinningPool * p <= a * TotalPool
    <3>1. a * TotalPool \in Nat /\ WinningPool > 0
      BY <1>8, <1>10
    <3>2. p = (a * TotalPool) \div WinningPool
      BY <1>10 DEF Payout
    <3> QED
      BY <1>8, <3>1, <3>2, DivBounds
  <2>3. TotalPool * R <= WinningPool * (vault - p)
    BY <1>5, <1>6, <1>8, <2>1, <2>2, ShareTaken
  <2> QED
    BY <1>1, <1>2, <1>7, <1>10, <2>3 DEF Funded
<1> QED
  BY <1>9, <1>10

(* A claim preserves the invariant: ClaimFunded, and no stake or pool moves. *)
LEMMA IInvClaimPayout ==
  ASSUME IInv, NEW b \in Bettor, ClaimPayout(b)
  PROVE  IInv'
<1> USE DEF IInv
<1>1. TypeOK'
  BY TypeClaimPayout
<1>2. /\ resolved
      /\ UNCHANGED <<created, locked, resolved, outcome, yes_pool, no_pool,
                     opened, side, amount>>
  BY DEF ClaimPayout, ClaimPayoutAdmits, marketVars
<1>3. Staged'
  BY <1>2 DEF Staged
<1>4. PoolsMatchPositions'
  BY <1>2 DEF PoolsMatchPositions, Backers
<1>5. Supplied'
  <2>1. /\ \A c \in Bettor \ {b} : wallet'[c] = wallet[c]
        /\ wallet'[b] = wallet[b] + Payout(b)
        /\ vault' = vault - Payout(b)
    BY DEF ClaimPayout, TypeOK
  <2>2. TotalOf(wallet, Bettor)'
          = TotalOf(wallet, Bettor) - wallet[b] + wallet'[b]
    BY <1>1, <2>1, WalletUpdate
  <2>3. Payout(b) \in Nat /\ TotalOf(wallet, Bettor) \in Nat
    BY PayoutNat, BettorSums
  <2>4. wallet[b] \in Nat /\ vault \in Nat
    BY MaxU64Assumption DEF TypeOK, U64
  <2>5. (TotalOf(wallet, Bettor) + vault)' = TotalOf(wallet, Bettor) + vault
    BY <2>1, <2>2, <2>3, <2>4
  <2> QED
    BY <1>2, <2>5 DEF Supplied, TotalPool
<1>6. Funded'
  BY ClaimFunded
<1> QED
  BY <1>1, <1>3, <1>4, <1>5, <1>6

(* A gift only adds to the vault, out of the supply.                       *)
LEMMA IInvGift ==
  ASSUME IInv, NEW b \in Bettor, NEW n \in DepositAmounts, Gift(b, n)
  PROVE  IInv'
<1> USE DEF IInv
<1>1. TypeOK'
  BY TypeGift
<1>2. UNCHANGED <<created, locked, resolved, outcome, yes_pool, no_pool,
                  opened, side, amount, claimed>>
  BY DEF Gift, marketVars, positionVars
<1>3. Staged' /\ PoolsMatchPositions'
  BY <1>2 DEF Staged, PoolsMatchPositions, Backers
<1>4. /\ n \in Nat /\ vault' = vault + n /\ vault \in Nat /\ wallet[b] \in Nat
      /\ wallet'[b] = wallet[b] - n
      /\ \A c \in Bettor \ {b} : wallet'[c] = wallet[c]
  BY InputAssumption, MaxU64Assumption DEF Gift, TypeOK, U64
<1>5. Supplied'
  <2>1. TotalOf(wallet, Bettor)'
          = TotalOf(wallet, Bettor) - wallet[b] + wallet'[b]
    BY <1>1, <1>4, WalletUpdate
  <2>2. TotalOf(wallet, Bettor) \in Nat
    BY BettorSums
  <2>3. (TotalOf(wallet, Bettor) + vault)' = TotalOf(wallet, Bettor) + vault
    BY <1>4, <2>1, <2>2
  <2> QED
    BY <1>2, <2>3 DEF Supplied, TotalPool
<1>6. Funded'
  <2>1. UNCHANGED <<WinningPool, TotalPool, Unpaid>>
    BY <1>2 DEF WinningPool, TotalPool, Unpaid, Claimable, Eligible
  <2>2. /\ WinningPool \in Nat /\ TotalPool \in Nat
        /\ TotalOf(amount, Unpaid) \in Nat
    BY PayoutNat, BettorSums DEF Unpaid
  <2>3. WinningPool * vault <= WinningPool * vault'
    BY <1>4, <2>2, MulMono
  <2> QED
    BY <1>2, <1>4, <2>1, <2>2, <2>3 DEF Funded
<1> QED
  BY <1>1, <1>3, <1>5, <1>6

(* What is issued stays within the supply, and the vault has no part in it. *)
LEMMA IInvMintTo ==
  ASSUME IInv, NEW b \in Bettor, NEW n \in MintAmounts, MintTo(b, n)
  PROVE  IInv'
<1> USE DEF IInv
<1>1. TypeOK'
  BY TypeMintTo
<1>2. UNCHANGED <<created, locked, resolved, outcome, yes_pool, no_pool,
                  opened, side, amount, claimed, vault>>
  BY DEF MintTo, marketVars, positionVars
<1>3. Staged' /\ PoolsMatchPositions'
  BY <1>2 DEF Staged, PoolsMatchPositions, Backers
<1>4. Supplied'
  <2>1. /\ n \in Nat /\ vault \in Nat /\ wallet[b] \in Nat
        /\ wallet'[b] = wallet[b] + n
        /\ \A c \in Bettor \ {b} : wallet'[c] = wallet[c]
    BY InputAssumption, MaxU64Assumption DEF MintTo, TypeOK, U64
  <2>2. TotalOf(wallet, Bettor)'
          = TotalOf(wallet, Bettor) - wallet[b] + wallet'[b]
    BY <1>1, <2>1, WalletUpdate
  <2>3. TotalOf(wallet, Bettor) \in Nat
    BY BettorSums
  <2>4. (TotalOf(wallet, Bettor) + vault)' = TotalOf(wallet, Bettor) + vault + n
    BY <1>2, <2>1, <2>2, <2>3
  <2> QED
    BY <1>2, <2>4 DEF Supplied, TotalPool, MintTo, MintAdmits
<1>5. UNCHANGED <<WinningPool, TotalPool, Unpaid>>
  BY <1>2 DEF WinningPool, TotalPool, Unpaid, Claimable, Eligible
<1>6. Funded'
  BY <1>2, <1>5 DEF Funded
<1> QED
  BY <1>1, <1>3, <1>4, <1>6

(* The steps that touch neither tokens nor stakes nor the outcome.         *)
LEMMA IInvFrame ==
  ASSUME IInv, TypeOK',
         UNCHANGED <<created, resolved, outcome, yes_pool, no_pool,
                     positionVars, wallet, vault>>,
         locked' => created, resolved => locked'
  PROVE  IInv'
<1> USE DEF IInv
<1>1. Staged' /\ PoolsMatchPositions' /\ Supplied'
  BY DEF Staged, PoolsMatchPositions, Backers, Supplied, TotalPool, positionVars
<1>2. UNCHANGED <<WinningPool, TotalPool, Unpaid, amount, vault, resolved>>
  BY DEF WinningPool, TotalPool, Unpaid, Claimable, Eligible, positionVars
<1>3. Funded'
  BY <1>2 DEF Funded
<1> QED
  BY <1>1, <1>3

(* Every reachable state is staged, supplied and funded.                   *)
THEOREM Inductive == Spec => []IInv
<1>1. Init => IInv
  BY IInvInit
<1>2. IInv /\ [Next]_vars => IInv'
  <2> SUFFICES ASSUME IInv, [Next]_vars
               PROVE  IInv'
    OBVIOUS
  <2>0. TypeOK /\ (resolved => locked) /\ (locked => created)
    BY DEF IInv, Staged
  <2>1. ASSUME NEW t \in Terms, NEW ts \in LockTimes, InitMarket(t, ts)
        PROVE  IInv'
    BY <2>1, IInvInitMarket
  <2>2. ASSUME NEW b \in Bettor, NEW n \in DepositAmounts, NEW s \in Side,
               Deposit(b, n, s)
        PROVE  IInv'
    BY <2>2, IInvDeposit
  <2>3. CASE LockMarket
    <3>1. TypeOK'
      BY <2>0, <2>3 DEF LockMarket, TypeOK, positionVars, tokenVars
    <3> QED
      BY <2>0, <2>3, <3>1, IInvFrame DEF LockMarket, LockMarketAdmits, tokenVars
  <2>4. CASE ResolveSome
    BY <2>4, IInvResolve
  <2>5. ASSUME NEW b \in Bettor, ClaimPayout(b)
        PROVE  IInv'
    BY <2>5, IInvClaimPayout
  <2>6. ASSUME NEW b \in Bettor, NEW n \in DepositAmounts, Gift(b, n)
        PROVE  IInv'
    BY <2>6, IInvGift
  <2>7. ASSUME NEW sn \in Snapshots, PublishRoot(sn)
        PROVE  IInv'
    <3>1. TypeOK'
      BY <2>0, <2>7 DEF PublishRoot, TypeOK, marketVars, positionVars, tokenVars
    <3> QED
      BY <2>0, <2>7, <3>1, IInvFrame DEF PublishRoot, marketVars, tokenVars
  <2>8. CASE Tick
    <3>1. TypeOK'
      BY <2>0, <2>8 DEF Tick, TypeOK, marketVars, positionVars, tokenVars
    <3> QED
      BY <2>0, <2>8, <3>1, IInvFrame DEF Tick, marketVars, tokenVars
  <2>9. CASE UNCHANGED vars
    <3>1. TypeOK'
      BY <2>0, <2>9 DEF TypeOK, vars, marketVars, positionVars, tokenVars
    <3> QED
      BY <2>0, <2>9, <3>1, IInvFrame DEF vars, marketVars, tokenVars
  <2>10. ASSUME NEW b \in Bettor, NEW n \in MintAmounts, MintTo(b, n)
        PROVE  IInv'
    BY <2>10, IInvMintTo
  <2> QED
    BY <2>1, <2>2, <2>3, <2>4, <2>5, <2>6, <2>7, <2>8, <2>9, <2>10
    DEF Next
<1> QED
  BY <1>1, <1>2, PTL DEF Spec

-----------------------------------------------------------------------------
(* What follows from it.                                                   *)

(* A claim's payout is in the vault: of the stakes still unpaid, scaled,   *)
(* the claimant's own is one part.                                         *)
LEMMA PayoutInVault ==
  ASSUME IInv, resolved, NEW b \in Bettor, Claimable(b)
  PROVE  Payout(b) <= vault
<1> USE DEF IInv
<1>1. b \in Unpaid /\ amount[b] \in U64
  BY DEF Unpaid, TypeOK
<1>2. IsFiniteSet(Unpaid) /\ TotalOf(amount, Unpaid) \in Nat
  BY BettorSums DEF Unpaid
<1>3. amount[b] <= TotalOf(amount, Unpaid)
  BY <1>1, <1>2, TotalOfMember
<1>4. /\ WinningPool \in Nat /\ TotalPool \in Nat /\ amount[b] \in Nat
      /\ vault \in Nat
  BY PayoutNat, U64Nat DEF TypeOK
<1>5. CASE WinningPool = 0
  <2>1. Payout(b) = amount[b] /\ TotalOf(amount, Unpaid) <= vault
    BY <1>5 DEF Payout, Funded
  <2> QED
    BY <1>2, <1>3, <1>4, <2>1
<1>6. CASE WinningPool # 0
  <2>1. TotalPool * TotalOf(amount, Unpaid) <= WinningPool * vault
    BY <1>6 DEF Funded
  <2>2. amount[b] * TotalPool <= TotalPool * TotalOf(amount, Unpaid)
    BY <1>2, <1>3, <1>4, MulMono
  <2>3. /\ amount[b] * TotalPool \in Nat /\ WinningPool * vault \in Nat
        /\ TotalPool * TotalOf(amount, Unpaid) \in Nat /\ WinningPool > 0
    BY <1>2, <1>4, <1>6
  <2>4. amount[b] * TotalPool <= WinningPool * vault
    BY <2>1, <2>2, <2>3
  <2>5. (amount[b] * TotalPool) \div WinningPool <= vault
    BY <1>4, <2>3, <2>4, DivAtMost
  <2> QED
    BY <1>6, <2>5 DEF Payout
<1> QED
  BY <1>5, <1>6

(* None of the checks of claim_payout's arithmetic and transfer can fail    *)
(* for a claim that is due.                                                *)
LEMMA ClaimsPayable ==
  ASSUME IInv, resolved, NEW b \in Bettor, Claimable(b)
  PROVE  Payable(b)
<1> USE DEF IInv
<1>1. Payout(b) <= vault
  BY PayoutInVault
<1>2. /\ Payout(b) \in Nat /\ TotalPool \in Nat /\ amount[b] \in Nat
      /\ vault \in Nat /\ vault <= MaxU64 /\ amount[b] <= MaxU64
      /\ MaxU64 \in Nat
  BY PayoutNat, MaxU64Assumption DEF TypeOK, U64
<1>3. TotalPool <= MaxU64
  BY DEF Supplied
<1>4. amount[b] * TotalPool < (MaxU64 + 1) * (MaxU64 + 1)
  BY <1>2, <1>3, ProductFits
<1>5. wallet[b] + vault <= MaxU64
  <2>1. wallet[b] \in U64 /\ wallet[b] \in Nat
    BY MaxU64Assumption DEF TypeOK, U64
  <2>2. wallet[b] <= TotalOf(wallet, Bettor) /\ TotalOf(wallet, Bettor) \in Nat
    BY <2>1, BettorSums, BettorAssumption, TotalOfMember
  <2>3. TotalOf(wallet, Bettor) + vault <= MaxU64
    BY DEF Supplied
  <2> QED
    BY <1>2, <2>1, <2>2, <2>3
<1>6. wallet[b] \in Nat
  BY MaxU64Assumption DEF TypeOK, U64
<1>7. Transferable(Payout(b), vault, wallet[b])
  BY <1>1, <1>2, <1>5, <1>6 DEF Transferable
<1>8. Payout(b) <= MaxU64
  BY <1>1, <1>2
<1> QED
  BY <1>3, <1>4, <1>7, <1>8 DEF Payable, Staged

(* Solvency, for any number of bettors, any stakes, any order of claims    *)
(* and any width of the amounts: no eligible claim can be made to revert.  *)
THEOREM Solvency == Spec => []EligibleClaimsPayable
<1>1. IInv => EligibleClaimsPayable
  BY ClaimsPayable DEF EligibleClaimsPayable
<1> QED
  BY <1>1, Inductive, PTL

(* The pools are the sums of the positions in every reachable state.       *)
THEOREM PoolsConsistent == Spec => []PoolsMatchPositions
<1>1. IInv => PoolsMatchPositions
  BY DEF IInv
<1> QED
  BY <1>1, Inductive, PTL

-----------------------------------------------------------------------------
(* What a resolved market is held to: the outcome is the oracle's, stakes  *)
(* do not move once deposits have closed, each bettor is paid once and in  *)
(* full, next to nothing is left behind, and all this is what the ideal    *)
(* pari-mutuel market promises.                                            *)

(* Steps other than deposit leave stakes, sides and pools alone, with the  *)
(* exception of init_market, before which there are none; and a deposit    *)
(* needs an open window.                                                   *)
THEOREM Frozen == Spec => StakesFrozen
<1> DEFINE Closed == created /\ (locked \/ now > lock_ts)
           Stakes == <<opened, side, amount, yes_pool, no_pool>>
<1>1. TypeOK /\ [Next]_vars => (Closed => UNCHANGED Stakes)
  <2> SUFFICES ASSUME TypeOK, [Next]_vars, Closed
               PROVE  UNCHANGED Stakes
    OBVIOUS
  <2>1. ASSUME NEW t \in Terms, NEW ts \in LockTimes, InitMarket(t, ts)
        PROVE  FALSE
    BY <2>1 DEF InitMarket, InitMarketAdmits
  <2>2. ASSUME NEW b \in Bettor, NEW n \in DepositAmounts, NEW s \in Side,
               Deposit(b, n, s)
        PROVE  FALSE
    BY <2>2 DEF Deposit, DepositAdmits, DepositWindowOpen, TypeOK
  <2>3. ASSUME NEW b \in Bettor, ClaimPayout(b)
        PROVE  UNCHANGED Stakes
    BY <2>3 DEF ClaimPayout, marketVars
  <2>4. ASSUME NEW b \in Bettor, NEW n \in DepositAmounts, Gift(b, n)
        PROVE  UNCHANGED Stakes
    BY <2>4 DEF Gift, marketVars, positionVars
  <2>5. ASSUME NEW sn \in Snapshots, PublishRoot(sn)
        PROVE  UNCHANGED Stakes
    BY <2>5 DEF PublishRoot, marketVars, positionVars
  <2>6. CASE LockMarket
    BY <2>6 DEF LockMarket, positionVars
  <2>7. CASE ResolveSome
    BY <2>7 DEF ResolveSome, Resolve, positionVars
  <2>8. CASE Tick
    BY <2>8 DEF Tick, marketVars, positionVars
  <2>9. CASE UNCHANGED vars
    BY <2>9 DEF vars, marketVars, positionVars
  <2>10. ASSUME NEW b \in Bettor, NEW n \in MintAmounts, MintTo(b, n)
        PROVE  UNCHANGED Stakes
    BY <2>10 DEF MintTo, marketVars, positionVars
  <2> QED
    BY <2>1, <2>2, <2>3, <2>4, <2>5, <2>6, <2>7, <2>8, <2>9, <2>10
    DEF Next
<1> QED
  BY <1>1, TypeCorrect, PTL DEF Spec, StakesFrozen

(* An opened position holds a stake: deposit() of zero is refused.         *)
OpenedStaked == \A b \in Bettor : opened[b] => amount[b] > 0

SInv == IInv /\ OpenedStaked

(* The only step that opens a position puts a stake into it, and no step   *)
(* takes one out.                                                          *)
LEMMA StakesStay == Spec => []SInv
<1>1. Init => OpenedStaked
  BY DEF Init, OpenedStaked
<1>2. IInv /\ OpenedStaked /\ [Next]_vars => OpenedStaked'
  <2> SUFFICES ASSUME IInv, OpenedStaked, [Next]_vars
               PROVE  OpenedStaked'
    OBVIOUS
  <2>0. ASSUME UNCHANGED <<opened, amount>>
        PROVE  OpenedStaked'
    BY <2>0 DEF OpenedStaked
  <2>1. ASSUME NEW b \in Bettor, NEW n \in DepositAmounts, NEW s \in Side,
               Deposit(b, n, s)
        PROVE  OpenedStaked'
    <3>1. n \in Nat /\ n > 0 /\ amount[b] \in Nat
      BY <2>1, InputAssumption, U64Nat DEF Deposit, DepositAdmits, IInv, TypeOK
    <3>2. /\ amount' = [amount EXCEPT ![b] = @ + n] /\ amount \in [Bettor -> U64]
          /\ opened' = [opened EXCEPT ![b] = TRUE]
          /\ opened \in [Bettor -> BOOLEAN]
      BY <2>1 DEF Deposit, IInv, TypeOK
    <3>3. amount'[b] > 0
      BY <3>1, <3>2
    <3>4. \A c \in Bettor \ {b} : amount'[c] = amount[c] /\ opened'[c] = opened[c]
      BY <3>2
    <3> QED
      BY <3>3, <3>4 DEF OpenedStaked
  <2>2. ASSUME NEW t \in Terms, NEW ts \in LockTimes, InitMarket(t, ts)
        PROVE  OpenedStaked'
    BY <2>0, <2>2 DEF InitMarket, positionVars
  <2>3. ASSUME NEW b \in Bettor, ClaimPayout(b)
        PROVE  OpenedStaked'
    BY <2>0, <2>3 DEF ClaimPayout
  <2>4. ASSUME NEW b \in Bettor, NEW n \in DepositAmounts, Gift(b, n)
        PROVE  OpenedStaked'
    BY <2>0, <2>4 DEF Gift, positionVars
  <2>5. ASSUME NEW sn \in Snapshots, PublishRoot(sn)
        PROVE  OpenedStaked'
    BY <2>0, <2>5 DEF PublishRoot, positionVars
  <2>6. CASE LockMarket
    BY <2>0, <2>6 DEF LockMarket, positionVars
  <2>7. CASE ResolveSome
    BY <2>0, <2>7 DEF ResolveSome, Resolve, positionVars
  <2>8. CASE Tick
    BY <2>0, <2>8 DEF Tick, positionVars
  <2>9. CASE UNCHANGED vars
    BY <2>0, <2>9 DEF vars, positionVars
  <2>10. ASSUME NEW b \in Bettor, NEW n \in MintAmounts, MintTo(b, n)
        PROVE  OpenedStaked'
    BY <2>0, <2>10 DEF MintTo, positionVars
  <2> QED
    BY <2>1, <2>2, <2>3, <2>4, <2>5, <2>6, <2>7, <2>8, <2>9, <2>10
    DEF Next
<1>3. SInv <=> IInv /\ OpenedStaked
  BY DEF SInv
<1> QED
  BY <1>1, <1>2, <1>3, Inductive, PTL DEF Spec

(* A pool is as large as each stake on its side, and no larger than the    *)
(* vault before the resolution.                                            *)
LEMMA StakeInPool ==
  ASSUME SInv, ~resolved, NEW b \in Bettor, NEW s \in Side, SideAgrees(b, s)
  PROVE  LET pool == IF s = Yes THEN yes_pool ELSE no_pool
         IN  pool \in Nat /\ amount[b] <= pool /\ pool <= vault
<1> USE DEF SInv, IInv
<1> DEFINE pool == IF s = Yes THEN yes_pool ELSE no_pool
<1>1. /\ yes_pool \in Nat /\ no_pool \in Nat /\ vault \in Nat
      /\ amount[b] \in U64 /\ amount[b] \in Nat
  BY U64Nat DEF TypeOK
<1>2. pool <= vault
  BY <1>1 DEF Funded, TotalPool
<1>3. amount[b] <= pool
  <2>1. CASE opened[b]
    <3>1. b \in Backers(s) /\ Backers(s) \in SUBSET Bettor
      BY <2>1 DEF SideAgrees, Backers
    <3>2. IsFiniteSet(Backers(s))
      BY <3>1, BettorSums
    <3>3. amount[b] <= TotalOf(amount, Backers(s))
      BY <1>1, <3>1, <3>2, TotalOfMember
    <3>4. pool = TotalOf(amount, Backers(s))
      BY DEF PoolsMatchPositions, Side, Yes, No
    <3> QED
      BY <3>3, <3>4
  <2>2. CASE ~opened[b]
    BY <1>1, <2>2 DEF Staged
  <2> QED
    BY <2>1, <2>2
<1> QED
  BY <1>1, <1>2, <1>3

(* What a wallet holds it can deposit, as long as the window is open and   *)
(* the side is its own: the sums that deposit() checks follow from the     *)
(* supply, which is a u64.                                                 *)
LEMMA AffordableIsAdmitted ==
  ASSUME SInv, created, DepositWindowOpen, NEW b \in Bettor, NEW s \in Side,
         SideAgrees(b, s), NEW n \in Nat, n > 0, n <= wallet[b]
  PROVE  DepositAdmits(b, n, s)
<1> DEFINE pool == IF s = Yes THEN yes_pool ELSE no_pool
<1>1. /\ wallet[b] \in Nat /\ vault \in Nat /\ amount[b] \in Nat
      /\ wallet \in [Bettor -> U64] /\ MaxU64 \in Nat
  BY U64Nat, MaxU64Assumption DEF SInv, IInv, TypeOK
<1>2. ~resolved
  BY DEF DepositWindowOpen, SInv, IInv, Staged
<1>3. vault + n <= MaxU64
  <2>1. wallet[b] <= TotalOf(wallet, Bettor)
    BY <1>1, BettorAssumption, TotalOfMember
  <2>2. TotalOf(wallet, Bettor) + vault <= MaxU64
    BY DEF SInv, IInv, Supplied
  <2>3. TotalOf(wallet, Bettor) \in Nat
    BY BettorSums
  <2> QED
    BY <1>1, <2>1, <2>2, <2>3
<1>4. pool \in Nat /\ amount[b] <= pool /\ pool <= vault
  BY <1>2, StakeInPool
<1>5. amount[b] + n <= MaxU64 /\ pool + n <= MaxU64
  <2> HIDE DEF pool
  <2> QED
    BY <1>1, <1>3, <1>4
<1> QED
  BY <1>3, <1>5 DEF DepositAdmits, Transferable

(* Once created, a market stays.                                           *)
LEMMA CreatedStays ==
  ASSUME [Next]_vars, created
  PROVE  created'
  BY DEF Next, InitMarket, Deposit, LockMarket, ResolveSome, Resolve, ClaimPayout,
    Gift, MintTo, PublishRoot, Tick, vars, marketVars

(* Once opened, a position stays and keeps its side.                       *)
LEMMA SideStays ==
  ASSUME SInv, [Next]_vars, NEW b \in Bettor, opened[b]
  PROVE  opened'[b] /\ side'[b] = side[b]
<1>1. opened \in [Bettor -> BOOLEAN] /\ side \in [Bettor -> Side]
  BY DEF SInv, IInv, TypeOK
<1>2. ASSUME NEW c \in Bettor, NEW n \in DepositAmounts, NEW s \in Side,
             Deposit(c, n, s)
      PROVE  opened'[b] /\ side'[b] = side[b]
  BY <1>1, <1>2 DEF Deposit, DepositAdmits, SideAgrees
<1>3. ASSUME NEW t \in Terms, NEW ts \in LockTimes, InitMarket(t, ts)
      PROVE  UNCHANGED <<opened, side>>
  BY <1>3 DEF InitMarket, positionVars
<1>4. ASSUME NEW c \in Bettor, ClaimPayout(c)
      PROVE  UNCHANGED <<opened, side>>
  BY <1>4 DEF ClaimPayout
<1>5. ASSUME NEW c \in Bettor, NEW n \in DepositAmounts, Gift(c, n)
      PROVE  UNCHANGED <<opened, side>>
  BY <1>5 DEF Gift, positionVars
<1>6. ASSUME NEW sn \in Snapshots, PublishRoot(sn)
      PROVE  UNCHANGED <<opened, side>>
  BY <1>6 DEF PublishRoot, positionVars
<1>7. ASSUME LockMarket \/ ResolveSome \/ Tick \/ UNCHANGED vars
      PROVE  UNCHANGED <<opened, side>>
  BY <1>7 DEF LockMarket, ResolveSome, Resolve, Tick, vars, positionVars
<1>8. ASSUME NEW c \in Bettor, NEW n \in MintAmounts, MintTo(c, n)
      PROVE  UNCHANGED <<opened, side>>
  BY <1>8 DEF MintTo, positionVars
<1> QED
  BY <1>2, <1>3, <1>4, <1>5, <1>6, <1>7, <1>8 DEF Next

-----------------------------------------------------------------------------
(* The recorded outcome.                                                   *)

(* A return-data buffer that decodes to an outcome at all is the oracle's  *)
(* answer for the snapshot that was proved, and the market's question.     *)
LEMMA DecodedIsAnswer ==
  ASSUME NEW t, NEW ka, NEW kb, NEW sn, NEW data \in ReturnData(t, ka, kb, sn),
         KeysAgree(t, ka, kb), Decode(data) # Unknown
  PROVE  Decode(data) = IF Holds(t, sn) THEN Yes ELSE No
<1>0. HoldsOf(t, ka, IF IsSome(t.stat_b_key) THEN kb ELSE None, sn) = Holds(t, sn)
  <2>1. ka = t.stat_a_key /\ (IF IsSome(t.stat_b_key) THEN kb ELSE None) = t.stat_b_key
    BY DEF KeysAgree, IsSome
  <2> QED
    BY <2>1 DEF Holds
<1>1. \A x, y : {x} = {y} => x = y
  OBVIOUS
<1>2. /\ \A p, i, q, j : <<p, i>> = <<q, j>> => p = q /\ i = j
      /\ TxOracle # Foreign
  BY DEF TxOracle, Foreign
<1>3. \A p, i, q, j : Some(<<p, i>>) = Some(<<q, j>>) => p = q /\ i = j
  BY <1>1, <1>2 DEF Some
<1>4. \A p, i : None # Some(<<p, i>>)
  BY DEF None, Some
<1>5. \/ data = Some(<<TxOracle, 0>>) /\ Decode(data) = No
      \/ data = Some(<<TxOracle, 1>>) /\ Decode(data) = Yes
  BY DEF Decode
<1>6. data = Some(<<TxOracle, IF Holds(t, sn) THEN 1 ELSE 0>>)
  <2>1. data # None
    BY <1>4, <1>5
  <2>2. data # Some(<<TxOracle, 2>>)
    BY <1>3, <1>5
  <2>3. data # Some(<<Foreign, 0>>) /\ data # Some(<<Foreign, 1>>)
    BY <1>2, <1>3, <1>5
  <2> QED
    BY <1>0, <2>1, <2>2, <2>3 DEF ReturnData
<1>7. CASE Holds(t, sn)
  BY <1>3, <1>5, <1>6, <1>7
<1>8. CASE ~Holds(t, sn)
  BY <1>3, <1>5, <1>6, <1>8
<1> QED
  BY <1>7, <1>8

(* The outcome is the market's predicate on a snapshot of its own fixture  *)
(* and day that the oracle has committed to, whatever proof, keys and      *)
(* return data the resolver came with.                                     *)
THEOREM OutcomeIsProven == Spec => []OutcomeProven
<1> DEFINE Decides(sn) == /\ sn.fixture_id = terms.fixture_id
                          /\ sn.epoch_day = terms.epoch_day
                          /\ outcome = (IF Holds(terms, sn) THEN Yes ELSE No)
<1>1. Init => OutcomeProven
  BY DEF Init, OutcomeProven
<1>2. IInv /\ OutcomeProven /\ [Next]_vars => OutcomeProven'
  <2> SUFFICES ASSUME IInv, OutcomeProven, [Next]_vars, resolved'
               PROVE  \E sn \in roots' : Decides(sn)'
    BY DEF OutcomeProven
  <2>0. ASSUME UNCHANGED <<resolved, terms, outcome>>, roots \subseteq roots'
        PROVE  \E sn \in roots' : Decides(sn)'
    <3>1. PICK sn \in roots : Decides(sn)
      BY <2>0 DEF OutcomeProven
    <3>2. Decides(sn)'
      BY <2>0, <3>1
    <3> QED
      BY <2>0, <3>2
  <2>1. ASSUME NEW t \in Terms, NEW ts \in LockTimes, InitMarket(t, ts)
        PROVE  FALSE
    BY <2>1 DEF InitMarket
  <2>2. CASE ResolveSome
    <3>1. PICK sn \in Snapshots, ka \in ResolveKeys,
               kb \in {None} \cup {Some(k) : k \in ResolveKeys} :
            Resolve(sn, ka, kb)
      BY <2>2 DEF ResolveSome
    <3>2. PICK data \in ReturnData(terms, ka, kb, sn) :
            Decode(data) # Unknown /\ outcome' = Decode(data)
      BY <3>1 DEF Resolve
    <3>3. outcome' = (IF Holds(terms, sn) THEN Yes ELSE No)
      BY <3>1, <3>2, DecodedIsAnswer DEF Resolve, ResolveAdmits
    <3>4. terms' = terms /\ roots' = roots /\ sn \in roots
      BY <3>1 DEF Resolve, ResolveAdmits, Provable
    <3>5. Decides(sn)'
      BY <3>1, <3>3, <3>4 DEF Resolve, ResolveAdmits, Provable
    <3> QED
      BY <3>4, <3>5
  <2>3. ASSUME NEW b \in Bettor, NEW n \in DepositAmounts, NEW s \in Side,
               Deposit(b, n, s)
        PROVE  \E sn \in roots' : Decides(sn)'
    BY <2>0, <2>3 DEF Deposit
  <2>4. ASSUME NEW b \in Bettor, ClaimPayout(b)
        PROVE  \E sn \in roots' : Decides(sn)'
    BY <2>0, <2>4 DEF ClaimPayout, marketVars
  <2>5. ASSUME NEW b \in Bettor, NEW n \in DepositAmounts, Gift(b, n)
        PROVE  \E sn \in roots' : Decides(sn)'
    BY <2>0, <2>5 DEF Gift, marketVars
  <2>6. ASSUME NEW sn \in Snapshots, PublishRoot(sn)
        PROVE  \E s \in roots' : Decides(s)'
    BY <2>0, <2>6 DEF PublishRoot, marketVars
  <2>7. CASE LockMarket
    BY <2>0, <2>7 DEF LockMarket
  <2>8. CASE Tick
    BY <2>0, <2>8 DEF Tick, marketVars
  <2>9. CASE UNCHANGED vars
    BY <2>0, <2>9 DEF vars, marketVars
  <2>10. ASSUME NEW b \in Bettor, NEW n \in MintAmounts, MintTo(b, n)
        PROVE  \E sn \in roots' : Decides(sn)'
    BY <2>0, <2>10 DEF MintTo, marketVars
  <2> QED
    BY <2>1, <2>2, <2>3, <2>4, <2>5, <2>6, <2>7, <2>8, <2>9, <2>10
    DEF Next
<1> QED
  BY <1>1, <1>2, Inductive, PTL DEF Spec

-----------------------------------------------------------------------------
(* What a claim pays.                                                      *)

(* The converse of DivAtMost.                                              *)
LEMMA DivAtLeast ==
  ASSUME NEW a \in Nat, NEW w \in Nat, NEW v \in Nat, w > 0, w * v <= a
  PROVE  v <= a \div w
  OBVIOUS

(* No eligible bettor gets less than its stake: the total pool is at least *)
(* the winning pool.                                                       *)
LEMMA PayoutCoversStake ==
  ASSUME TypeOK, NEW b \in Bettor
  PROVE  Payout(b) >= amount[b]
<1>1. WinningPool \in Nat /\ TotalPool \in Nat /\ amount[b] \in Nat
  BY PayoutNat
<1>2. CASE WinningPool = 0
  BY <1>1, <1>2 DEF Payout
<1>3. CASE WinningPool > 0
  <2>1. WinningPool <= TotalPool
    BY U64Nat DEF TypeOK, WinningPool, TotalPool
  <2>2. WinningPool * amount[b] <= amount[b] * TotalPool
    BY <1>1, <2>1, MulMono
  <2>3. amount[b] * TotalPool \in Nat
    BY <1>1
  <2>4. amount[b] <= (amount[b] * TotalPool) \div WinningPool
    BY <1>1, <1>3, <2>2, <2>3, DivAtLeast
  <2>5. Payout(b) = (amount[b] * TotalPool) \div WinningPool
    BY <1>3 DEF Payout
  <2>6. Payout(b) \in Nat
    BY PayoutNat
  <2> QED
    BY <1>1, <2>4, <2>5, <2>6
<1> QED
  BY <1>1, <1>2, <1>3

(* What a bettor is owed does not move while its stake and the market's    *)
(* pools and outcome do not.                                               *)
LEMMA PaidFrame ==
  ASSUME ClaimsPayEntitlement,
         UNCHANGED <<amount, claimed, received, outcome, yes_pool, no_pool>>
  PROVE  ClaimsPayEntitlement'
  BY DEF ClaimsPayEntitlement, Payout, WinningPool, TotalPool

(* Before the resolution nothing has been claimed, so nothing was paid,    *)
(* and a step that claims and pays nothing keeps that so.                  *)
LEMMA UnpaidFrame ==
  ASSUME ClaimsPayEntitlement, Staged, ~resolved,
         UNCHANGED <<claimed, received>>
  PROVE  ClaimsPayEntitlement'
  BY DEF ClaimsPayEntitlement, Staged

(* The claimant, unpaid so far, receives its payout; it claims no more.    *)
LEMMA ClaimPays ==
  ASSUME TypeOK, ClaimsPayEntitlement, NEW c \in Bettor, ClaimPayout(c)
  PROVE  ClaimsPayEntitlement'
<1>1. UNCHANGED <<amount, outcome, yes_pool, no_pool>> /\ ~claimed[c]
  BY DEF ClaimPayout, ClaimPayoutAdmits, marketVars, Claimable
<1>2. \A b : Payout(b)' = Payout(b)
  BY <1>1 DEF Payout, WinningPool, TotalPool
<1>3. /\ claimed' = [claimed EXCEPT ![c] = TRUE]
      /\ received' = [received EXCEPT ![c] = @ + Payout(c)]
      /\ claimed \in [Bettor -> BOOLEAN] /\ received \in [Bettor -> Nat]
  BY DEF ClaimPayout, TypeOK
<1>4. received[c] = 0
  BY <1>1 DEF ClaimsPayEntitlement
<1>5. Payout(c) \in Nat /\ Payout(c) >= amount[c]
  BY PayoutNat, PayoutCoversStake
<1>6. claimed'[c] /\ received'[c] = Payout(c)
  BY <1>3, <1>4, <1>5
<1>7. \A b \in Bettor \ {c} : claimed'[b] = claimed[b] /\ received'[b] = received[b]
  BY <1>3
<1> QED
  BY <1>1, <1>2, <1>5, <1>6, <1>7 DEF ClaimsPayEntitlement

(* Every bettor is paid at most once, exactly the payout of its position,  *)
(* and a paid one has at least its stake back.                             *)
THEOREM PaidInFull == Spec => []ClaimsPayEntitlement
<1>1. Init => ClaimsPayEntitlement
  BY DEF Init, ClaimsPayEntitlement
<1>2. IInv /\ ClaimsPayEntitlement /\ [Next]_vars => ClaimsPayEntitlement'
  <2> SUFFICES ASSUME IInv, ClaimsPayEntitlement, [Next]_vars
               PROVE  ClaimsPayEntitlement'
    OBVIOUS
  <2>0. TypeOK /\ Staged
    BY DEF IInv
  <2>1. ASSUME NEW t \in Terms, NEW ts \in LockTimes, InitMarket(t, ts)
        PROVE  ClaimsPayEntitlement'
    <3>1. ~resolved /\ UNCHANGED <<claimed, received>>
      BY <2>0, <2>1 DEF InitMarket, InitMarketAdmits, Staged, positionVars,
        tokenVars
    <3> QED
      BY <2>0, <3>1, UnpaidFrame
  <2>2. ASSUME NEW b \in Bettor, NEW n \in DepositAmounts, NEW s \in Side,
               Deposit(b, n, s)
        PROVE  ClaimsPayEntitlement'
    <3>1. ~resolved /\ UNCHANGED <<claimed, received>>
      BY <2>0, <2>2 DEF Deposit, DepositAdmits, DepositWindowOpen, Staged
    <3> QED
      BY <2>0, <3>1, UnpaidFrame
  <2>3. CASE ResolveSome
    <3>1. ~resolved /\ UNCHANGED <<claimed, received>>
      BY <2>3 DEF ResolveSome, Resolve, ResolveAdmits, positionVars, tokenVars
    <3> QED
      BY <2>0, <3>1, UnpaidFrame
  <2>4. ASSUME NEW b \in Bettor, ClaimPayout(b)
        PROVE  ClaimsPayEntitlement'
    BY <2>0, <2>4, ClaimPays
  <2>5. ASSUME NEW b \in Bettor, NEW n \in DepositAmounts, Gift(b, n)
        PROVE  ClaimsPayEntitlement'
    BY <2>5, PaidFrame DEF Gift, marketVars, positionVars
  <2>6. ASSUME NEW sn \in Snapshots, PublishRoot(sn)
        PROVE  ClaimsPayEntitlement'
    BY <2>6, PaidFrame DEF PublishRoot, marketVars, positionVars, tokenVars
  <2>7. CASE LockMarket
    BY <2>7, PaidFrame DEF LockMarket, positionVars, tokenVars
  <2>8. CASE Tick
    BY <2>8, PaidFrame DEF Tick, marketVars, positionVars, tokenVars
  <2>9. CASE UNCHANGED vars
    BY <2>9, PaidFrame DEF vars, marketVars, positionVars, tokenVars
  <2>10. ASSUME NEW b \in Bettor, NEW n \in MintAmounts, MintTo(b, n)
        PROVE  ClaimsPayEntitlement'
    BY <2>10, PaidFrame DEF MintTo, marketVars, positionVars
  <2> QED
    BY <2>1, <2>2, <2>3, <2>4, <2>5, <2>6, <2>7, <2>8, <2>9, <2>10
    DEF Next
<1> QED
  BY <1>1, <1>2, Inductive, PTL DEF Spec

-----------------------------------------------------------------------------
(* The dust policy of claim_payout, for any number of claims: what the     *)
(* floor divisions leave in the vault for good.                            *)

PaidOut == {b \in Bettor : claimed[b]}

(* What the vault holds of the bettors' deposits.  Before the resolution   *)
(* it is the total pool; after it, it is enough for the stakes unpaid so   *)
(* far, and exceeds that by less than one base unit for each claim served. *)
(* Both sides are scaled by the winning pool, so that nothing is divided.  *)
Ledger ==
  /\ gifts <= vault
  /\ IF ~resolved THEN vault - gifts = TotalPool
     ELSE IF WinningPool = 0 THEN vault - gifts = TotalOf(amount, Unpaid)
     ELSE /\ TotalPool * TotalOf(amount, Unpaid) <= WinningPool * (vault - gifts)
          /\ WinningPool * (vault - gifts)
               <= TotalPool * TotalOf(amount, Unpaid)
                  + Cardinality(PaidOut) * (WinningPool - 1)

DInv == IInv /\ Ledger

(* One more floor division leaves less than one more base unit.            *)
LEMMA DustGrows ==
  ASSUME NEW w \in Nat, w > 0, NEW d \in Nat, NEW t \in Nat, NEW u \in Nat,
         NEW r \in Nat, NEW a \in Nat, NEW p \in Nat, NEW n \in Nat,
         u = r + a, w * d <= t * u + n * (w - 1), a * t < w * p + w
  PROVE  w * (d - p) <= t * r + (n + 1) * (w - 1)
<1>1. t * u = t * r + a * t
  OBVIOUS
<1>2. w * (d - p) = w * d - w * p
  OBVIOUS
<1>3. (n + 1) * (w - 1) = n * (w - 1) + (w - 1)
  OBVIOUS
<1>4. /\ w * d \in Int /\ w * p \in Int /\ t * r \in Int /\ a * t \in Int
      /\ n * (w - 1) \in Int /\ t * u \in Int
  OBVIOUS
<1> QED
  BY <1>1, <1>2, <1>3, <1>4

(* Products of naturals are naturals.                                      *)
LEMMA ProductNat ==
  ASSUME NEW a \in Nat, NEW b \in Nat
  PROVE  a * b \in Nat
  OBVIOUS

(* A positive multiple of an overdraft could not cover what is still owed. *)
LEMMA NoOverdraft ==
  ASSUME NEW w \in Nat, w > 0, NEW d \in Nat, NEW p \in Nat, NEW x \in Nat,
         x <= w * (d - p)
  PROVE  p <= d
<1>1. SUFFICES ASSUME p >= d + 1
               PROVE  FALSE
  OBVIOUS
<1>2. w * (d + 1) <= w * p
  BY <1>1, MulMono
<1>3. w * (d + 1) = w * d + w /\ w * (d - p) = w * d - w * p
  OBVIOUS
<1>4. w * d \in Nat /\ w * p \in Nat
  BY ProductNat
<1> QED
  BY <1>2, <1>3, <1>4

(* Finitely many bettors have been served.                                 *)
LEMMA PaidOutFinite == IsFiniteSet(PaidOut) /\ Cardinality(PaidOut) \in Nat
  BY BettorAssumption, FS_Subset, FS_CardinalityType DEF PaidOut

(* Nothing is left over of a vault that has seen nothing.                  *)
LEMMA LedgerInit == Init => Ledger
  BY DEF Init, Ledger, TotalPool

(* init_market finds both pools empty and leaves them so.                  *)
LEMMA LedgerInitMarket ==
  ASSUME DInv, NEW t \in Terms, NEW ts \in LockTimes, InitMarket(t, ts)
  PROVE  Ledger'
<1> USE DEF DInv, IInv
<1>1. \A b \in Bettor : amount[b] = 0
  BY DEF InitMarket, InitMarketAdmits, Staged, TypeOK
<1>2. yes_pool = 0 /\ no_pool = 0
  BY <1>1, TotalOfZero DEF PoolsMatchPositions, Backers
<1>3. /\ ~resolved /\ ~resolved' /\ UNCHANGED <<vault, gifts, yes_pool, no_pool>>
  BY <1>2 DEF InitMarket, InitMarketAdmits, Staged, tokenVars
<1> QED
  BY <1>3 DEF Ledger, TotalPool

(* A deposit adds as much to a pool as to the vault.                       *)
LEMMA LedgerDeposit ==
  ASSUME DInv, NEW b \in Bettor, NEW n \in DepositAmounts, NEW s \in Side,
         Deposit(b, n, s)
  PROVE  Ledger'
<1> USE DEF DInv, IInv
<1>1. n \in Nat /\ vault \in Nat /\ gifts \in Nat
      /\ yes_pool \in Nat /\ no_pool \in Nat
  BY InputAssumption, U64Nat DEF TypeOK
<1>2. ~resolved /\ ~resolved' /\ vault' = vault + n /\ gifts' = gifts
  BY DEF Deposit, DepositAdmits, DepositWindowOpen, Staged
<1>3. TotalPool' = TotalPool + n
  BY <1>1 DEF Deposit, TotalPool
<1>4. vault - gifts = TotalPool /\ gifts <= vault /\ TotalPool \in Nat
  BY <1>1, <1>2 DEF Ledger, TotalPool
<1> QED
  BY <1>1, <1>2, <1>3, <1>4 DEF Ledger

(* At the resolution nobody has been served.                               *)
LEMMA LedgerResolve ==
  ASSUME DInv, ResolveSome
  PROVE  Ledger'
<1> USE DEF DInv, IInv
<1>1. /\ ~resolved /\ resolved'
      /\ UNCHANGED <<yes_pool, no_pool, claimed, vault, gifts>>
  BY DEF ResolveSome, Resolve, ResolveAdmits, positionVars, tokenVars
<1>2. /\ TotalPool' = TotalPool /\ TotalPool \in Nat
      /\ vault - gifts = TotalPool /\ gifts <= vault
  BY <1>1, U64Nat DEF TotalPool, Ledger, TypeOK
<1>3. /\ WinningPool' \in Nat
      /\ TotalOf(amount, Unpaid)' = IF WinningPool' = 0 THEN TotalPool
                                    ELSE WinningPool'
  BY ClaimantsAtResolve
<1>4. PaidOut' = {}
  BY <1>1 DEF PaidOut, Staged
<1>5. TotalPool * WinningPool' = WinningPool' * TotalPool
  BY <1>2, <1>3
<1>6. Cardinality(PaidOut)' * (WinningPool' - 1) = 0
  BY <1>3, <1>4, FS_EmptySet
<1>7. TotalPool * WinningPool' \in Nat
  BY <1>2, <1>3, ProductNat
<1> QED
  BY <1>1, <1>2, <1>3, <1>5, <1>6, <1>7 DEF Ledger

(* A claim moves its share, rounded down, out of the ledger.               *)
LEMMA LedgerClaim ==
  ASSUME DInv, NEW b \in Bettor, ClaimPayout(b)
  PROVE  Ledger'
<1> USE DEF DInv, IInv
<1> DEFINE p == Payout(b)
           d == vault - gifts
           U == TotalOf(amount, Unpaid)
           R == TotalOf(amount, Unpaid \ {b})
           a == amount[b]
           n == Cardinality(PaidOut)
<1>1. /\ resolved /\ resolved' /\ ~claimed[b] /\ vault' = vault - p
      /\ UNCHANGED <<yes_pool, no_pool, outcome, amount, opened, side, gifts>>
  BY DEF ClaimPayout, ClaimPayoutAdmits, Claimable, marketVars
<1>2. UNCHANGED <<WinningPool, TotalPool>>
  BY <1>1 DEF WinningPool, TotalPool
<1>3. b \in Unpaid /\ Unpaid' = Unpaid \ {b}
  BY <1>1 DEF Unpaid, Claimable, Eligible, ClaimPayout, ClaimPayoutAdmits,
    TypeOK
<1>4. PaidOut' = PaidOut \cup {b} /\ b \notin PaidOut
  BY <1>1 DEF PaidOut, ClaimPayout, TypeOK
<1>5. Cardinality(PaidOut)' = n + 1 /\ n \in Nat
  BY <1>4, PaidOutFinite, FS_AddElement
<1>6. U = R + a /\ U \in Nat /\ R \in Nat /\ a \in Nat
  BY <1>3, BettorSums, TotalOfRemove, U64Nat DEF Unpaid, TypeOK
<1>7. TotalOf(amount, Unpaid)' = R
  BY <1>1, <1>3
<1>8. /\ WinningPool \in Nat /\ TotalPool \in Nat /\ p \in Nat
      /\ vault \in Nat /\ gifts \in Nat /\ gifts <= vault /\ d \in Nat
  BY PayoutNat, U64Nat DEF TypeOK, Ledger
<1>9. CASE WinningPool = 0
  <2>1. p = a /\ d = U
    BY <1>1, <1>9 DEF Payout, Ledger
  <2>2. vault' - gifts' = R /\ gifts' <= vault'
    BY <1>1, <1>6, <1>8, <2>1
  <2> QED
    BY <1>1, <1>2, <1>7, <1>9, <2>2 DEF Ledger
<1>10. CASE WinningPool # 0
  <2>1. /\ TotalPool * U <= WinningPool * d
        /\ WinningPool * d <= TotalPool * U + n * (WinningPool - 1)
    BY <1>1, <1>10 DEF Ledger
  <2>2. WinningPool * p <= a * TotalPool /\ a * TotalPool < WinningPool * p + WinningPool
    <3>1. a * TotalPool \in Nat /\ WinningPool > 0
      BY <1>6, <1>8, <1>10
    <3>2. p = (a * TotalPool) \div WinningPool
      BY <1>10 DEF Payout
    <3> QED
      BY <1>8, <3>1, <3>2, DivBounds
  <2>3. TotalPool * R <= WinningPool * (d - p)
    BY <1>6, <1>8, <2>1, <2>2, ShareTaken
  <2>4. WinningPool * (d - p) <= TotalPool * R + (n + 1) * (WinningPool - 1)
    BY <1>5, <1>6, <1>8, <1>10, <2>1, <2>2, DustGrows
  <2>5. p <= d
    <3>1. TotalPool * R \in Nat
      BY <1>6, <1>8, ProductNat
    <3> QED
      BY <1>8, <1>10, <2>3, <3>1, NoOverdraft
  <2>6. vault' - gifts' = d - p /\ gifts' <= vault'
    BY <1>1, <1>8, <2>5
  <2> QED
    BY <1>1, <1>2, <1>5, <1>7, <1>10, <2>3, <2>4, <2>6 DEF Ledger
<1> QED
  BY <1>9, <1>10

(* Steps that move neither deposits nor claims, a gift among them.         *)
LEMMA LedgerFrame ==
  ASSUME Ledger, gifts \in Nat, vault \in Nat,
         UNCHANGED <<resolved, outcome, yes_pool, no_pool, positionVars>>,
         NEW n \in Nat, vault' = vault + n, gifts' = gifts + n
  PROVE  Ledger'
<1>1. UNCHANGED <<WinningPool, TotalPool, Unpaid, PaidOut, amount>>
  BY DEF WinningPool, TotalPool, Unpaid, PaidOut, Claimable, Eligible,
         positionVars
<1>2. vault' - gifts' = vault - gifts /\ (gifts <= vault => gifts' <= vault')
  OBVIOUS
<1> QED
  BY <1>1, <1>2 DEF Ledger

(* The books balance in every reachable state.                             *)
LEMMA LedgerInductive == Spec => []DInv
<1>1. Init => DInv
  BY IInvInit, LedgerInit DEF DInv
<1>2. IInv /\ Ledger /\ [Next]_vars => Ledger'
  <2> SUFFICES ASSUME IInv, Ledger, [Next]_vars
               PROVE  Ledger'
    OBVIOUS
  <2>0. DInv /\ gifts \in Nat /\ vault \in Nat
    BY U64Nat DEF DInv, IInv, TypeOK
  <2>a. ASSUME UNCHANGED <<resolved, outcome, yes_pool, no_pool, positionVars,
                           vault, gifts>>
        PROVE  Ledger'
    <3>1. vault' = vault + 0 /\ gifts' = gifts + 0
      BY <2>0, <2>a
    <3> QED
      BY <2>0, <2>a, <3>1, LedgerFrame
  <2>1. ASSUME NEW t \in Terms, NEW ts \in LockTimes, InitMarket(t, ts)
        PROVE  Ledger'
    BY <2>0, <2>1, LedgerInitMarket
  <2>2. ASSUME NEW b \in Bettor, NEW n \in DepositAmounts, NEW s \in Side,
               Deposit(b, n, s)
        PROVE  Ledger'
    BY <2>0, <2>2, LedgerDeposit
  <2>3. CASE ResolveSome
    BY <2>0, <2>3, LedgerResolve
  <2>4. ASSUME NEW b \in Bettor, ClaimPayout(b)
        PROVE  Ledger'
    BY <2>0, <2>4, LedgerClaim
  <2>5. ASSUME NEW b \in Bettor, NEW n \in DepositAmounts, Gift(b, n)
        PROVE  Ledger'
    <3>1. n \in Nat
      BY InputAssumption, U64Nat
    <3> QED
      BY <2>0, <2>5, <3>1, LedgerFrame DEF Gift, marketVars
  <2>6. ASSUME NEW sn \in Snapshots, PublishRoot(sn)
        PROVE  Ledger'
    BY <2>6, <2>a DEF PublishRoot, marketVars, tokenVars
  <2>7. CASE LockMarket
    BY <2>7, <2>a DEF LockMarket, tokenVars
  <2>8. CASE Tick
    BY <2>8, <2>a DEF Tick, marketVars, tokenVars
  <2>9. CASE UNCHANGED vars
    BY <2>9, <2>a DEF vars, marketVars, tokenVars
  <2>10. ASSUME NEW b \in Bettor, NEW n \in MintAmounts, MintTo(b, n)
        PROVE  Ledger'
    BY <2>10, <2>a DEF MintTo, marketVars
  <2> QED
    BY <2>1, <2>2, <2>3, <2>4, <2>5, <2>6, <2>7, <2>8, <2>9, <2>10
    DEF Next
<1>3. DInv <=> IInv /\ Ledger
  BY DEF DInv
<1> QED
  BY <1>1, <1>2, <1>3, Inductive, PTL DEF Spec

(* When all that is owed has been paid, fewer base units are left of the   *)
(* deposits than bettors were paid, and none after a refund.               *)
THEOREM Dust == Spec => []DustBounded
<1>1. DInv => DustBounded
  <2> SUFFICES ASSUME DInv, resolved,
                      \A b \in Bettor : Eligible(b) => claimed[b]
               PROVE  LET dust == vault - gifts
                      IN  IF WinningPool = 0 THEN dust = 0
                          ELSE 0 <= dust /\ dust < Cardinality(PaidOut)
    BY DEF DustBounded, PaidOut
  <2> USE DEF DInv, IInv
  <2> DEFINE d == vault - gifts
             n == Cardinality(PaidOut)
  <2>1. TotalOf(amount, Unpaid) = 0
    BY TotalOfZero DEF Unpaid, Claimable
  <2>2. /\ vault \in Nat /\ gifts \in Nat /\ gifts <= vault /\ d \in Nat
        /\ WinningPool \in Nat /\ TotalPool \in Nat /\ n \in Nat
    BY U64Nat, PaidOutFinite DEF TypeOK, Ledger, WinningPool, TotalPool
  <2>3. CASE WinningPool = 0
    BY <2>1, <2>3 DEF Ledger
  <2>4. CASE WinningPool # 0
    <3>1. WinningPool * d <= n * (WinningPool - 1)
      BY <2>1, <2>2, <2>4 DEF Ledger
    <3>2. n # 0
      <4>1. PICK s \in Side : outcome = s
        BY DEF TypeOK, Staged
      <4>2. WinningPool = TotalOf(amount, Backers(s))
        BY <4>1 DEF WinningPool, PoolsMatchPositions, Side, Yes, No
      <4>3. PICK b \in Backers(s) : TRUE
        BY <2>4, <4>2, TotalOfZero
      <4>4. b \in PaidOut
        BY <4>1, <4>3 DEF Backers, Eligible, PaidOut
      <4> QED
        BY <4>4, PaidOutFinite, FS_EmptySet
    <3>3. d < n
      <4>1. n * (WinningPool - 1) = WinningPool * n - n
        BY <2>2
      <4>2. WinningPool * d < WinningPool * n
        BY <2>2, <3>1, <3>2, <4>1
      <4>3. ASSUME n <= d PROVE FALSE
        <5>1. WinningPool * n <= WinningPool * d
          BY <2>2, <4>3, MulMono
        <5> QED
          BY <2>2, <4>2, <5>1
      <4> QED
        BY <2>2, <4>3
    <3> QED
      BY <2>2, <2>4, <3>3
  <2> QED
    BY <2>3, <2>4
<1> QED
  BY <1>1, LedgerInductive, PTL

-----------------------------------------------------------------------------
(* The program implements the ideal pari-mutuel market of PariMutuel:      *)
(* under the mapping of PariMarketRefinement each of its steps is a step   *)
(* of the ideal market or none.                                            *)

(* A market that does not exist has no positions and no pools.             *)
LEMMA InitMaps == Init => Ideal!Init
  BY DEF Init, Ideal!Init, Phase, Pick, Paid, Unknown

(* The pools of the ideal market are sums of stakes; the program keeps     *)
(* them as running totals.                                                 *)
LEMMA PoolMaps ==
  ASSUME IInv
  PROVE  Ideal!Pool(Yes) = yes_pool /\ Ideal!Pool(No) = no_pool
<1>1. \A s \in Side : {b \in Bettor : Pick[b] = s} = Backers(s)
  BY DEF Pick, Backers, Side, Yes, No, Unknown
<1>2. \A f, S : Ideal!TotalOf(f, S) = TotalOf(f, S)
  <2> SUFFICES ASSUME NEW f, NEW S
               PROVE  Ideal!TotalOf(f, S) = TotalOf(f, S)
    OBVIOUS
  <2>1. Ideal!Units(f, S) = Units(f, S)
    BY DEF Ideal!Units, Units
  <2> QED
    BY <2>1 DEF Ideal!TotalOf, TotalOf, Ideal!Cardinality, Cardinality
<1> QED
  BY <1>1, <1>2 DEF Ideal!Pool, IInv, PoolsMatchPositions, Side

(* init_market opens the market.                                           *)
LEMMA OpenMaps ==
  ASSUME IInv, NEW t \in Terms, NEW ts \in LockTimes, InitMarket(t, ts)
  PROVE  Ideal!Open
  BY DEF InitMarket, InitMarketAdmits, IInv, Staged, Ideal!Open, Phase, Pick,
    Paid, positionVars, tokenVars

(* deposit is a stake on the side the bettor is on, if it is on one.       *)
LEMMA StakeMaps ==
  ASSUME IInv, NEW b \in Bettor, NEW n \in DepositAmounts, NEW s \in Side,
         Deposit(b, n, s)
  PROVE  Ideal!Stake(b)
<1>1. n \in Ideal!U64 \ {0} /\ s \in {"yes", "no"}
  BY InputAssumption, U64Nat DEF Deposit, DepositAdmits, Side, Yes, No, U64,
    Ideal!U64
<1>2. Phase = "open" /\ Phase' = "open"
  BY DEF Deposit, DepositAdmits, DepositWindowOpen, Phase, IInv, Staged
<1>3. Pick[b] \in {"unknown", s}
  BY DEF Deposit, DepositAdmits, SideAgrees, Pick, Unknown
<1>4. amount' = [amount EXCEPT ![b] = @ + n]
  BY DEF Deposit
<1>5. Pick' = [Pick EXCEPT ![b] = s]
  <2>1. /\ opened' = [opened EXCEPT ![b] = TRUE] /\ opened \in [Bettor -> BOOLEAN]
        /\ side' = [side EXCEPT ![b] = s] /\ side \in [Bettor -> Side]
    BY DEF Deposit, IInv, TypeOK
  <2> QED
    BY <2>1 DEF Pick
<1>6. UNCHANGED <<outcome, Paid, received>>
  BY DEF Deposit, Paid
<1> QED
  BY <1>1, <1>2, <1>3, <1>4, <1>5, <1>6 DEF Ideal!Stake

(* lock_market closes it.                                                  *)
LEMMA CloseMaps ==
  ASSUME IInv, LockMarket
  PROVE  Ideal!Close
  BY DEF LockMarket, LockMarketAdmits, IInv, Staged, Ideal!Close, Phase, Pick,
    Paid, positionVars, tokenVars

(* resolve settles it, once: what the return data decoded to is a side.    *)
LEMMA SettleMaps ==
  ASSUME IInv, ResolveSome
  PROVE  Ideal!Settle
<1>1. PICK sn \in Snapshots, ka \in ResolveKeys,
           kb \in {None} \cup {Some(k) : k \in ResolveKeys} :
        Resolve(sn, ka, kb)
  BY DEF ResolveSome
<1>2. outcome' \in {"yes", "no"}
  BY <1>1, DecodeType DEF Resolve, Side, Yes, No
<1>3. Phase = "closed" /\ Phase' = "settled"
  BY <1>1 DEF Resolve, ResolveAdmits, Phase, IInv, Staged
<1>4. UNCHANGED <<amount, Pick, Paid, received>>
  BY <1>1 DEF Resolve, Pick, Paid, positionVars, tokenVars
<1> QED
  BY <1>2, <1>3, <1>4 DEF Ideal!Settle

(* What claim_payout computes from the pools is the entitlement that the   *)
(* stakes define.                                                          *)
LEMMA PayoutMaps ==
  ASSUME SInv, NEW b \in Bettor, resolved, Eligible(b)
  PROVE  Ideal!Entitlement(b) = Payout(b) /\ Payout(b) > 0
<1> USE DEF SInv
<1>1. Ideal!Pool(Yes) = yes_pool /\ Ideal!Pool(No) = no_pool
  BY PoolMaps
<1>2. outcome \in Side
  BY DEF IInv, TypeOK, Staged
<1>3. Ideal!Pool(outcome) = WinningPool
  BY <1>1, <1>2 DEF WinningPool, Side, Yes, No
<1>4. Ideal!Pool("yes") + Ideal!Pool("no") = TotalPool
  BY <1>1 DEF TotalPool, Yes, No
<1>5. ASSUME WinningPool = 0
      PROVE  Ideal!Entitlement(b) = Payout(b)
  BY <1>3, <1>5 DEF Ideal!Entitlement, Payout
<1>6. ASSUME WinningPool # 0
      PROVE  Ideal!Entitlement(b) = Payout(b)
  <2>1. Pick[b] = outcome
    BY <1>2, <1>6 DEF Eligible, WinningPool, Pick, Side, Yes, No
  <2>2. Ideal!Share(b) = Payout(b)
    BY <1>3, <1>4, <1>6 DEF Ideal!Share, Payout
  <2> QED
    BY <1>3, <1>6, <2>1, <2>2 DEF Ideal!Entitlement
<1>7. Payout(b) > 0
  <2>1. amount[b] \in Nat /\ Payout(b) \in Nat /\ Payout(b) >= amount[b]
    BY PayoutNat, PayoutCoversStake DEF IInv
  <2>2. amount[b] > 0
    BY DEF OpenedStaked, Eligible
  <2> QED
    BY <2>1, <2>2
<1> QED
  BY <1>5, <1>6, <1>7

(* claim_payout pays a bettor what the ideal market owes it, once.         *)
LEMMA PayMaps ==
  ASSUME SInv, NEW b \in Bettor, ClaimPayout(b)
  PROVE  Ideal!Pay(b)
<1>1. created /\ resolved /\ ~claimed[b] /\ Eligible(b)
  BY DEF ClaimPayout, ClaimPayoutAdmits, Claimable
<1>2. Phase = "settled" /\ Phase' = "settled"
  BY <1>1 DEF Phase, ClaimPayout, marketVars
<1>3. Ideal!Entitlement(b) = Payout(b) /\ Ideal!Entitlement(b) > 0
  BY <1>1, PayoutMaps
<1>4. Paid' = Paid \cup {b} /\ b \notin Paid
  BY <1>1 DEF ClaimPayout, Paid, SInv, IInv, TypeOK
<1>5. received' = [received EXCEPT ![b] = @ + Ideal!Entitlement(b)]
  BY <1>3 DEF ClaimPayout
<1>6. UNCHANGED <<amount, Pick, outcome>>
  BY DEF ClaimPayout, Pick, marketVars
<1> QED
  BY <1>2, <1>3, <1>4, <1>5, <1>6 DEF Ideal!Pay

(* Gifts, roots and the clock are none of the ideal market's business.     *)
LEMMA StutterMaps ==
  ASSUME UNCHANGED <<created, locked, resolved, outcome, positionVars, received>>
  PROVE  UNCHANGED Ideal!vars
  BY DEF Ideal!vars, Phase, Pick, Paid, positionVars

(* The program implements the ideal market: stakes only while it is open,  *)
(* one outcome, and one payment to each bettor of exactly the share that   *)
(* the stakes define, although the program computes it from running totals *)
(* and pays it out of a vault that others can send to.                     *)
THEOREM Refinement == Spec => ImplementsPariMutuel
<1>1. Init => Ideal!Init
  BY InitMaps
<1>2. SInv /\ [Next]_vars => [Ideal!Next]_Ideal!vars
  <2> SUFFICES ASSUME SInv, [Next]_vars
               PROVE  Ideal!Next \/ UNCHANGED Ideal!vars
    OBVIOUS
  <2>0. IInv
    BY DEF SInv
  <2>1. ASSUME NEW t \in Terms, NEW ts \in LockTimes, InitMarket(t, ts)
        PROVE  Ideal!Next
    BY <2>0, <2>1, OpenMaps DEF Ideal!Next
  <2>2. ASSUME NEW b \in Bettor, NEW n \in DepositAmounts, NEW s \in Side,
               Deposit(b, n, s)
        PROVE  Ideal!Next
    BY <2>0, <2>2, StakeMaps DEF Ideal!Next
  <2>3. CASE LockMarket
    BY <2>0, <2>3, CloseMaps DEF Ideal!Next
  <2>4. CASE ResolveSome
    BY <2>0, <2>4, SettleMaps DEF Ideal!Next
  <2>5. ASSUME NEW b \in Bettor, ClaimPayout(b)
        PROVE  Ideal!Next
    BY <2>5, PayMaps DEF Ideal!Next
  <2>6. ASSUME NEW b \in Bettor, NEW n \in DepositAmounts, Gift(b, n)
        PROVE  UNCHANGED Ideal!vars
    BY <2>6, StutterMaps DEF Gift, marketVars
  <2>7. ASSUME NEW sn \in Snapshots, PublishRoot(sn)
        PROVE  UNCHANGED Ideal!vars
    BY <2>7, StutterMaps DEF PublishRoot, marketVars, tokenVars
  <2>8. CASE Tick
    BY <2>8, StutterMaps DEF Tick, marketVars, tokenVars
  <2>9. CASE UNCHANGED vars
    BY <2>9, StutterMaps DEF vars, marketVars, tokenVars
  <2>10. ASSUME NEW b \in Bettor, NEW n \in MintAmounts, MintTo(b, n)
        PROVE  UNCHANGED Ideal!vars
    BY <2>10, StutterMaps DEF MintTo, marketVars
  <2> QED
    BY <2>1, <2>2, <2>3, <2>4, <2>5, <2>6, <2>7, <2>8, <2>9, <2>10
    DEF Next
<1> QED
  BY <1>1, <1>2, StakesStay, PTL DEF Spec, ImplementsPariMutuel, Ideal!Spec
=============================================================================
