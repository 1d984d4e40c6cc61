--------------------------- MODULE MarketAccount ----------------------------
(***************************************************************************)
(* The bytes of a Market account, and how the dashboard's server reads     *)
(* them back (dashboard/src/lib/pari.ts).  Anchor serialises the whole     *)
(* struct at the end of an instruction that changes it, so the account's   *)
(* data is a function of PariMarket's state; no state is added.            *)
(***************************************************************************)
EXTENDS PariMarket, SequencesExt

CONSTANTS
  MarketId,       \* Market.market_id
  UsdcMint,       \* Market.usdc_mint: 32 bytes
  VaultKey,       \* Market.vault: 32 bytes
  Bump,           \* Market.bump
  CanonicalMint   \* CANONICAL_USDC_MINT

MARKET_DISCRIMINATOR == <<219, 190, 213, 55, 0, 227, 198, 154>>
MARKET_ACCOUNT_SIZE == 144

-----------------------------------------------------------------------------
(* Borsh.  An integer is its w lowest bytes in two's complement, lowest    *)
(* first; n shifted by k bytes has lost the k lowest.                      *)
Shifted(n, k) ==
  LET rest[i \in 0 .. k] == IF i = 0 THEN n ELSE rest[i - 1] \div 256
  IN  rest[k]

LE(n, w) == [i \in 1 .. w |-> Shifted(n, i - 1) % 256]

(* The integers of an unsigned and of a signed type of w bytes.            *)
Unsigned(n, w) == n \in Nat /\ Shifted(n, w - 1) \in 0 .. 255
Signed(n, w) == n \in Int /\ Shifted(n, w - 1) \in -128 .. 127

Bool(p) == <<IF p THEN 1 ELSE 0>>

(* An enum is the index of its variant.                                    *)
Comparisons == <<"GreaterThan", "LessThan", "EqualTo">>
Expressions == <<"Add", "Subtract">>
Variant(names, v) == <<(CHOOSE i \in DOMAIN names : names[i] = v) - 1>>

(* An Option is one byte when it is None, else that byte and the value,    *)
(* here already in bytes.                                                  *)
Option(o) == IF o = None THEN <<0>> ELSE <<1>> \o CHOOSE v \in o : TRUE

OutcomeOption == IF outcome = Unknown THEN None ELSE Some(outcome = Yes)

(* The fields in the order of struct Market.                               *)
Struct ==
  LE(MarketId, 8) \o LE(terms.fixture_id, 8) \o LE(terms.epoch_day, 2)
    \o LE(terms.stat_a_key, 4) \o Option({LE(k, 4) : k \in terms.stat_b_key})
    \o Option({Variant(Expressions, e) : e \in terms.op})
    \o LE(terms.threshold, 4) \o Variant(Comparisons, terms.comparison)
    \o LE(yes_pool, 8) \o LE(no_pool, 8) \o UsdcMint \o VaultKey \o LE(lock_ts, 8)
    \o Bool(locked) \o Bool(resolved) \o Option({Bool(v) : v \in OutcomeOption})
    \o <<Bump>>

(* The account: the discriminator, the struct, and what is left of the     *)
(* space init_market has allocated, which is zero.                         *)
AccountData ==
  LET used == MARKET_DISCRIMINATOR \o Struct
  IN  used \o [i \in 1 .. MARKET_ACCOUNT_SIZE - Len(used) |-> 0]

(* The values are of the fields' types.                                    *)
ASSUME FieldAssumption ==
  /\ Unsigned(MarketId, 8) /\ Bump \in 0 .. 255
  /\ {UsdcMint, VaultKey, CanonicalMint} \subseteq [1 .. 32 -> 0 .. 255]
  /\ \A t \in Terms :
       /\ t \in [fixture_id : Int, epoch_day : Nat, stat_a_key : Nat,
                 stat_b_key : SUBSET Nat, op : SUBSET {"Add", "Subtract"},
                 comparison : {"GreaterThan", "LessThan", "EqualTo"},
                 threshold : Int]
       /\ Signed(t.fixture_id, 8) /\ Unsigned(t.epoch_day, 2)
       /\ \A k \in {t.stat_a_key} \cup t.stat_b_key : Unsigned(k, 4)
       /\ Signed(t.threshold, 4)
       /\ \A k, other \in t.stat_b_key : k = other
       /\ \A e, other \in t.op : e = other

-----------------------------------------------------------------------------
(* decodeMarket.  Every field is read at an offset of its own that no      *)
(* other field's value moves; numbers stay in their bytes here.            *)
At(data, offset, w) == SubSeq(data, offset + 1, offset + w)
ByteAt(data, offset) == data[offset + 1]
IsTrue(data, offset) == ByteAt(data, offset) = 1

OutcomeUntagged(data) == Some(IsTrue(data, 133))  \* mutant: None is not told
OutcomeOf(data) == IF IsTrue(data, 132) THEN Some(IsTrue(data, 133)) ELSE None

(* names[index] ?? other                                                   *)
Named(names, index, other) == IF index < Len(names) THEN names[index + 1] ELSE other

decodeMarket(data) ==
  [ marketId   |-> At(data, 8, 8),
    fixtureId  |-> At(data, 16, 8),
    epochDay   |-> At(data, 24, 2),
    statAKey   |-> At(data, 26, 4),
    statBKey   |-> IF IsTrue(data, 30) THEN Some(At(data, 31, 4)) ELSE None,
    op         |-> IF IsTrue(data, 35)
                   THEN {Named(Expressions, ByteAt(data, 36), "null")} \ {"null"}
                   ELSE None,
    threshold  |-> At(data, 37, 4),
    comparison |-> Named(Comparisons, ByteAt(data, 41), "EqualTo"),
    yesPool    |-> At(data, 42, 8),
    noPool     |-> At(data, 50, 8),
    usdcMint   |-> At(data, 58, 32),
    vault      |-> At(data, 90, 32),
    lockTs     |-> At(data, 122, 8),
    locked     |-> IsTrue(data, 130),
    resolved   |-> IsTrue(data, 131),
    outcome    |-> OutcomeOf(data),
    bump       |-> ByteAt(data, 134) ]

(* The scan for a default market keeps this account (hasCanonicalMint,     *)
(* which is also the memcmp filter that the RPC node applies).             *)
USDC_MINT_OFFSET == 58

hasCanonicalMint(data) == At(data, USDC_MINT_OFFSET, 32) = CanonicalMint

-----------------------------------------------------------------------------
(* Properties.                                                             *)

(* What the fields of the decoded market should be.                        *)
TrueMarket ==
  [ marketId   |-> LE(MarketId, 8),
    fixtureId  |-> LE(terms.fixture_id, 8),
    epochDay   |-> LE(terms.epoch_day, 2),
    statAKey   |-> LE(terms.stat_a_key, 4),
    statBKey   |-> {LE(k, 4) : k \in terms.stat_b_key},
    op         |-> terms.op,
    threshold  |-> LE(terms.threshold, 4),
    comparison |-> terms.comparison,
    yesPool    |-> LE(yes_pool, 8),
    noPool     |-> LE(no_pool, 8),
    usdcMint   |-> UsdcMint,
    vault      |-> VaultKey,
    lockTs     |-> LE(lock_ts, 8),
    locked     |-> locked,
    resolved   |-> resolved,
    outcome    |-> OutcomeOption,
    bump       |-> Bump ]

Agree(fields) ==
  \A f \in fields : decodeMarket(AccountData)[f] = TrueMarket[f]

TwoStat == terms.stat_b_key # None

(* Of a two-stat market the page shows what the program has stored: every  *)
(* field, in every stage of the market and for every predicate, but the    *)
(* bump, which is right only once there is an outcome.  And the scan,      *)
(* which looks for the mint at an offset of its own, keeps it if and only  *)
(* if its mint is the canonical one.                                       *)
TwoStatMarketsDecode ==
  created /\ TwoStat =>
    /\ Agree(IF resolved THEN DOMAIN TrueMarket ELSE DOMAIN TrueMarket \ {"bump"})
    /\ hasCanonicalMint(AccountData) <=> UsdcMint = CanonicalMint

(* Comment of lib/pari.ts: "fixed-offset Borsh decoder mirroring           *)
(* programs/pari-market/src/market/state.rs"; decodeMarket's result has a  *)
(* null for a stat_b_key that is None.                                     *)
EveryMarketDecodes == created => Agree(DOMAIN TrueMarket \ {"bump"})
=============================================================================
