---------------------------- MODULE Instructions ----------------------------
(***************************************************************************)
(* Instructions on the wire.  The repository writes the same Borsh layout  *)
(* by hand in several places: client/pari-client.ts (all five              *)
(* instructions), dashboard/src/lib/instructions.ts (deposit and claim),   *)
(* dashboard/scripts/devnet-verify.mts (what the dashboard lacks) and, for *)
(* the arguments of the CPI, client/validate-stat-borsh.ts; the program    *)
(* declares it in Rust, and the timeline of lib/pari.ts reads it.  Each is *)
(* translated on its own here.  A client sends what it has built for some  *)
(* arguments; the program executes what it reads.                          *)
(***************************************************************************)
EXTENDS MarketAccount

CONSTANTS
  Amounts,   \* what a deposit or a mint_to may be asked to move
  SubTreeRoot,  \* eventsSubTreeRoot: the hash of each snapshot
  PARI_MARKET_PROGRAM_ID, TXORACLE_PROGRAM_ID, SPL_TOKEN_PROGRAM_ID,
  ASSOCIATED_TOKEN_PROGRAM_ID, SYSTEM_PROGRAM_ID, RENT_SYSVAR_ID, USDC_MINT

(* Arguments have the widths of their types, amounts are within a supply,  *)
(* and no two snapshots have one hash.                                     *)
ASSUME ArgumentAssumption ==
  /\ Amounts \subseteq U64 /\ Unsigned(MaxU64, 8)
  /\ \A ts \in LockTimes : Signed(ts, 8)
  /\ \A sn \in Snapshots :
       /\ Signed(sn.fixture_id, 8) /\ Unsigned(sn.epoch_day, 2)
       /\ \A k \in ResolveKeys : Signed(sn.stat[k], 4)
  /\ SubTreeRoot \in [Snapshots -> [1 .. 32 -> 0 .. 255]]
  /\ \A sn, other \in Snapshots : SubTreeRoot[sn] = SubTreeRoot[other] => sn = other

VARIABLE wire  \* the transaction under way, {} when there is none

wireVars == <<vars, wire>>

-----------------------------------------------------------------------------
(* What an instruction is asked to do.                                     *)
Arguments ==
  [ix : {"init_market"}, marketId : {MarketId}, t : Terms, lockTs : LockTimes]
    \cup [ix : {"deposit"}, n : Amounts, s : Side]
    \cup [ix : {"lock_market"}]
    \cup [ix : {"resolve"}, sn : Snapshots, ka : ResolveKeys,
          kb : {None} \cup {Some(k) : k \in ResolveKeys}]
    \cup [ix : {"claim_payout"}]
    \cup [ix : {"mint_to"}, n : Amounts]

(* The proof of snapshot sn for the keys ka and kb as the server gives it. *)
(* Its hashes and times are small numbers that differ from one another,    *)
(* but for the root that stands for the whole snapshot.                    *)
Digest(h) == [i \in 1 .. 32 |-> h % 256]
Node(h, right) == [hash |-> Digest(h), isRightSibling |-> right]
Term(sn, k) ==
  [key |-> k, value |-> sn.stat[k], period |-> 4, eventStatRoot |-> Digest(10 + k),
   statProof |-> <<Node(20 + k, TRUE), Node(30 + k, FALSE)>>]
Material(a) ==
  [ts |-> 501, fixtureId |-> a.sn.fixture_id, updateCount |-> 7,
   minTimestamp |-> 501, maxTimestamp |-> 502, eventsSubTreeRoot |-> SubTreeRoot[a.sn],
   fixtureProof |-> <<Node(50, FALSE)>>,
   mainTreeProof |-> <<Node(60, TRUE), Node(70, TRUE)>>,
   statA |-> Term(a.sn, a.ka), statB |-> {Term(a.sn, k) : k \in a.kb}]

(* findProgramAddressSync: the address derived from seeds for a program.   *)
Pda(program, seeds) == [program |-> program, seeds |-> seeds]

(* An entry of an account list.                                            *)
Meta(key, signer, writable) ==
  [pubkey |-> key, isSigner |-> signer, isWritable |-> writable]
RO(key) == Meta(key, FALSE, FALSE)
RW(key) == Meta(key, FALSE, TRUE)
SignRO(key) == Meta(key, TRUE, FALSE)
SignRW(key) == Meta(key, TRUE, TRUE)

Built(program, keys, data) == [programId |-> program, keys |-> keys, data |-> data]

-----------------------------------------------------------------------------
(* client/pari-client.ts.                                                  *)
PariWriter == [u8 |-> 1, u16 |-> 2, u32 |-> 4, u64 |-> 8, i32 |-> 4, i64 |-> 8]

IX_DISCRIMINATOR ==
  [init_market  |-> <<33, 253, 15, 116, 89, 25, 127, 236>>,
   deposit      |-> <<242, 35, 198, 137, 82, 225, 242, 182>>,
   lock_market  |-> <<107, 8, 184, 91, 223, 13, 180, 38>>,
   resolve      |-> <<246, 150, 236, 206, 108, 63, 58, 10>>,
   claim_payout |-> <<127, 240, 132, 62, 227, 198, 146, 133>>]

marketPda(id) == Pda(PARI_MARKET_PROGRAM_ID, <<"market", LE(id, PariWriter.u64)>>)
vaultPda(market) == Pda(PARI_MARKET_PROGRAM_ID, <<"vault", market>>)
positionPda(market, b) == Pda(PARI_MARKET_PROGRAM_ID, <<"position", market, b>>)
dailyScoresRootsPda(day) ==
  Pda(TXORACLE_PROGRAM_ID, <<"daily_scores_roots", LE(day, PariWriter.u16)>>)

(* The market the clients are configured with.                             *)
TheMarket == marketPda(MarketId)

writeVec(items) == LE(Len(items), PariWriter.u32) \o FlattenSeq(items)
writeProof(nodes) ==
  writeVec([i \in DOMAIN nodes |-> nodes[i].hash \o Bool(nodes[i].isRightSibling)])
writeStatTerm(t) ==
  LE(t.key, PariWriter.u32) \o LE(t.value, PariWriter.i32)
    \o LE(t.period, PariWriter.i32) \o t.eventStatRoot
    \o writeProof(t.statProof)
writeScoresBatchSummary(p) ==
  LE(p.fixtureId, PariWriter.i64) \o LE(p.updateCount, PariWriter.i32)
    \o LE(p.minTimestamp, PariWriter.i64) \o LE(p.maxTimestamp, PariWriter.i64)
    \o p.eventsSubTreeRoot
writeTraderPredicate(t) ==
  LE(t.threshold, PariWriter.i32) \o Variant(Comparisons, t.comparison)

(* An optional argument, its value already written.                        *)
writeOption(o) == IF o = {} THEN Bool(FALSE) ELSE Bool(TRUE) \o CHOOSE v \in o : TRUE

buildInitMarket(a, authority) ==
  LET market == marketPda(a.marketId)
  IN  Built(PARI_MARKET_PROGRAM_ID,
        << RW(market), RO(USDC_MINT), RW(vaultPda(market)), SignRW(authority),
           RO(SPL_TOKEN_PROGRAM_ID), RO(SYSTEM_PROGRAM_ID), RO(RENT_SYSVAR_ID) >>,
        IX_DISCRIMINATOR.init_market
          \o LE(a.marketId, PariWriter.u64) \o LE(a.t.fixture_id, PariWriter.i64)
          \o LE(a.t.epoch_day, PariWriter.u16) \o LE(a.t.stat_a_key, PariWriter.u32)
          \o writeOption({LE(k, PariWriter.u32) : k \in a.t.stat_b_key})
          \o writeOption({Variant(Expressions, e) : e \in a.t.op})
          \o writeTraderPredicate(a.t) \o LE(a.lockTs, PariWriter.i64))

DepositKeys(bettor, usdc) ==
  << RW(TheMarket), RW(positionPda(TheMarket, bettor)), RW(vaultPda(TheMarket)),
     RW(usdc), SignRW(bettor), RO(SPL_TOKEN_PROGRAM_ID), RO(SYSTEM_PROGRAM_ID) >>

buildDepositSwapped(a, bettor, usdc) ==  \* mutant: YES and NO
  Built(PARI_MARKET_PROGRAM_ID, DepositKeys(bettor, usdc),
        IX_DISCRIMINATOR.deposit \o LE(a.n, PariWriter.u64) \o Bool(a.s = No))
buildDeposit(a, bettor, usdc) ==
  Built(PARI_MARKET_PROGRAM_ID, DepositKeys(bettor, usdc),
        IX_DISCRIMINATOR.deposit \o LE(a.n, PariWriter.u64) \o Bool(a.s = Yes))

buildLockMarket(caller) ==
  Built(PARI_MARKET_PROGRAM_ID, << RW(TheMarket), SignRO(caller) >>,
        IX_DISCRIMINATOR.lock_market)

buildResolve(a, caller) ==
  LET p == Material(a)
  IN  Built(PARI_MARKET_PROGRAM_ID,
        << RW(TheMarket), RO(dailyScoresRootsPda(a.sn.epoch_day)),
           RO(TXORACLE_PROGRAM_ID), SignRO(caller) >>,
        IX_DISCRIMINATOR.resolve
          \o LE(p.ts, PariWriter.i64) \o writeScoresBatchSummary(p)
          \o writeProof(p.fixtureProof) \o writeProof(p.mainTreeProof)
          \o writeStatTerm(p.statA) \o writeOption({writeStatTerm(t) : t \in p.statB}))

buildClaimPayout(bettor, usdc) ==
  Built(PARI_MARKET_PROGRAM_ID,
        << RO(TheMarket), RW(positionPda(TheMarket, bettor)),
           RW(vaultPda(TheMarket)), RW(usdc), SignRW(bettor),
           RO(SPL_TOKEN_PROGRAM_ID) >>,
        IX_DISCRIMINATOR.claim_payout)

-----------------------------------------------------------------------------
(* dashboard/src/lib/instructions.ts and lib/pari.ts.                      *)
IX_DISCRIMINATORS ==
  [init_market  |-> <<33, 253, 15, 116, 89, 25, 127, 236>>,
   deposit      |-> <<242, 35, 198, 137, 82, 225, 242, 182>>,
   lock_market  |-> <<107, 8, 184, 91, 223, 13, 180, 38>>,
   resolve      |-> <<246, 150, 236, 206, 108, 63, 58, 10>>,
   claim_payout |-> <<127, 240, 132, 62, 227, 198, 146, 133>>]

dashboardVaultPda(market) == Pda(PARI_MARKET_PROGRAM_ID, <<"vault", market>>)
dashboardPositionPda(market, b) ==
  Pda(PARI_MARKET_PROGRAM_ID, <<"position", market, b>>)

encodeDepositArgs(n, s) == LE(n, 8) \o <<IF s = Yes THEN 1 ELSE 0>>

buildDepositInstruction(a, bettor, usdc) ==
  Built(PARI_MARKET_PROGRAM_ID,
        << RW(TheMarket), RW(dashboardPositionPda(TheMarket, bettor)),
           RW(dashboardVaultPda(TheMarket)), RW(usdc), SignRW(bettor),
           RO(SPL_TOKEN_PROGRAM_ID), RO(SYSTEM_PROGRAM_ID) >>,
        IX_DISCRIMINATORS.deposit \o encodeDepositArgs(a.n, a.s))

claimKeysVaultReadonly(bettor, usdc) ==  \* mutant: the vault is not writable
  << RO(TheMarket), RW(dashboardPositionPda(TheMarket, bettor)),
     RO(dashboardVaultPda(TheMarket)), RW(usdc), SignRW(bettor),
     RO(SPL_TOKEN_PROGRAM_ID) >>
claimKeys(bettor, usdc) ==
  << RO(TheMarket), RW(dashboardPositionPda(TheMarket, bettor)),
     RW(dashboardVaultPda(TheMarket)), RW(usdc), SignRW(bettor),
     RO(SPL_TOKEN_PROGRAM_ID) >>
buildClaimPayoutInstruction(bettor, usdc) ==
  Built(PARI_MARKET_PROGRAM_ID, claimKeys(bettor, usdc),
        IX_DISCRIMINATORS.claim_payout)

(* What the timeline makes of an instruction's data.                       *)
matchDiscriminator(data) ==
  {name \in DOMAIN IX_DISCRIMINATORS : Len(data) >= 8 /\ At(data, 0, 8) = IX_DISCRIMINATORS[name]}
decodeFromStart(data) ==  \* mutant: the discriminator is not skipped
  [amount |-> At(data, 0, 8), side |-> IsTrue(data, 8)]
decodeDepositArgs(data) == [amount |-> At(data, 8, 8), side |-> IsTrue(data, 16)]

-----------------------------------------------------------------------------
(* dashboard/scripts/devnet-verify.mts.                                    *)
DevnetWriter == [u8 |-> 1, u16 |-> 2, u32 |-> 4, u64 |-> 8, i32 |-> 4,
                 i64 |-> 8]

DevnetDiscriminator ==
  [init_market |-> <<33, 253, 15, 116, 89, 25, 127, 236>>,
   lock_market |-> <<107, 8, 184, 91, 223, 13, 180, 38>>,
   resolve     |-> <<246, 150, 236, 206, 108, 63, 58, 10>>]

devnetMarketPda(id) == Pda(PARI_MARKET_PROGRAM_ID, <<"market", LE(id, 8)>>)
devnetVaultPdaOf(market) == Pda(PARI_MARKET_PROGRAM_ID, <<"vault", market>>)
devnetRootsPda(day) == Pda(TXORACLE_PROGRAM_ID, <<"daily_scores_roots", LE(day, 2)>>)

devnetProof(nodes) ==
  LE(Len(nodes), DevnetWriter.u32)
    \o FlattenSeq([i \in DOMAIN nodes |-> nodes[i].hash \o Bool(nodes[i].isRightSibling)])
devnetStatTerm(t) ==
  LE(t.key, DevnetWriter.u32) \o LE(t.value, DevnetWriter.i32)
    \o LE(t.period, DevnetWriter.i32) \o t.eventStatRoot
    \o devnetProof(t.statProof)

(* Only for home minus away greater than a threshold: the variants' bytes  *)
(* are written out.                                                        *)
buildInitMarketIx(a, authority) ==
  LET market == devnetMarketPda(a.marketId)
  IN  Built(PARI_MARKET_PROGRAM_ID,
        << RW(market), RO(USDC_MINT), RW(devnetVaultPdaOf(market)),
           SignRW(authority), RO(SPL_TOKEN_PROGRAM_ID), RO(SYSTEM_PROGRAM_ID),
           RO(RENT_SYSVAR_ID) >>,
        DevnetDiscriminator.init_market
          \o LE(a.marketId, DevnetWriter.u64) \o LE(a.t.fixture_id, DevnetWriter.i64)
          \o LE(a.t.epoch_day, DevnetWriter.u16) \o LE(a.t.stat_a_key, DevnetWriter.u32)
          \o writeOption({LE(k, DevnetWriter.u32) : k \in a.t.stat_b_key})
          \o writeOption({<<1>>})
          \o LE(a.t.threshold, DevnetWriter.i32) \o <<0>>
          \o LE(a.lockTs, DevnetWriter.i64))

lockIxWritableCaller(caller) ==  \* mutant: one flag more than the others set
  Built(PARI_MARKET_PROGRAM_ID, << RW(TheMarket), SignRW(caller) >>,
        DevnetDiscriminator.lock_market)
buildLockMarketIx(caller) ==
  Built(PARI_MARKET_PROGRAM_ID, << RW(TheMarket), SignRO(caller) >>,
        DevnetDiscriminator.lock_market)

(* statB is always given.                                                  *)
buildResolveIx(a, caller) ==
  LET p == Material(a)
  IN  Built(PARI_MARKET_PROGRAM_ID,
        << RW(TheMarket), RO(devnetRootsPda(a.sn.epoch_day)),
           RO(TXORACLE_PROGRAM_ID), SignRO(caller) >>,
        DevnetDiscriminator.resolve
          \o LE(p.ts, DevnetWriter.i64)
          \o LE(p.fixtureId, DevnetWriter.i64) \o LE(p.updateCount, DevnetWriter.i32)
          \o LE(p.minTimestamp, DevnetWriter.i64)
          \o LE(p.maxTimestamp, DevnetWriter.i64)
          \o p.eventsSubTreeRoot
          \o devnetProof(p.fixtureProof) \o devnetProof(p.mainTreeProof)
          \o devnetStatTerm(p.statA) \o writeOption({devnetStatTerm(t) : t \in p.statB}))

findAta(owner) ==
  Pda(ASSOCIATED_TOKEN_PROGRAM_ID, <<"ata", owner, SPL_TOKEN_PROGRAM_ID, USDC_MINT>>)

mintToIx(a, owner) ==
  Built(SPL_TOKEN_PROGRAM_ID,
        << RW(USDC_MINT), RW(findAta(owner)), SignRO(owner) >>,
        <<7>> \o LE(a.n, 8))

-----------------------------------------------------------------------------
(* client/validate-stat-borsh.ts: the CPI's arguments as milestone M0 has  *)
(* sent them to the oracle from outside.                                   *)
ValidateStatWriter == [u8 |-> 1, u32 |-> 4, i32 |-> 4, i64 |-> 8]

m0Proof(nodes) ==
  LE(Len(nodes), ValidateStatWriter.u32)
    \o FlattenSeq([i \in DOMAIN nodes |-> nodes[i].hash \o Bool(nodes[i].isRightSibling)])
m0StatTerm(t) ==
  LE(t.key, ValidateStatWriter.u32) \o LE(t.value, ValidateStatWriter.i32)
    \o LE(t.period, ValidateStatWriter.i32)
    \o t.eventStatRoot \o m0Proof(t.statProof)

encodeValidateStatArgs(p, t, statB) ==
  LE(p.ts, ValidateStatWriter.i64)
    \o LE(p.fixtureId, ValidateStatWriter.i64)
    \o LE(p.updateCount, ValidateStatWriter.i32)
    \o LE(p.minTimestamp, ValidateStatWriter.i64)
    \o LE(p.maxTimestamp, ValidateStatWriter.i64)
    \o p.eventsSubTreeRoot
    \o m0Proof(p.fixtureProof) \o m0Proof(p.mainTreeProof)
    \o LE(t.threshold, ValidateStatWriter.i32) \o Variant(Comparisons, t.comparison)
    \o m0StatTerm(p.statA)
    \o (IF statB # {} THEN Bool(TRUE) \o m0StatTerm(CHOOSE b \in statB : TRUE) ELSE Bool(FALSE))
    \o (IF t.op # {} THEN Bool(TRUE) \o Variant(Expressions, CHOOSE e \in t.op : TRUE)
        ELSE Bool(FALSE))

-----------------------------------------------------------------------------
(* The program (Rust).  Borsh writes a struct's fields in the order of     *)
(* their declaration, and the arguments of an instruction one by one.      *)
ProofNodes(nodes) ==
  LE(Len(nodes), 4)
    \o FlattenSeq([i \in DOMAIN nodes |-> nodes[i].hash \o Bool(nodes[i].isRightSibling)])
StatTerm(t) == LE(t.key, 4) \o LE(t.value, 4) \o LE(t.period, 4)
                 \o t.eventStatRoot \o ProofNodes(t.statProof)
ScoresBatchSummary(p) ==
  LE(p.fixtureId, 8) \o LE(p.updateCount, 4) \o LE(p.minTimestamp, 8)
    \o LE(p.maxTimestamp, 8) \o p.eventsSubTreeRoot
TraderPredicate(t) == LE(t.threshold, 4) \o Variant(Comparisons, t.comparison)

ArgumentBytes(a) ==
  CASE a.ix = "init_market" ->
         LE(a.marketId, 8) \o LE(a.t.fixture_id, 8) \o LE(a.t.epoch_day, 2)
           \o LE(a.t.stat_a_key, 4) \o Option({LE(k, 4) : k \in a.t.stat_b_key})
           \o Option({Variant(Expressions, e) : e \in a.t.op})
           \o TraderPredicate(a.t) \o LE(a.lockTs, 8)
    [] a.ix = "deposit" -> LE(a.n, 8) \o Bool(a.s = Yes)
    [] a.ix = "resolve" ->
         LET p == Material(a)
         IN  LE(p.ts, 8) \o ScoresBatchSummary(p) \o ProofNodes(p.fixtureProof)
               \o ProofNodes(p.mainTreeProof) \o StatTerm(p.statA)
               \o Option({StatTerm(t) : t \in p.statB})
    [] a.ix \in {"lock_market", "claim_payout"} -> <<>>
    [] a.ix = "mint_to" -> LE(a.n, 8)

(* Anchor's eight bytes of sha256("global:" + name), which the clients     *)
(* have copied from the IDL; the token program's instruction tag.          *)
Opcode(a) == IF a.ix = "mint_to" THEN <<7>> ELSE IX_DISCRIMINATOR[a.ix]
Recipient(a) == IF a.ix = "mint_to" THEN SPL_TOKEN_PROGRAM_ID ELSE PARI_MARKET_PROGRAM_ID

(* What a program reads from an instruction.                               *)
Encoding == [a \in Arguments |-> Opcode(a) \o ArgumentBytes(a)]
Reading(i) == {a \in Arguments : /\ i.programId = Recipient(a)
                                 /\ IsPrefix(Encoding[a], i.data)}

(* The accounts an instruction takes: #[derive(Accounts)] with its seeds.  *)
MarketOfId(id) == Pda(PARI_MARKET_PROGRAM_ID, <<"market", LE(id, 8)>>)
Vault(market) == Pda(PARI_MARKET_PROGRAM_ID, <<"vault", market>>)
Position(market, b) == Pda(PARI_MARKET_PROGRAM_ID, <<"position", market, b>>)
Roots(day) == Pda(TXORACLE_PROGRAM_ID, <<"daily_scores_roots", LE(day, 2)>>)

Accounts(a, b) ==
  LET m == MarketOfId(MarketId)
  IN  CASE a.ix = "init_market" ->
             << RW(MarketOfId(a.marketId)), RO(USDC_MINT), RW(Vault(MarketOfId(a.marketId))),
                SignRW(b), RO(SPL_TOKEN_PROGRAM_ID), RO(SYSTEM_PROGRAM_ID), RO(RENT_SYSVAR_ID) >>
        [] a.ix = "deposit" ->
             << RW(m), RW(Position(m, b)), RW(Vault(m)), RW(findAta(b)), SignRW(b),
                RO(SPL_TOKEN_PROGRAM_ID), RO(SYSTEM_PROGRAM_ID) >>
        [] a.ix = "lock_market" -> << RW(m), SignRO(b) >>
        [] a.ix = "resolve" ->
             << RW(m), RO(Roots(terms.epoch_day)), RO(TXORACLE_PROGRAM_ID), SignRO(b) >>
        [] a.ix = "claim_payout" ->
             << RO(m), RW(Position(m, b)), RW(Vault(m)), RW(findAta(b)), SignRW(b),
                RO(SPL_TOKEN_PROGRAM_ID) >>
        [] a.ix = "mint_to" -> << RW(USDC_MINT), RW(findAta(b)), SignRO(b) >>

(* The list names these accounts, with at least their privileges, and b    *)
(* has signed wherever a signature is claimed.                             *)
Satisfied(keys, accounts, b) ==
  /\ Len(keys) >= Len(accounts)
  /\ \A i \in DOMAIN accounts :
       /\ keys[i].pubkey = accounts[i].pubkey
       /\ accounts[i].isSigner => keys[i].isSigner
       /\ accounts[i].isWritable => keys[i].isWritable
  /\ \A i \in DOMAIN keys : keys[i].isSigner => keys[i].pubkey = b

(* encode_validate_stat_args: the CPI of resolve(), with the market's own  *)
(* predicate, and a second stat only if the market has one.                *)
StatsFirst(p, t, statB) ==  \* mutant: the predicate comes after the stats
  LE(p.ts, 8) \o ScoresBatchSummary(p) \o ProofNodes(p.fixtureProof)
    \o ProofNodes(p.mainTreeProof) \o StatTerm(p.statA) \o TraderPredicate(t)
    \o Option({StatTerm(b) : b \in statB}) \o Option({Variant(Expressions, e) : e \in t.op})
encode_validate_stat_args(p, t, statB) ==
  LE(p.ts, 8) \o ScoresBatchSummary(p) \o ProofNodes(p.fixtureProof)
    \o ProofNodes(p.mainTreeProof) \o TraderPredicate(t) \o StatTerm(p.statA)
    \o Option({StatTerm(b) : b \in statB}) \o Option({Variant(Expressions, e) : e \in t.op})

-----------------------------------------------------------------------------
Clients == {"pari-client", "dashboard", "devnet-verify"}

(* What a client builds for these arguments, if it can.                    *)
BuiltBy(client, a, b) ==
  CASE client = "pari-client" /\ a.ix = "init_market" -> {buildInitMarket(a, b)}
    [] client = "pari-client" /\ a.ix = "deposit" -> {buildDeposit(a, b, findAta(b))}
    [] client = "pari-client" /\ a.ix = "lock_market" -> {buildLockMarket(b)}
    [] client = "pari-client" /\ a.ix = "resolve" -> {buildResolve(a, b)}
    [] client = "pari-client" /\ a.ix = "claim_payout" -> {buildClaimPayout(b, findAta(b))}
    [] client = "dashboard" /\ a.ix = "deposit" -> {buildDepositInstruction(a, b, findAta(b))}
    [] client = "dashboard" /\ a.ix = "claim_payout" ->
         {buildClaimPayoutInstruction(b, findAta(b))}
    [] client = "devnet-verify" /\ a.ix = "init_market" ->
         {buildInitMarketIx(a, b) : e \in {e \in a.t.op : e = "Subtract"
                                             /\ a.t.comparison = "GreaterThan"}}
    [] client = "devnet-verify" /\ a.ix = "lock_market" -> {buildLockMarketIx(b)}
    [] client = "devnet-verify" /\ a.ix = "resolve" -> {buildResolveIx(a, b) : k \in a.kb}
    [] client = "devnet-verify" /\ a.ix = "mint_to" -> {mintToIx(a, b)}
    [] OTHER -> {}

Effect(a, b) ==
  \/ a.ix = "init_market" /\ InitMarket(a.t, a.lockTs)
  \/ a.ix = "deposit" /\ Deposit(b, a.n, a.s)
  \/ a.ix = "lock_market" /\ LockMarket
  \/ a.ix = "resolve" /\ Resolve(a.sn, a.ka, a.kb)
  \/ a.ix = "claim_payout" /\ ClaimPayout(b)
  \/ a.ix = "mint_to" /\ MintTo(b, a.n)

(* Whether the state allows it.                                            *)
EffectAdmits(a, b) ==
  \/ a.ix = "init_market" /\ InitMarketAdmits(a.t, a.lockTs)
  \/ a.ix = "deposit" /\ DepositAdmits(b, a.n, a.s)
  \/ a.ix = "lock_market" /\ LockMarketAdmits
  \/ a.ix = "resolve" /\ ResolveAdmits(a.sn, a.ka, a.kb)
  \/ a.ix = "claim_payout" /\ ClaimPayoutAdmits(b)
  \/ a.ix = "mint_to" /\ MintAdmits(a.n)

WireInit == Init /\ wire = {}

Submit ==
  /\ wire = {}
  /\ \E a \in Arguments, b \in Bettor, client \in Clients :
       \E i \in BuiltBy(client, a, b) :
          wire' = {[by |-> b, meant |-> a, built |-> i]}
  /\ UNCHANGED vars

(* What the program makes of a transaction: an instruction it can read,    *)
(* with the accounts that it takes.                                        *)
Understood(w) ==
  {a \in Reading(w.built) :
     /\ created \/ a.ix \in {"init_market", "mint_to"}  \* else no Market account
     /\ Satisfied(w.built.keys, Accounts(a, w.by), w.by)}

(* The instruction is executed as it is read, or the transaction is        *)
(* refused or lost.                                                        *)
Executed(w) == \E a \in Understood(w) : Effect(a, w.by)
Executable(w) == \E a \in Understood(w) : EffectAdmits(a, w.by)

Execute == \E w \in wire : Executed(w) /\ wire' = {}
Drop == wire # {} /\ wire' = {} /\ UNCHANGED vars

World == /\ Tick \/ \E sn \in Snapshots : PublishRoot(sn)
         /\ UNCHANGED wire

WireNext == Submit \/ Execute \/ Drop \/ World

WireSpec == WireInit /\ [][WireNext]_wireVars

-----------------------------------------------------------------------------
(* Properties.                                                             *)

(* Whatever a client's instruction does to the market, it is what the      *)
(* client has been asked for: no field is read as another, no account      *)
(* stands in another's place.                                              *)
ExecutedAsMeant ==
  [][\A w \in wire \ wire' : UNCHANGED vars \/ Effect(w.meant, w.by)]_wireVars

(* An instruction that the state of the market allows is never refused for *)
(* how it was built: its layout, its derived addresses, its privileges.    *)
RefusedOnlyOnMerit ==
  \A w \in wire : EffectAdmits(w.meant, w.by) => Executable(w)

(* The hand-written builders agree to the byte and the flag ("matches      *)
(* client/pari-client.ts's Writer output byte-for-byte", "faithful         *)
(* transcription"), not merely in what the program tolerates.              *)
BuildersAgree ==
  \A w \in wire, client \in Clients : BuiltBy(client, w.meant, w.by) \subseteq {w.built}

(* The timeline shows an instruction of the program as what it was: its    *)
(* name, and the amount and side of a deposit; a token instruction is none *)
(* of them.                                                                *)
TimelineShowsIt ==
  \A w \in wire :
    /\ matchDiscriminator(w.built.data) = {w.meant.ix} \ {"mint_to"}
    /\ w.meant.ix = "deposit" =>
         decodeDepositArgs(w.built.data) = [amount |-> LE(w.meant.n, 8), side |-> w.meant.s = Yes]

(* The arguments a resolver's instruction brings to the CPI are, byte for  *)
(* byte, those the reference encoder sends to the oracle for that proof    *)
(* and this market's predicate.                                            *)
CpiIsReference ==
  \A w \in wire : \A a \in Reading(w.built) :
    created /\ a.ix = "resolve" /\ IsSome(a.kb) = IsSome(terms.stat_b_key) =>
      encode_validate_stat_args(Material(a), terms, Material(a).statB)
        = encodeValidateStatArgs(Material(w.meant), terms, Material(w.meant).statB)
=============================================================================
