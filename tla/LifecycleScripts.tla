-------------------------- MODULE LifecycleScripts --------------------------
(***************************************************************************)
(* The three scripts that take a market of their own through its life on   *)
(* devnet: scripts/m3-lifecycle-verify.ts, scripts/m5-capture-demo.ts and  *)
(* dashboard/scripts/devnet-verify.mts.  Each is one main() that awaits    *)
(* one thing after another, so a script is a sequence of steps, one for    *)
(* each section of its main(), and sendAndConfirm a sequence of stages.    *)
(* The steps run against the program of PariMarket, whose other            *)
(* instructions anybody may send in between.  The clock of PariMarket is   *)
(* the chain's; the scripts read their own.                                *)
(***************************************************************************)
EXTENDS PariMarket, Sequences

CONSTANTS
  Deployer,      \* the authority, who deposits nothing
  Wallet1, Wallet2, Other,  \* the test wallets, and somebody else who bets
  Primary, Backup,  \* the fixture ids of PRIMARY_FIXTURE and BACKUP_FIXTURE
  LockWindow,    \* the 30 s from creation to lock of m3 and devnet-verify
  LockBuffer,    \* the 2 s the scripts wait beyond the lock time
  Draws,         \* the amounts m5 draws from, 20 to 120 test-USDC
  Plans,         \* the cadence parameters the environment may hold for m5
  Skews,         \* by how much the script's clock may be ahead of the chain's
  Latency,       \* the ticks within which a network without trouble confirms
  MaxAge         \* bound: the ticks one step of a script can take

(* The windows of m3 and devnet-verify hold a create_market and the two    *)
(* deposits on a network without trouble, also for a clock that is behind  *)
(* by no more than the buffer.  Nothing bounds by how much it may be off.  *)
ASSUME ScriptAssumption ==
  /\ {Wallet1, Wallet2, Other} \subseteq Bettor
  /\ Wallet1 # Wallet2 /\ Other \notin {Wallet1, Wallet2}
  /\ {LockWindow, LockBuffer, Latency, MaxAge} \subseteq Nat
  /\ Skews \subseteq Int
  /\ Latency > 0 /\ LockWindow >= 3 * Latency + LockBuffer
  /\ Draws \subseteq Nat \ {0}
  /\ \A p \in Plans :
       {p.nDeposits, p.sleepMin, p.sleepMax, p.lockWindow} \subseteq Int

VARIABLES
  script,      \* which of the scripts runs
  plan,        \* its cadence parameters
  skew,        \* its clock minus the chain's
  pc,          \* the step of main() it is at
  stage,       \* the stage of sendAndConfirm it is at
  validation,  \* the proof it has fetched, {} before
  fixtureUsed, \* the fixture it has fetched it for
  until,       \* when its timer fires, {} when none is set
  tx,          \* the transaction it has sent last, and what became of it
  signatures,  \* the steps whose signatures it has recorded
  exit,        \* process.exit's argument, {} while it runs
  landed,      \* history: the steps whose transactions have landed
  age,         \* history: the ticks the step at pc has taken, sleep excluded
  troubled     \* history: something has gone wrong around the script

scriptVars == <<script, plan, skew, pc, stage, validation, fixtureUsed, until,
                tx, signatures, exit, landed, age, troubled>>
allVars == <<vars, scriptVars>>

Local == now + skew          \* Date.now()

-----------------------------------------------------------------------------
(* The steps of a main().  A transaction step sends one instruction signed *)
(* by `by`; `kept` says that its signature is recorded.                    *)
Step(op) == [op |-> op]
Fetch(primary, backup) == [op |-> "fetch", from |-> <<primary, backup>>]
Pause(lo, hi) == [op |-> "pause", range |-> lo .. hi]
WaitForLock(buffer) == [op |-> "wait", buffer |-> buffer]
Tx(ix, by) == [op |-> "tx", ix |-> ix, by |-> by, kept |-> TRUE, side |-> No,
               amounts |-> {0}, window |-> 0]
Create(by, window) == [Tx("create_market", by) EXCEPT !.window = window]
Bet(by, s, amounts) == [Tx("deposit", by) EXCEPT !.side = s, !.amounts = amounts]
Fund(by, n) == [Tx("create_ata_and_mint", by) EXCEPT !.amounts = {n}]
Unrecorded(step) == [step EXCEPT !.kept = FALSE]

(* Amounts are in units of ten test-USDC.                                  *)
(* scripts/m3-lifecycle-verify.ts                                          *)
M3Registered == {Deployer, Wallet1, Wallet2}
M3SendOnly == <<"payer", "send">>  \* mutant: nothing is confirmed
M3Send == <<"payer", "send", "confirm", "getTransaction">>
M3Setup == <<Step("setup")>>
M3Fixture == <<Fetch(Primary, Backup), Step("root")>>
M3Create == <<Create(Deployer, LockWindow)>>
M3Deposits == <<Bet(Wallet1, Yes, {1}), Unrecorded(Bet(Wallet2, No, {1}))>>
M3Lock == <<WaitForLock(LockBuffer), Tx("lock_market", Deployer)>>
M3Resolve == <<Tx("resolve", Deployer)>>
M3Claim == <<Tx("claim_payout", Wallet1)>>
M3Recheck == <<Step("recheck")>>
M3Script == M3Setup \o M3Fixture \o M3Create \o M3Deposits \o M3Lock
              \o M3Resolve \o M3Claim \o M3Recheck

(* scripts/m5-capture-demo.ts: loadCadencePlan refuses what is no positive *)
(* integer and a reversed range; the rest is main().                       *)
PlanAccepted(p) == p.nDeposits > 0 /\ p.lockWindow > 0 /\ p.sleepMin > 0
                   /\ p.sleepMin <= p.sleepMax
(* The wallets were given enough for the bets; where wallet 1 has nothing  *)
(* yet, the supply leaves room for what devnet-verify mints.               *)
ASSUME FundsAssumption ==
  \A w \in Wallets :
    IF w[Wallet1] = 0 THEN TotalOf(w, Bettor) + 10 <= MaxU64
    ELSE /\ w[Wallet2] > 0
         /\ \A p \in Plans, d \in Draws :
              PlanAccepted(p) =>
                p.nDeposits * d <= w[Wallet1] /\ p.nDeposits * d <= w[Wallet2]
M5Registered == {Deployer, Wallet1, Wallet2}
M5Send == <<"payer", "send", "confirm", "getTransaction">>
M5Setup == <<Step("plan"), Step("setup")>>
M5Fixture == <<Fetch(Primary, Backup), Step("root")>>
M5Create(p) == <<Create(Deployer, p.lockWindow)>>
M5Alternating(p, odd, even) ==
  [k \in 1 .. 2 * p.nDeposits - 1 |->
     IF k % 2 = 0 THEN Pause(p.sleepMin, p.sleepMax)
     ELSE IF ((k + 1) \div 2) % 2 = 1 THEN odd ELSE even]
M5OneSide(p) ==  \* mutant: the side alternates, the wallet does not
  M5Alternating(p, Bet(Wallet1, Yes, Draws), Bet(Wallet1, No, Draws))
M5Deposits(p) ==
  M5Alternating(p, Bet(Wallet1, Yes, Draws), Bet(Wallet2, No, Draws))
M5Lock == <<WaitForLock(LockBuffer), Tx("lock_market", Deployer)>>
M5Resolve == <<Tx("resolve", Deployer)>>
M5Claim == <<Tx("claim_payout", Wallet1)>>
M5Recheck == <<Step("recheck")>>
M5Script(p) == M5Setup \o M5Fixture \o M5Create(p) \o M5Deposits(p) \o M5Lock
                 \o M5Resolve \o M5Claim \o M5Recheck

(* dashboard/scripts/devnet-verify.mts: one wallet in every role.          *)
DevnetSend == <<"send", "confirm", "getTransaction">>
DevnetSetup == <<Step("setup")>>
DevnetMint == <<Unrecorded(Tx("create_test_mint", Wallet1)),
                Unrecorded(Fund(Wallet1, 10))>>
DevnetFixture == <<Fetch(Primary, Backup), Step("root")>>
DevnetCreate == <<Create(Wallet1, LockWindow)>>
DevnetDeposit == <<Bet(Wallet1, Yes, {1})>>
DevnetLock == <<WaitForLock(LockBuffer), Tx("lock_market", Wallet1)>>
DevnetResolve == <<Tx("resolve", Wallet1)>>
DevnetClaim == <<Tx("claim_payout", Wallet1)>>
DevnetRecheck == <<Step("recheck")>>
DevnetScript == DevnetSetup \o DevnetMint \o DevnetFixture \o DevnetCreate
                  \o DevnetDeposit \o DevnetLock \o DevnetResolve
                  \o DevnetClaim \o DevnetRecheck

Program(s, p) == CASE s = "m3" -> M3Script
                   [] s = "m5" -> M5Script(p)
                   [] s = "devnet" -> DevnetScript

(* sendAndConfirm of each script, and the payers it lets sign.             *)
Stages == CASE script = "m3" -> M3Send [] script = "m5" -> M5Send
            [] script = "devnet" -> DevnetSend
Registered == CASE script = "m3" -> M3Registered [] script = "m5" -> M5Registered
                [] script = "devnet" -> {Wallet1}

program == Program(script, plan)
step == program[pc]
Running == exit = {}

-----------------------------------------------------------------------------
NoPlan == <<>>
NoTx == [ix |-> "none", status |-> "none"]

(* devnet-verify's wallet holds nothing of the mint it is about to create. *)
ScriptInit ==
  /\ Init
  /\ script \in {"m3", "m5", "devnet"}
  /\ wallet[Wallet1] = 0 <=> script = "devnet"
  /\ plan \in IF script = "m5" THEN Plans ELSE {NoPlan}
  /\ skew \in Skews
  /\ pc = 1 /\ stage = 1
  /\ validation = {} /\ fixtureUsed = {}
  /\ until = {}
  /\ tx = NoTx
  /\ signatures = {} /\ landed = {}
  /\ exit = {}
  /\ age = 0
  /\ troubled = FALSE

(* The script goes on to its next step, or throws: main().catch prints the *)
(* error and exits with 1; outside: something else than the script failed. *)
Advance == pc' = pc + 1 /\ stage' = 1 /\ age' = 0
Throw(outside) ==
  /\ exit' = {1}
  /\ troubled' = (troubled \/ outside)
  /\ UNCHANGED <<vars, script, plan, skew, pc, stage, validation, fixtureUsed,
                 until, tx, signatures, landed, age>>

At(op) == Running /\ step.op = op

(* The cadence parameters, and the rehearsal that PRINT_PLAN=1 asks for.   *)
ReadPlan ==
  /\ At("plan")
  /\ \/ /\ ~PlanAccepted(plan)
        /\ Throw(TRUE)
     \/ /\ PlanAccepted(plan)
        /\ \/ Advance /\ UNCHANGED exit
           \/ exit' = {0} /\ UNCHANGED <<pc, stage, age>>
        /\ UNCHANGED <<vars, script, plan, skew, validation, fixtureUsed, until,
                       tx, signatures, landed, troubled>>

(* The cluster's genesis hash, the keypairs and the token file.            *)
Setup ==
  /\ At("setup")
  /\ \/ Throw(TRUE)
     \/ /\ Advance
        /\ UNCHANGED <<vars, script, plan, skew, validation, fixtureUsed, until,
                       tx, signatures, exit, landed, troubled>>

(* fetchStatValidation of one fixture: what the server has for the script's *)
(* sequence number is a snapshot of that fixture.                          *)
Served(fixture) == {sn \in Snapshots : sn.fixture_id = fixture}

(* The first fixture whose proof can be fetched; the second is the backup. *)
FetchProof ==
  /\ At("fetch")
  /\ \/ \E i \in 1 .. 2 : \E sn \in Served(step.from[i]) :
          /\ validation' = {sn}
          /\ fixtureUsed' = {step.from[i]}
          /\ Advance
          /\ UNCHANGED <<vars, script, plan, skew, until, tx, signatures, exit,
                         landed, troubled>>
     \/ Throw(TRUE)

Proof == CHOOSE sn \in validation : TRUE

(* getAccountInfo of the day's daily_scores_roots account.                 *)
RootFound == \E sn \in roots : sn.epoch_day = Proof.epoch_day

CheckRoot ==
  /\ At("root")
  /\ \/ ~RootFound /\ Throw(TRUE)
     \/ /\ RootFound
        /\ Advance
        /\ troubled' = (troubled \/ Proof \notin roots)
        /\ UNCHANGED <<vars, script, plan, skew, validation, fixtureUsed, until,
                       tx, signatures, exit, landed>>

-----------------------------------------------------------------------------
(* The market a script creates: home goals minus away goals of its proof   *)
(* are greater than what they are less one, so that YES wins.              *)
MarketOf(fixture, sn) ==
  [fixture_id |-> fixture, epoch_day |-> sn.epoch_day,
   stat_a_key |-> 1, stat_b_key |-> Some(2), op |-> Some("Subtract"),
   comparison |-> "GreaterThan", threshold |-> sn.stat[1] - sn.stat[2] - 1]

(* What the scripts ask of the program is among what it may be asked.      *)
ASSUME RequestAssumption ==
  /\ {1} \cup Draws \subseteq DepositAmounts /\ 10 \in MintAmounts
  /\ \A sn \in Snapshots : /\ sn.stat[1] \in Int /\ sn.stat[2] \in Int
                           /\ MarketOf(sn.fixture_id, sn) \in Terms
  /\ \A k \in Skews, window \in {LockWindow} \cup {p.lockWindow : p \in Plans} :
       k + window > 0 => k + window \in LockTimes

PrimaryMarket == MarketOf(Primary, Proof)  \* mutant: the backup's proof, not its id
Market == MarketOf(CHOOSE f \in fixtureUsed : TRUE, Proof)

(* What the transaction t does on chain, and whether it can.               *)
Execute(t) ==
  \/ t.ix = "create_test_mint" /\ UNCHANGED vars
  \/ t.ix = "create_ata_and_mint" /\ MintTo(t.by, t.amount)
  \/ t.ix = "create_market" /\ InitMarket(Market, t.lockTs)
  \/ t.ix = "deposit" /\ Deposit(t.by, t.amount, t.side)
  \/ t.ix = "lock_market" /\ LockMarket
  \/ t.ix = "resolve" /\ Resolve(Proof, 1, Some(2))
  \/ t.ix = "claim_payout" /\ ClaimPayout(t.by)

Executable(t) ==
  \/ t.ix = "create_test_mint"
  \/ t.ix = "create_ata_and_mint" /\ MintAdmits(t.amount)
  \/ t.ix = "create_market" /\ InitMarketAdmits(Market, t.lockTs)
  \/ t.ix = "deposit" /\ DepositAdmits(t.by, t.amount, t.side)
  \/ t.ix = "lock_market" /\ LockMarketAdmits
  \/ t.ix = "resolve" /\ ResolveAdmits(Proof, 1, Some(2))
  \/ t.ix = "claim_payout" /\ ClaimPayoutAdmits(t.by)

(* The lock time, counted from what the script's own clock shows when the  *)
(* step begins, age ticks ago: getLatestBlockhash and the preflight come   *)
(* after it.                                                               *)
LockTs == Local - age + step.window

(* The transaction built for a step; m5 draws the amount at random.        *)
Built == {[status |-> "sent", pc |-> pc, ix |-> step.ix, by |-> step.by,
           side |-> step.side, amount |-> n, lockTs |-> LockTs]
          : n \in step.amounts}

(* sendAndConfirm: assertRegisteredPayer, sendRawTransaction with its      *)
(* preflight, confirmTransaction, getTransaction.                          *)
Stage == IF At("tx") THEN Stages[stage] ELSE "none"
NextStage ==
  /\ IF stage < Len(Stages)
     THEN stage' = stage + 1 /\ UNCHANGED <<pc, age, signatures>>
     ELSE Advance /\ signatures' = signatures \cup {i \in {pc} : step.kept}
  /\ UNCHANGED <<vars, script, plan, skew, validation, fixtureUsed, until, exit,
                 landed, troubled>>

AssertPayer ==
  /\ Stage = "payer"
  /\ \/ step.by \in Registered /\ NextStage /\ UNCHANGED tx
     \/ step.by \notin Registered /\ Throw(FALSE)

Send ==
  /\ Stage = "send"
  /\ \E t \in Built :
       \/ Executable(t) /\ tx' = t /\ NextStage
       \/ ~Executable(t) /\ Throw(FALSE)

Confirm ==
  /\ Stage = "confirm"
  /\ \/ tx.status = "landed" /\ NextStage /\ UNCHANGED tx
     \/ tx.status \in {"reverted", "expired"} /\ Throw(FALSE)

GetTransaction ==
  /\ Stage = "getTransaction"
  /\ \/ tx.status = "landed" /\ NextStage /\ tx' = NoTx
     \/ tx.status # "landed" /\ Throw(FALSE)

(* Any call of the node may fail, also when the node has done what it was  *)
(* asked to, and the answer to getTransaction may still be null.           *)
RpcFails == At("tx") /\ Stage # "payer" /\ Throw(TRUE)

-----------------------------------------------------------------------------
(* The waits, and the second look at every recorded signature.             *)
SetTimer ==
  /\ Running /\ step.op \in {"pause", "wait"}
  /\ until = {}
  /\ \E t \in IF step.op = "wait" THEN {lock_ts + step.buffer}
              ELSE {Local + k : k \in step.range} :
       until' = {t}
  /\ UNCHANGED <<vars, script, plan, skew, pc, stage, validation, fixtureUsed, tx,
                 signatures, exit, landed, age, troubled>>

Due == \E t \in until : Local >= t

Wake ==
  /\ Running /\ Due
  /\ until' = {}
  /\ Advance
  /\ UNCHANGED <<vars, script, plan, skew, validation, fixtureUsed, tx, signatures,
                 exit, landed, troubled>>

Recheck ==
  /\ At("recheck")
  /\ \/ Throw(TRUE)
     \/ ~(signatures \subseteq landed) /\ Throw(FALSE)
     \/ /\ signatures \subseteq landed
        /\ exit' = {0}
        /\ UNCHANGED <<vars, script, plan, skew, pc, stage, validation, fixtureUsed,
                       until, tx, signatures, landed, age, troubled>>

ScriptStep == \/ ReadPlan \/ Setup \/ FetchProof \/ CheckRoot
              \/ AssertPayer \/ Send \/ Confirm \/ GetTransaction
              \/ SetTimer \/ Wake \/ Recheck

-----------------------------------------------------------------------------
(* The chain: a transaction under way lands, fails there, or, when the     *)
(* network is slow, is forgotten with its blockhash.                       *)
TxEnds(status) ==
  /\ tx' = [tx EXCEPT !.status = status]
  /\ UNCHANGED <<script, plan, skew, pc, stage, validation, fixtureUsed, until,
                 signatures, exit, age, troubled>>

Land == /\ tx.status = "sent"
        /\ Execute(tx)
        /\ landed' = landed \cup {tx.pc}
        /\ TxEnds("landed")
Revert == /\ tx.status = "sent" /\ ~Executable(tx)
          /\ TxEnds("reverted") /\ UNCHANGED <<vars, landed>>
Expire == /\ tx.status = "sent" /\ age > Latency
          /\ TxEnds("expired") /\ UNCHANGED <<vars, landed>>

(* Everybody else: the oracle, and who locks, resolves or bets on the      *)
(* market before the script does.  (assertRegisteredPayer is reached       *)
(* without an await; what happens after the script has ended is not asked.)*)
Untroubled == UNCHANGED scriptVars
Interfere == /\ troubled' = TRUE
             /\ UNCHANGED <<script, plan, skew, pc, stage, validation, fixtureUsed,
                            until, tx, signatures, exit, landed, age>>

Others ==
  /\ Running /\ Stage # "payer"
  /\ \/ \E f \in fixtureUsed : \E sn \in Served(f) : PublishRoot(sn) /\ Untroubled
     \/ \E n \in DepositAmounts, s \in Side : Deposit(Other, n, s) /\ Untroubled
     \/ ClaimPayout(Other) /\ Untroubled
     \/ LockMarket /\ Interfere
     \/ \E sn \in Snapshots : Resolve(sn, 1, Some(2)) /\ Interfere

CreatesMarket == step.op = "tx" /\ step.ix = "create_market"

(* Time passes while the script waits: for a transaction, at most MaxAge   *)
(* ticks, or for its timer, which fires when it is due.  The chain's clock *)
(* starts when the lock time is chosen: nothing before depends on it.      *)
Pass ==
  /\ \/ At("tx") /\ Stage # "payer" /\ age < MaxAge /\ age' = age + 1
        /\ troubled' = (troubled \/ age' > Latency)
     \/ Running /\ until # {} /\ ~Due /\ UNCHANGED <<age, troubled>>
  /\ IF created \/ CreatesMarket THEN Tick ELSE UNCHANGED vars
  /\ UNCHANGED <<script, plan, skew, pc, stage, validation, fixtureUsed, until, tx,
                 signatures, exit, landed>>

ScriptNext == ScriptStep \/ RpcFails \/ Land \/ Revert \/ Expire \/ Others \/ Pass

ScriptSpec == ScriptInit /\ [][ScriptNext]_allVars

-----------------------------------------------------------------------------
(* Properties.                                                             *)
(* printPlan's projection, doubled to stay in integers: what is left of    *)
(* the lock window after the deposits when each confirms in EST_TX_CONFIRM *)
(* (here Latency) and the pauses are of average length.                    *)
ProjectedWait2(p) ==
  LET phase2 == 2 * p.nDeposits * Latency + (p.nDeposits - 1) * (p.sleepMin + p.sleepMax)
  IN  IF 2 * p.lockWindow > phase2 THEN 2 * p.lockWindow - phase2 ELSE 0

(* A plan whose projection leaves room for create_market, which the window *)
(* also has to hold, for pauses above the average, and for a slow clock.   *)
RoomyPlan(p) ==
  ProjectedWait2(p) >= 2 * Latency + (p.nDeposits - 1) * (p.sleepMax - p.sleepMin)
                         + 2 * LockBuffer

(* The buffer is for clocks that differ by no more than it.                *)
InStep == -LockBuffer <= skew /\ skew <= LockBuffer

(* A script fails only when something around it went wrong: no order of    *)
(* its own steps, no lock time it chose and no signer makes an instruction *)
(* of it revert, as long as the lock window fits the plan and its clock is *)
(* within the buffer of the chain's.                                       *)
FailuresHaveCauses ==
  exit = {1} => \/ troubled
                \/ ~InStep
                \/ script = "m5" /\ ~RoomyPlan(plan)

(* PASS says what its reader takes it to say: every transaction of the     *)
(* script has landed, the one whose signature is not recorded included,    *)
(* the market is resolved YES, and wallet 1 has its stake back, exactly    *)
(* that when nobody else has bet (devnet-verify's header, 38-41).          *)
PassMeansSettled ==
  exit = {0} /\ step.op = "recheck" =>
    /\ \A i \in DOMAIN program : program[i].op = "tx" => i \in landed
    /\ resolved /\ outcome = Yes
    /\ claimed[Wallet1] /\ received[Wallet1] >= amount[Wallet1]
    /\ Backers(Yes) \cup Backers(No) = {Wallet1} => received[Wallet1] = amount[Wallet1]
=============================================================================
