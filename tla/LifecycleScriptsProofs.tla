----------------------- MODULE LifecycleScriptsProofs -----------------------
(***************************************************************************)
(* The three life-cycle scripts drive the program only as its              *)
(* specification allows, fail only for a reason outside them, and say PASS *)
(* only of a market that has paid, for any cadence plan, draws, clocks,    *)
(* statistics and funds, and whoever else uses the market.                 *)
(***************************************************************************)
EXTENDS LifecycleScripts, PariMarketProofs

-----------------------------------------------------------------------------
(* The layout of a main(): every script is laid out around the step that   *)
(* fetches the proof and the steps of its bets.                            *)

First == CASE script = "m3" -> 2 [] script = "m5" -> 3 [] script = "devnet" -> 4
Bets == CASE script = "m3" -> 2 [] script = "devnet" -> 1
          [] script = "m5" -> IF PlanAccepted(plan) THEN 2 * plan.nDeposits - 1 ELSE 0
Opening == First + 2         \* create_market
Waiting == First + 3 + Bets  \* the wait for the lock time
Ending == Waiting + 4        \* the second look at the signatures

Creator == IF script = "devnet" THEN Wallet1 ELSE Deployer
Window == IF script = "m5" THEN plan.lockWindow ELSE LockWindow
BetAt(j) ==
  CASE script = "m3" -> IF j = 1 THEN Bet(Wallet1, Yes, {1})
                        ELSE Unrecorded(Bet(Wallet2, No, {1}))
    [] script = "m5" -> IF j % 2 = 0 THEN Pause(plan.sleepMin, plan.sleepMax)
                        ELSE IF ((j + 1) \div 2) % 2 = 1 THEN Bet(Wallet1, Yes, Draws)
                        ELSE Bet(Wallet2, No, Draws)
    [] script = "devnet" -> Bet(Wallet1, Yes, {1})

(* A plan that is refused is never carried out.                            *)
PlanRead == /\ script \in {"m3", "m5", "devnet"}
            /\ script = "m5" => plan \in Plans /\ (PlanAccepted(plan) \/ pc = 1)

(* What is done at which step.                                             *)
Places(k, st) ==
  \/ /\ k \in 1 .. First - 1 /\ st.op \in {"plan", "setup"}
     /\ st.op = "plan" => script = "m5" /\ k = 1
  \/ script = "devnet" /\ k = 2 /\ st = Unrecorded(Tx("create_test_mint", Wallet1))
  \/ script = "devnet" /\ k = 3 /\ st = Unrecorded(Fund(Wallet1, 10))
  \/ k = First /\ st = Fetch(Primary, Backup)
  \/ k = First + 1 /\ st = Step("root")
  \/ k = Opening /\ st = Create(Creator, Window)
  \/ \E j \in 1 .. Bets : k = Opening + j /\ st = BetAt(j)
  \/ k = Waiting /\ st = WaitForLock(LockBuffer)
  \/ k = Waiting + 1 /\ st = Tx("lock_market", Creator)
  \/ k = Waiting + 2 /\ st = Tx("resolve", Creator)
  \/ k = Waiting + 3 /\ st = Tx("claim_payout", Wallet1)
  \/ k = Ending /\ st = Step("recheck")

LEMMA M3Layout ==
  /\ DOMAIN M3Script = 1 .. 11
  /\ M3Script[1] = Step("setup")
  /\ M3Script[2] = Fetch(Primary, Backup) /\ M3Script[3] = Step("root")
  /\ M3Script[4] = Create(Deployer, LockWindow)
  /\ M3Script[5] = Bet(Wallet1, Yes, {1})
  /\ M3Script[6] = Unrecorded(Bet(Wallet2, No, {1}))
  /\ M3Script[7] = WaitForLock(LockBuffer)
  /\ M3Script[8] = Tx("lock_market", Deployer)
  /\ M3Script[9] = Tx("resolve", Deployer)
  /\ M3Script[10] = Tx("claim_payout", Wallet1)
  /\ M3Script[11] = Step("recheck")
  BY DEF M3Script, M3Setup, M3Fixture, M3Create, M3Deposits, M3Lock, M3Resolve,
    M3Claim, M3Recheck

LEMMA DevnetLayout ==
  /\ DOMAIN DevnetScript = 1 .. 12
  /\ DevnetScript[1] = Step("setup")
  /\ DevnetScript[2] = Unrecorded(Tx("create_test_mint", Wallet1))
  /\ DevnetScript[3] = Unrecorded(Fund(Wallet1, 10))
  /\ DevnetScript[4] = Fetch(Primary, Backup) /\ DevnetScript[5] = Step("root")
  /\ DevnetScript[6] = Create(Wallet1, LockWindow)
  /\ DevnetScript[7] = Bet(Wallet1, Yes, {1})
  /\ DevnetScript[8] = WaitForLock(LockBuffer)
  /\ DevnetScript[9] = Tx("lock_market", Wallet1)
  /\ DevnetScript[10] = Tx("resolve", Wallet1)
  /\ DevnetScript[11] = Tx("claim_payout", Wallet1)
  /\ DevnetScript[12] = Step("recheck")
  BY DEF DevnetScript, DevnetSetup, DevnetMint, DevnetFixture, DevnetCreate,
    DevnetDeposit, DevnetLock, DevnetResolve, DevnetClaim, DevnetRecheck

(* s is a sequence of n items.                                             *)
Row(s, n) == \E S : s \in Seq(S) /\ Len(s) = n

Then(s, t) == s \o t

LEMMA RowThen ==
  ASSUME NEW s, NEW t, NEW n \in Nat, NEW k \in Nat, Row(s, n), Row(t, k)
  PROVE  /\ Row(Then(s, t), n + k)
         /\ \A i \in 1 .. n : Then(s, t)[i] = s[i]
         /\ \A i \in 1 .. k : Then(s, t)[n + i] = t[i]
<1>1. PICK A, B : s \in Seq(A) /\ Len(s) = n /\ t \in Seq(B) /\ Len(t) = k
  BY DEF Row
<1>2. s \in Seq(A \cup B) /\ t \in Seq(A \cup B)
  BY <1>1
<1>3. s \o t \in Seq(A \cup B) /\ Len(s \o t) = n + k
  BY <1>1, <1>2
<1> QED
  BY <1>1, <1>2, <1>3 DEF Row, Then

LEMMA RowOf ==
  ASSUME NEW n \in Nat, NEW S, NEW f, f = [i \in 1 .. n |-> f[i]], \A i \in 1 .. n : f[i] \in S
  PROVE  f \in Seq(S) /\ Len(f) = n
<1>1. f \in [1 .. n -> S]
  OBVIOUS
<1>2. f \in Seq(S)
  BY <1>1
<1>3. Len(f) = n
  BY <1>1, <1>2
<1> QED
  BY <1>2, <1>3

LEMMA RowDomain ==
  ASSUME NEW s, NEW n, Row(s, n)
  PROVE  DOMAIN s = 1 .. n
  BY DEF Row

LEMMA M5Layout ==
  ASSUME NEW p, NEW bets \in Nat, 1 .. 2 * p.nDeposits - 1 = 1 .. bets
  PROVE  LET m == M5Script(p)
         IN  /\ DOMAIN m = 1 .. bets + 10
             /\ m[1] = Step("plan") /\ m[2] = Step("setup")
             /\ m[3] = Fetch(Primary, Backup) /\ m[4] = Step("root")
             /\ m[5] = Create(Deployer, p.lockWindow)
             /\ \A j \in 1 .. bets : m[5 + j] = M5Deposits(p)[j]
             /\ m[bets + 6] = WaitForLock(LockBuffer)
             /\ m[bets + 7] = Tx("lock_market", Deployer)
             /\ m[bets + 8] = Tx("resolve", Deployer)
             /\ m[bets + 9] = Tx("claim_payout", Wallet1)
             /\ m[bets + 10] = Step("recheck")
<1> DEFINE head == M5Setup \o M5Fixture \o M5Create(p)
           bet == M5Deposits(p)
           part1 == Then(head, bet)
           part2 == Then(part1, M5Lock)
           part3 == Then(part2, M5Resolve)
           part4 == Then(part3, M5Claim)
           whole == Then(part4, M5Recheck)
<1>1. Row(bet, bets)
  <2>1. bet = [k \in 1 .. bets |-> IF k % 2 = 0 THEN Pause(p.sleepMin, p.sleepMax)
                 ELSE IF ((k + 1) \div 2) % 2 = 1 THEN Bet(Wallet1, Yes, Draws)
                 ELSE Bet(Wallet2, No, Draws)]
    BY DEF M5Deposits, M5Alternating
  <2> DEFINE S == {bet[k] : k \in 1 .. bets}
  <2>2. bet = [k \in 1 .. bets |-> bet[k]] /\ \A k \in 1 .. bets : bet[k] \in S
    BY <2>1
  <2> HIDE DEF bet, S
  <2>3. bet \in Seq(S) /\ Len(bet) = bets
    BY <2>2, RowOf
  <2> QED
    BY <2>3 DEF Row
<1>2. /\ Row(head, 5)
      /\ head[1] = Step("plan") /\ head[2] = Step("setup") /\ head[3] = Fetch(Primary, Backup)
      /\ head[4] = Step("root") /\ head[5] = Create(Deployer, p.lockWindow)
  <2>1. /\ Len(head) = 5 /\ head \in Seq({Step("plan"), Step("setup"), Fetch(Primary, Backup), Step("root"), Create(Deployer, p.lockWindow)})
        /\ head[1] = Step("plan") /\ head[2] = Step("setup") /\ head[3] = Fetch(Primary, Backup)
        /\ head[4] = Step("root") /\ head[5] = Create(Deployer, p.lockWindow)
    BY DEF M5Setup, M5Fixture, M5Create
  <2> QED
    BY <2>1 DEF Row
<1>3. \A x : Row(<<x>>, 1) /\ <<x>>[1] = x
  <2> TAKE x
  <2>1. <<x>> \in Seq({x}) /\ Len(<<x>>) = 1
    OBVIOUS
  <2> QED
    BY <2>1 DEF Row
<1>4. \A x, y : Row(<<x, y>>, 2) /\ <<x, y>>[1] = x /\ <<x, y>>[2] = y
  <2> TAKE x, y
  <2>1. <<x, y>> \in Seq({x, y}) /\ Len(<<x, y>>) = 2
    OBVIOUS
  <2> QED
    BY <2>1 DEF Row
<1>5. M5Script(p) = whole
  BY DEF M5Script, Then
<1> HIDE DEF head, bet
<1>6. /\ Row(part1, bets + 5)
      /\ \A i \in 1 .. 5 : part1[i] = head[i]
      /\ \A j \in 1 .. bets : part1[5 + j] = bet[j]
  <2>1. Row(part1, 5 + bets) /\ (\A i \in 1 .. 5 : part1[i] = head[i])
         /\ \A j \in 1 .. bets : part1[5 + j] = bet[j]
    BY <1>1, <1>2, RowThen
  <2>2. 5 + bets = bets + 5
    OBVIOUS
  <2> QED BY <2>1, <2>2
<1> HIDE DEF part1
<1>7. /\ Row(part2, (bets + 5) + 2)
      /\ \A i \in 1 .. bets + 5 : part2[i] = part1[i]
      /\ \A i \in 1 .. 2 : part2[(bets + 5) + i] = M5Lock[i]
  <2>1. Row(M5Lock, 2) /\ bets + 5 \in Nat
    BY <1>4 DEF M5Lock
  <2> QED
    BY <2>1, <1>6, RowThen
<1> HIDE DEF part2
<1>8. /\ Row(part3, ((bets + 5) + 2) + 1)
      /\ \A i \in 1 .. (bets + 5) + 2 : part3[i] = part2[i]
      /\ \A i \in 1 .. 1 : part3[(bets + 5) + 2 + i] = M5Resolve[i]
  <2>1. Row(M5Resolve, 1) /\ (bets + 5) + 2 \in Nat
    BY <1>3 DEF M5Resolve
  <2> QED
    BY <2>1, <1>7, RowThen
<1> HIDE DEF part3
<1>9. /\ Row(part4, (((bets + 5) + 2) + 1) + 1)
      /\ \A i \in 1 .. ((bets + 5) + 2) + 1 : part4[i] = part3[i]
      /\ \A i \in 1 .. 1 : part4[((bets + 5) + 2) + 1 + i] = M5Claim[i]
  <2>1. Row(M5Claim, 1) /\ ((bets + 5) + 2) + 1 \in Nat
    BY <1>3 DEF M5Claim
  <2> QED
    BY <2>1, <1>8, RowThen
<1> HIDE DEF part4
<1>10. /\ Row(whole, ((((bets + 5) + 2) + 1) + 1) + 1)
       /\ \A i \in 1 .. (((bets + 5) + 2) + 1) + 1 : whole[i] = part4[i]
       /\ \A i \in 1 .. 1 : whole[(((bets + 5) + 2) + 1) + 1 + i] = M5Recheck[i]
  <2>1. Row(M5Recheck, 1) /\ (((bets + 5) + 2) + 1) + 1 \in Nat
    BY <1>3 DEF M5Recheck
  <2> QED
    BY <2>1, <1>9, RowThen
<1> HIDE DEF whole
<1>11. \A i \in 1 .. bets + 5 : whole[i] = part1[i]
  BY <1>7, <1>8, <1>9, <1>10
<1>12. /\ whole[bets + 6] = M5Lock[1] /\ whole[bets + 7] = M5Lock[2]
       /\ whole[bets + 8] = M5Resolve[1] /\ whole[bets + 9] = M5Claim[1]
       /\ whole[bets + 10] = M5Recheck[1]
  BY <1>7, <1>8, <1>9, <1>10
<1>13. \A j \in 1 .. bets : whole[5 + j] = bet[j]
  BY <1>6, <1>11
<1>14. DOMAIN whole = 1 .. bets + 10
  <2>1. ((((bets + 5) + 2) + 1) + 1) + 1 = bets + 10
    OBVIOUS
  <2> QED
    BY <2>1, <1>10, RowDomain
<1>15. \A i \in 1 .. 5 : whole[i] = head[i]
  BY <1>6, <1>11
<1>16. /\ M5Lock[1] = WaitForLock(LockBuffer) /\ M5Lock[2] = Tx("lock_market", Deployer)
      /\ M5Resolve[1] = Tx("resolve", Deployer) /\ M5Claim[1] = Tx("claim_payout", Wallet1)
      /\ M5Recheck[1] = Step("recheck")
  BY DEF M5Lock, M5Resolve, M5Claim, M5Recheck
<1> QED
 BY <1>2, <1>5, <1>12, <1>13, <1>14, <1>15, <1>16 DEF bet

LEMMA LaidOut ==
  ASSUME NEW k \in 1 .. Ending, script \in {"m3", "m5", "devnet"},
         script = "m5" => plan \in Plans /\ (PlanAccepted(plan) \/ k = 1)
  PROVE  /\ Places(k, program[k])
         /\ k = 1 => program[k].op = (IF script = "m5" THEN "plan" ELSE "setup")
         /\ script # "m5" \/ PlanAccepted(plan) => DOMAIN program = 1 .. Ending
<1> USE DEF First, Opening, Waiting, Ending, Places, program, Program
<1>1. CASE script = "m3"
  <2>1. /\ program = M3Script /\ First = 2 /\ Bets = 2 /\ Creator = Deployer /\ Window = LockWindow
        /\ BetAt(1) = Bet(Wallet1, Yes, {1}) /\ BetAt(2) = Unrecorded(Bet(Wallet2, No, {1}))
    BY <1>1 DEF Bets, BetAt, Creator, Window
  <2>2. k \in 1 .. 11
    BY <2>1
  <2> QED
    BY <1>1, <2>1, <2>2, M3Layout DEF Step
<1>2. CASE script = "devnet"
  <2>1. /\ program = DevnetScript /\ First = 4 /\ Bets = 1 /\ Creator = Wallet1 /\ Window = LockWindow
        /\ BetAt(1) = Bet(Wallet1, Yes, {1})
    BY <1>2 DEF Bets, BetAt, Creator, Window
  <2>2. k \in 1 .. 12
    BY <2>1
  <2> QED
    BY <1>2, <2>1, <2>2, DevnetLayout DEF Step
<1>3. CASE script = "m5" /\ PlanAccepted(plan)
  <2>1. /\ program = M5Script(plan) /\ First = 3 /\ Bets = 2 * plan.nDeposits - 1
        /\ Creator = Deployer /\ Window = plan.lockWindow
    BY <1>3 DEF Bets, Creator, Window
  <2>2. Bets \in Nat
    BY <1>3, <2>1, ScriptAssumption DEF PlanAccepted
  <2>3. \A j \in 1 .. Bets : M5Deposits(plan)[j] = BetAt(j)
    BY <1>3, <2>1 DEF M5Deposits, M5Alternating, BetAt
  <2> HIDE DEF Bets, BetAt
  <2>4. k \in 1 .. Bets + 10
    BY <2>1, <2>2
  <2>l. LET m == M5Script(plan)
        IN  /\ DOMAIN m = 1 .. Bets + 10
            /\ m[1] = Step("plan") /\ m[2] = Step("setup")
            /\ m[3] = Fetch(Primary, Backup) /\ m[4] = Step("root")
            /\ m[5] = Create(Deployer, plan.lockWindow)
            /\ \A j \in 1 .. Bets : m[5 + j] = M5Deposits(plan)[j]
            /\ m[Bets + 6] = WaitForLock(LockBuffer)
            /\ m[Bets + 7] = Tx("lock_market", Deployer)
            /\ m[Bets + 8] = Tx("resolve", Deployer)
            /\ m[Bets + 9] = Tx("claim_payout", Wallet1)
            /\ m[Bets + 10] = Step("recheck")
    <3>1. 1 .. 2 * plan.nDeposits - 1 = 1 .. Bets
      BY <2>1
    <3> QED
      BY <2>2, <3>1, M5Layout, Zenon
  <2>5. \A j \in 1 .. Bets : program[5 + j] = BetAt(j)
    BY <2>1, <2>3, <2>l
  <2>6. k \in 1 .. 5 \/ (\E j \in 1 .. Bets : k = 5 + j) \/ k \in Bets + 6 .. Bets + 10
    <3>1. k \in 6 .. Bets + 5 => k - 5 \in 1 .. Bets /\ k = 5 + (k - 5)
      BY <2>2
    <3> QED
      BY <2>2, <2>4, <3>1
  <2>7. DOMAIN program = 1 .. Ending
    BY <2>1, <2>2, <2>l
  <2>8. Places(k, program[k]) /\ (k = 1 => program[k].op = "plan")
    <3>1. CASE k \in 1 .. 5
      BY <1>3, <2>1, <2>l, <3>1 DEF Step
    <3>2. CASE \E j \in 1 .. Bets : k = 5 + j
      BY <2>1, <2>2, <2>5, <3>2
    <3>3. CASE k \in Bets + 6 .. Bets + 10
      <4>1. \/ k = Waiting /\ program[k] = WaitForLock(LockBuffer)
            \/ k = Waiting + 1 /\ program[k] = Tx("lock_market", Creator)
            \/ k = Waiting + 2 /\ program[k] = Tx("resolve", Creator)
            \/ k = Waiting + 3 /\ program[k] = Tx("claim_payout", Wallet1)
            \/ k = Ending /\ program[k] = Step("recheck")
        <5>1. \/ k = Bets + 6 \/ k = Bets + 7 \/ k = Bets + 8 \/ k = Bets + 9
              \/ k = Bets + 10
          BY <2>2, <3>3
        <5>2. Waiting = Bets + 6 /\ Ending = Bets + 10
          BY <2>1, <2>2
        <5>3. /\ Waiting + 1 = Bets + 7 /\ Waiting + 2 = Bets + 8
              /\ Waiting + 3 = Bets + 9
          BY <2>2, <5>2
        <5> HIDE DEF Waiting, Ending
        <5> QED
          BY <2>1, <2>l, <5>1, <5>2, <5>3
      <4>2. k # 1
        BY <2>2, <3>3
      <4> QED
        BY <4>1, <4>2
    <3> QED
      BY <2>6, <3>1, <3>2, <3>3
  <2> QED
    BY <1>3, <2>7, <2>8
<1>4. CASE script = "m5" /\ ~PlanAccepted(plan)
  <2>1. \E bets \in Nat : 1 .. 2 * plan.nDeposits - 1 = 1 .. bets
    BY <1>4, ScriptAssumption
  <2>2. program[1] = Step("plan")
    BY <1>4, <2>1, M5Layout
  <2> QED
    BY <1>4, <2>2 DEF Step
<1> QED
  BY <1>1, <1>2, <1>3, <1>4

LEMMA Placed ==
  ASSUME PlanRead, pc \in 1 .. Ending
  PROVE  /\ Places(pc, step)
         /\ pc = 1 => step.op = (IF script = "m5" THEN "plan" ELSE "setup")
  BY LaidOut DEF PlanRead, step

LEMMA Numbers ==
  ASSUME PlanRead
  PROVE  /\ First \in 2 .. 4 /\ Bets \in Nat /\ (pc # 1 => Bets >= 1)
         /\ Opening = First + 2 /\ Waiting = First + 3 + Bets /\ Ending = Waiting + 4
         /\ First \in Int /\ Opening \in Int /\ Waiting \in Int /\ Ending \in Int
<1>1. First \in 2 .. 4
  BY DEF PlanRead, First
<1>2. Bets \in Nat /\ (pc # 1 => Bets >= 1)
  BY ScriptAssumption DEF PlanRead, Bets, PlanAccepted
<1> QED
  BY <1>1, <1>2 DEF Opening, Waiting, Ending

-----------------------------------------------------------------------------
(* The script by itself.                                                   *)

(* What a step sends.                                                      *)
LEMMA Fields ==
  /\ \A op : Step(op).op = op
  /\ Fetch(Primary, Backup).op = "fetch" /\ Fetch(Primary, Backup).from = <<Primary, Backup>>
  /\ \A lo, hi : Pause(lo, hi).op = "pause" /\ Pause(lo, hi).range = lo .. hi
  /\ \A n : WaitForLock(n).op = "wait" /\ WaitForLock(n).buffer = n
  /\ \A ix, by : LET t == Tx(ix, by)
                 IN  t.op = "tx" /\ t.ix = ix /\ t.by = by /\ t.amounts = {0} /\ t.kept
                     /\ t.window = 0 /\ t.side = No
  /\ \A by, w : LET t == Create(by, w)
                IN  t.op = "tx" /\ t.ix = "create_market" /\ t.by = by /\ t.window = w
                    /\ t.amounts = {0} /\ t.side = No
  /\ \A by, s, n : LET t == Bet(by, s, n)
                   IN  t.op = "tx" /\ t.ix = "deposit" /\ t.by = by /\ t.side = s
                       /\ t.amounts = n /\ t.window = 0
  /\ \A by, s, n : LET t == Unrecorded(Bet(by, s, n))
                   IN  t.op = "tx" /\ t.ix = "deposit" /\ t.by = by /\ t.side = s
                       /\ t.amounts = n /\ t.window = 0
  /\ \A by, n : LET t == Unrecorded(Fund(by, n))
                IN  t.op = "tx" /\ t.ix = "create_ata_and_mint" /\ t.by = by
                    /\ t.amounts = {n} /\ t.window = 0
  /\ \A ix, by : LET t == Unrecorded(Tx(ix, by))
                 IN  t.op = "tx" /\ t.ix = ix /\ t.by = by /\ t.amounts = {0}
                     /\ t.window = 0
  BY DEF Step, Fetch, Pause, WaitForLock, Tx, Create, Bet, Unrecorded, Fund

(* The bets of the scripts: wallet 1 on YES, wallet 2 on NO.               *)
LEMMA BetFields ==
  ASSUME PlanRead, NEW j \in 1 .. Bets
  PROVE  \/ /\ script = "m5" /\ j % 2 = 0 /\ BetAt(j).op = "pause"
            /\ BetAt(j).range = plan.sleepMin .. plan.sleepMax
         \/ /\ script = "m5" => j % 2 = 1
            /\ BetAt(j).op = "tx" /\ BetAt(j).ix = "deposit" /\ BetAt(j).window = 0
            /\ BetAt(j).amounts = IF script = "m5" THEN Draws ELSE {1}
            /\ \/ BetAt(j).by = Wallet1 /\ BetAt(j).side = Yes
               \/ BetAt(j).by = Wallet2 /\ BetAt(j).side = No /\ j # 1 /\ script # "devnet"
            /\ script = "m3" => BetAt(j).by = (IF j = 1 THEN Wallet1 ELSE Wallet2)
<1>1. CASE script = "m3"
  BY <1>1, Fields DEF BetAt
<1>2. CASE script = "devnet"
  BY <1>2, Fields DEF BetAt
<1>3. CASE script = "m5"
  <2>1. j % 2 \in {0, 1} /\ (j = 1 => ((j + 1) \div 2) % 2 = 1)
    BY <1>3, ScriptAssumption DEF Bets
  <2> QED
    BY <1>3, <2>1, Fields DEF BetAt
<1> QED
  BY <1>1, <1>2, <1>3 DEF PlanRead

(* What is done where.                                                     *)
LEMMA Kinds ==
  ASSUME PlanRead, pc \in 1 .. Ending
  PROVE  /\ step.op \in {"plan", "setup", "fetch", "root", "tx", "pause", "wait", "recheck"}
         /\ step.op = "plan" <=> script = "m5" /\ pc = 1
         /\ step.op \in {"plan", "setup"} => pc < First
         /\ step.op = "fetch" <=> pc = First
         /\ step.op = "fetch" => step.from = <<Primary, Backup>>
         /\ step.op = "root" <=> pc = First + 1
         /\ step.op = "wait" <=> pc = Waiting
         /\ step.op = "wait" => step.buffer = LockBuffer
         /\ step.op = "recheck" <=> pc = Ending
         /\ step.op = "pause" =>
              \E j \in 1 .. Bets : pc = Opening + j /\ step = BetAt(j)
         /\ pc \in Opening + 1 .. Waiting - 1 =>
              pc - Opening \in 1 .. Bets /\ step = BetAt(pc - Opening)
<1>n. /\ First \in 2 .. 4 /\ Bets \in Nat /\ (pc # 1 => Bets >= 1)
      /\ Opening = First + 2 /\ Waiting = First + 3 + Bets /\ Ending = Waiting + 4
  BY Numbers
<1>p. Places(pc, step)
  BY Placed
<1>b. \A j \in 1 .. Bets : BetAt(j).op \in {"pause", "tx"}
  BY BetFields
<1>1. CASE pc \in 1 .. First - 1 /\ step.op \in {"plan", "setup"}
            /\ (step.op = "plan" => script = "m5" /\ pc = 1)
  <2>1. script = "m5" /\ pc = 1 => step.op = "plan"
    BY Placed
  <2> QED
    BY <1>n, <1>1, <2>1
<1>2. CASE pc \in 1 .. First - 1 /\ step.op = "tx" /\ script = "devnet"
  BY <1>n, <1>2
<1>3. CASE pc = First /\ step = Fetch(Primary, Backup)
  <2>1. step.op = "fetch" /\ step.from = <<Primary, Backup>>
    BY <1>3, Fields
  <2> QED
    BY <1>n, <1>3, <2>1
<1>4. CASE pc = First + 1 /\ step = Step("root")
  <2>1. step.op = "root"
    BY <1>4, Fields
  <2> QED
    BY <1>n, <1>4, <2>1
<1>5. CASE pc \in {Opening, Waiting + 1, Waiting + 2, Waiting + 3} /\ step.op = "tx"
  BY <1>n, <1>5
<1>6. CASE \E j \in 1 .. Bets : pc = Opening + j /\ step = BetAt(j)
  <2>1. PICK j \in 1 .. Bets : pc = Opening + j /\ step = BetAt(j)
    BY <1>6
  <2>2. step.op \in {"pause", "tx"}
    BY <1>b, <2>1
  <2>3. pc - Opening = j
    BY <1>n, <2>1
  <2> QED
    BY <1>n, <2>1, <2>2, <2>3
<1>7. CASE pc = Waiting /\ step = WaitForLock(LockBuffer)
  <2>1. step.op = "wait" /\ step.buffer = LockBuffer
    BY <1>7, Fields
  <2> QED
    BY <1>n, <1>7, <2>1
<1>8. CASE pc = Ending /\ step = Step("recheck")
  <2>1. step.op = "recheck"
    BY <1>8, Fields
  <2> QED
    BY <1>n, <1>8, <2>1
<1>9. /\ script = "devnet" /\ pc \in {2, 3} /\ step \in {Unrecorded(Tx("create_test_mint", Wallet1)), Unrecorded(Fund(Wallet1, 10))}
         => pc \in 1 .. First - 1 /\ step.op = "tx"
      /\ step \in {Create(Creator, Window), Tx("lock_market", Creator), Tx("resolve", Creator),
                   Tx("claim_payout", Wallet1)} => step.op = "tx"
  BY Fields DEF First
<1> QED
  BY <1>p, <1>1, <1>2, <1>3, <1>4, <1>5, <1>6, <1>7, <1>8, <1>9 DEF Places

(* Which instruction is sent where.                                        *)
LEMMA TxKinds ==
  ASSUME PlanRead, pc \in 1 .. Ending, step.op = "tx"
  PROVE  \/ /\ step.ix = "create_test_mint" /\ script = "devnet" /\ pc = 2 /\ pc < First
            /\ step.by = Wallet1 /\ step.amounts = {0} /\ step.window = 0
         \/ /\ step.ix = "create_ata_and_mint" /\ script = "devnet" /\ pc = 3 /\ pc < First
            /\ step.by = Wallet1 /\ step.amounts = {10} /\ step.window = 0
         \/ /\ step.ix = "create_market" /\ pc = Opening /\ step.by = Creator
            /\ step.amounts = {0} /\ step.window = Window
         \/ /\ step.ix = "deposit" /\ pc \in Opening + 1 .. Waiting - 1
            /\ step = BetAt(pc - Opening) /\ pc - Opening \in 1 .. Bets /\ step.window = 0
         \/ /\ step.ix = "lock_market" /\ pc = Waiting + 1 /\ step.by = Creator
            /\ step.amounts = {0} /\ step.window = 0
         \/ /\ step.ix = "resolve" /\ pc = Waiting + 2 /\ step.by = Creator
            /\ step.amounts = {0} /\ step.window = 0
         \/ /\ step.ix = "claim_payout" /\ pc = Waiting + 3 /\ step.by = Wallet1
            /\ step.amounts = {0} /\ step.window = 0
<1>n. /\ First \in 2 .. 4 /\ Bets \in Nat /\ (pc # 1 => Bets >= 1)
      /\ Opening = First + 2 /\ Waiting = First + 3 + Bets /\ Ending = Waiting + 4
  BY Numbers
<1>p. Places(pc, step)
  BY Placed
<1>1. CASE step.op \in {"plan", "setup"}
  BY <1>1
<1>2. CASE script = "devnet" /\ pc = 2 /\ step = Unrecorded(Tx("create_test_mint", Wallet1))
  BY <1>2, Fields DEF First
<1>3. CASE script = "devnet" /\ pc = 3 /\ step = Unrecorded(Fund(Wallet1, 10))
  BY <1>3, Fields DEF First
<1>4. CASE step \in {Fetch(Primary, Backup), Step("root"), WaitForLock(LockBuffer), Step("recheck")}
  <2>1. step.op \in {"fetch", "root", "wait", "recheck"}
    BY <1>4, Fields
  <2> QED
    BY <2>1
<1>5. CASE pc = Opening /\ step = Create(Creator, Window)
  BY <1>5, Fields
<1>6. CASE \E j \in 1 .. Bets : pc = Opening + j /\ step = BetAt(j)
  <2>1. PICK j \in 1 .. Bets : pc = Opening + j /\ step = BetAt(j)
    BY <1>6
  <2>2. step.ix = "deposit" /\ step.window = 0
    BY <2>1, BetFields
  <2>3. pc - Opening = j /\ pc \in Opening + 1 .. Waiting - 1
    BY <1>n, <2>1
  <2> QED
    BY <1>n, <2>1, <2>2, <2>3
<1>7. CASE pc = Waiting + 1 /\ step = Tx("lock_market", Creator)
  BY <1>7, Fields
<1>8. CASE pc = Waiting + 2 /\ step = Tx("resolve", Creator)
  BY <1>8, Fields
<1>9. CASE pc = Waiting + 3 /\ step = Tx("claim_payout", Wallet1)
  BY <1>9, Fields
<1> QED
  BY <1>p, <1>1, <1>2, <1>3, <1>4, <1>5, <1>6, <1>7, <1>8, <1>9 DEF Places

(* Transactions a script has behind it when it has come to its end.        *)
LEMMA TxPlaces ==
  ASSUME PlanRead, pc # 1
  PROVE  /\ program[Opening].op = "tx" /\ program[Opening + 1].op = "tx"
         /\ program[Waiting + 1].op = "tx" /\ program[Waiting + 2].op = "tx"
         /\ program[Waiting + 3].op = "tx" /\ program[Ending].op = "recheck"
         /\ DOMAIN program = 1 .. Ending
<1>n. First \in 2 .. 4 /\ Bets \in Nat /\ Bets >= 1
      /\ Opening = First + 2 /\ Waiting = First + 3 + Bets /\ Ending = Waiting + 4
  BY Numbers
<1>p. \A k \in 1 .. Ending : Places(k, program[k])
  BY LaidOut DEF PlanRead
<1>d. DOMAIN program = 1 .. Ending
  BY <1>n, LaidOut DEF PlanRead
<1>q. ASSUME NEW k, Places(k, program[k])
      PROVE  /\ k = Opening => program[k] = Create(Creator, Window)
             /\ k = Opening + 1 => program[k] = BetAt(1)
             /\ k = Waiting + 1 => program[k] = Tx("lock_market", Creator)
             /\ k = Waiting + 2 => program[k] = Tx("resolve", Creator)
             /\ k = Waiting + 3 => program[k] = Tx("claim_payout", Wallet1)
             /\ k = Ending => program[k] = Step("recheck")
  <2>1. script = "devnet" => First = 4
    BY DEF First
  <2> QED
    BY <1>n, <1>q, <2>1 DEF Places
<1>r. /\ Opening \in 1 .. Ending /\ Opening + 1 \in 1 .. Ending /\ Waiting + 1 \in 1 .. Ending
      /\ Waiting + 2 \in 1 .. Ending /\ Waiting + 3 \in 1 .. Ending /\ Ending \in 1 .. Ending
  BY <1>n
<1>b. BetAt(1).op = "tx"
  BY <1>n, BetFields
<1>s. /\ program[Opening] = Create(Creator, Window) /\ program[Opening + 1] = BetAt(1)
      /\ program[Waiting + 1] = Tx("lock_market", Creator)
      /\ program[Waiting + 2] = Tx("resolve", Creator)
      /\ program[Waiting + 3] = Tx("claim_payout", Wallet1)
      /\ program[Ending] = Step("recheck")
  <2>1. \A k \in 1 .. Ending :
          /\ k = Opening => program[k] = Create(Creator, Window)
          /\ k = Opening + 1 => program[k] = BetAt(1)
          /\ k = Waiting + 1 => program[k] = Tx("lock_market", Creator)
          /\ k = Waiting + 2 => program[k] = Tx("resolve", Creator)
          /\ k = Waiting + 3 => program[k] = Tx("claim_payout", Wallet1)
          /\ k = Ending => program[k] = Step("recheck")
    BY <1>p, <1>q
  <2> QED
    BY <1>r, <2>1
<1>t. /\ Create(Creator, Window).op = "tx" /\ Tx("lock_market", Creator).op = "tx"
      /\ Tx("resolve", Creator).op = "tx" /\ Tx("claim_payout", Wallet1).op = "tx"
      /\ Step("recheck").op = "recheck"
  BY Fields
<1> QED
  BY <1>d, <1>b, <1>s, <1>t

(* The stages of sendAndConfirm.                                           *)
LEMMA StageOrder ==
  ASSUME script \in {"m3", "m5", "devnet"}
  PROVE  /\ Len(Stages) \in {3, 4} /\ DOMAIN Stages = 1 .. Len(Stages)
         /\ Stages[1] = IF script = "devnet" THEN "send" ELSE "payer"
         /\ \A k \in 1 .. Len(Stages) :
              /\ Stages[k] \in {"payer", "send", "confirm", "getTransaction"}
              /\ Stages[k] = "payer" => k < Len(Stages) /\ Stages[k + 1] = "send"
              /\ Stages[k] = "send" => k < Len(Stages) /\ Stages[k + 1] = "confirm"
              /\ Stages[k] = "confirm" => k < Len(Stages) /\ Stages[k + 1] = "getTransaction"
              /\ Stages[k] = "getTransaction" <=> k = Len(Stages)
<1>1. CASE script = "devnet"
  <2>1. /\ Len(Stages) = 3 /\ DOMAIN Stages = 1 .. 3
        /\ Stages[1] = "send" /\ Stages[2] = "confirm" /\ Stages[3] = "getTransaction"
    BY <1>1 DEF Stages, DevnetSend
  <2> QED
    BY <1>1, <2>1
<1>2. CASE script \in {"m3", "m5"}
  <2>1. /\ Len(Stages) = 4 /\ DOMAIN Stages = 1 .. 4
        /\ Stages[1] = "payer" /\ Stages[2] = "send" /\ Stages[3] = "confirm"
        /\ Stages[4] = "getTransaction"
    BY <1>2 DEF Stages, M3Send, M5Send
  <2> QED
    BY <1>2, <2>1
<1> QED
  BY <1>1, <1>2

(* A step that keeps the script and its plan keeps its layout.             *)
LEMMA Same ==
  ASSUME UNCHANGED <<script, plan>>
  PROVE  /\ program' = program /\ Stages' = Stages /\ Registered' = Registered
         /\ First' = First /\ Bets' = Bets
         /\ Opening' = Opening /\ Waiting' = Waiting /\ Ending' = Ending
         /\ Creator' = Creator /\ Window' = Window
         /\ \A j : BetAt(j)' = BetAt(j)
         /\ pc' = pc => step' = step
  BY DEF program, Program, step, Stages, Registered, First, Bets, Opening, Waiting, Ending,
    Creator, Window, BetAt

-----------------------------------------------------------------------------
(* The script by itself.                                                   *)
Sited ==
  /\ PlanRead /\ skew \in Skews
  /\ pc \in 1 .. Ending
  /\ stage \in 1 .. Len(Stages) /\ age \in Nat
  /\ step.op # "tx" => stage = 1 /\ age = 0
  /\ exit \in {{}, {0}, {1}} /\ troubled \in BOOLEAN
  /\ step.op \notin {"pause", "wait"} => until = {}
  /\ pc > First => \E sn \in Snapshots : validation = {sn} /\ fixtureUsed = {sn.fixture_id}

LEMMA SitedStays ==
  ASSUME Sited, UNCHANGED <<script, plan, skew, pc, validation, fixtureUsed>>,
         stage' = stage \/ (step.op = "tx" /\ stage < Len(Stages) /\ stage' = stage + 1),
         age' = age \/ (step.op = "tx" /\ age' = age + 1),
         exit' \in {{}, {0}, {1}}, troubled' \in BOOLEAN,
         step.op \notin {"pause", "wait"} => until' = until
  PROVE  Sited'
<1>1. /\ Stages' = Stages /\ First' = First /\ Ending' = Ending /\ step' = step
  BY Same
<1>2. PlanRead'
  BY DEF Sited, PlanRead, PlanAccepted
<1>3. stage' \in 1 .. Len(Stages) /\ age' \in Nat
  BY StageOrder DEF Sited, PlanRead
<1>4. step.op # "tx" => stage' = 1 /\ age' = 0
  BY DEF Sited
<1>5. step.op \notin {"pause", "wait"} => until' = {}
  BY DEF Sited
<1> QED
  BY <1>1, <1>2, <1>3, <1>4, <1>5 DEF Sited

LEMMA SitedAdvances ==
  ASSUME Sited, Advance, UNCHANGED <<script, plan, skew>>, until' = {},
         step.op # "recheck", step.op = "plan" => PlanAccepted(plan),
         exit' \in {{}, {0}, {1}}, troubled' \in BOOLEAN,
         IF step.op = "fetch"
         THEN \E sn \in Snapshots : validation' = {sn} /\ fixtureUsed' = {sn.fixture_id}
         ELSE UNCHANGED <<validation, fixtureUsed>>
  PROVE  Sited'
<1>1. /\ Stages' = Stages /\ First' = First /\ Ending' = Ending
  BY Same
<1>k. /\ step.op = "plan" <=> script = "m5" /\ pc = 1
      /\ step.op = "fetch" <=> pc = First
      /\ step.op = "recheck" <=> pc = Ending
  BY Kinds DEF Sited
<1>n. First \in 2 .. 4 /\ Ending \in Int
  BY Numbers DEF Sited
<1>2. PlanRead'
  BY <1>k DEF Sited, PlanRead, PlanAccepted
<1>3. pc' \in 1 .. Ending /\ pc' = pc + 1 /\ pc \in Int
  BY <1>k, <1>n DEF Sited, Advance
<1>4. stage' = 1 /\ stage' \in 1 .. Len(Stages) /\ age' = 0
  BY StageOrder DEF Sited, PlanRead, Advance
<1>5. pc' > First => \E sn \in Snapshots : validation' = {sn} /\ fixtureUsed' = {sn.fixture_id}
  <2>1. CASE step.op = "fetch"
    BY <2>1
  <2>2. CASE step.op # "fetch"
    <3>1. pc' > First => pc > First
      BY <1>3, <1>k, <1>n, <2>2
    <3> QED
      BY <2>2, <3>1 DEF Sited
  <2> QED
    BY <2>1, <2>2
<1> QED
  BY <1>1, <1>2, <1>3, <1>4, <1>5 DEF Sited

LEMMA SitedInit ==
  ASSUME ScriptInit
  PROVE  Sited
<1>1. PlanRead
  BY DEF ScriptInit, PlanRead
<1>n. First \in 2 .. 4 /\ Bets \in Nat /\ pc = 1 /\ Ending = First + 7 + Bets
  BY <1>1, Numbers DEF ScriptInit
<1>2. pc \in 1 .. Ending /\ ~(pc > First)
  BY <1>n
<1>3. stage \in 1 .. Len(Stages)
  BY <1>1, StageOrder DEF ScriptInit, PlanRead
<1> QED
  BY <1>1, <1>2, <1>3 DEF ScriptInit, Sited

LEMMA SitedThrows ==
  ASSUME Sited, NEW outside \in BOOLEAN, Throw(outside)
  PROVE  Sited'
<1>1. /\ UNCHANGED <<script, plan, skew, pc, stage, validation, fixtureUsed, until, age>>
      /\ exit' = {1} /\ troubled' \in BOOLEAN
  BY DEF Throw, Sited
<1> QED
  BY <1>1, SitedStays

LEMMA SitedNextStage ==
  ASSUME Sited, At("tx"), NextStage
  PROVE  Sited'
<1>1. /\ UNCHANGED <<script, plan, skew, validation, fixtureUsed, until, exit, troubled>>
      /\ step.op = "tx" /\ exit' \in {{}, {0}, {1}} /\ troubled' \in BOOLEAN
  BY DEF NextStage, At, Sited
<1>2. CASE stage < Len(Stages)
  <2>1. stage' = stage + 1 /\ UNCHANGED <<pc, age>>
    BY <1>2 DEF NextStage
  <2> QED
    BY <1>1, <1>2, <2>1, SitedStays
<1>3. CASE ~(stage < Len(Stages))
  <2>1. Advance /\ until' = {}
    BY <1>1, <1>3 DEF NextStage, Sited
  <2> QED
    BY <1>1, <2>1, SitedAdvances
<1> QED
  BY <1>2, <1>3

LEMMA SitedNext ==
  ASSUME Sited, [ScriptNext]_allVars
  PROVE  Sited'
<1>t. Stage # "none" => At("tx")
  BY DEF Stage
<1>u. exit \in {{}, {0}, {1}} /\ troubled \in BOOLEAN
  BY DEF Sited
<1>1. CASE ReadPlan
  <2>1. CASE Throw(TRUE)
    BY <2>1, SitedThrows
  <2>2. CASE Advance /\ ~Throw(TRUE)
    <3>1. /\ UNCHANGED <<script, plan, skew, validation, fixtureUsed, until, troubled>>
          /\ exit' \in {exit, {0}}
          /\ step.op = "plan" /\ PlanAccepted(plan) /\ until' = {}
      BY <1>1, <2>2 DEF ReadPlan, At, Sited
    <3> QED
      BY <1>u, <2>2, <3>1, SitedAdvances
  <2>3. CASE ~Advance /\ ~Throw(TRUE)
    <3>1. /\ UNCHANGED <<script, plan, skew, pc, stage, age, validation, fixtureUsed, until, troubled>>
          /\ exit' = {0}
      BY <1>1, <2>3 DEF ReadPlan
    <3> QED
      BY <1>u, <3>1, SitedStays
  <2> QED
    BY <2>1, <2>2, <2>3
<1>2. CASE Setup
  <2>1. CASE Throw(TRUE)
    BY <2>1, SitedThrows
  <2>2. CASE ~Throw(TRUE)
    <3>1. /\ UNCHANGED <<script, plan, skew, validation, fixtureUsed, until, exit, troubled>>
          /\ step.op = "setup" /\ Advance /\ until' = {}
      BY <1>2, <2>2 DEF Setup, At, Sited
    <3> QED
      BY <1>u, <3>1, SitedAdvances
  <2> QED
    BY <2>1, <2>2
<1>3. CASE FetchProof
  <2>1. CASE Throw(TRUE)
    BY <2>1, SitedThrows
  <2>2. CASE ~Throw(TRUE)
    <3>1. PICK i \in 1 .. 2 : \E sn \in Served(step.from[i]) :
            /\ validation' = {sn} /\ fixtureUsed' = {step.from[i]} /\ Advance
            /\ UNCHANGED <<vars, script, plan, skew, until, tx, signatures, exit,
                           landed, troubled>>
      BY <1>3, <2>2 DEF FetchProof
    <3>2. \E sn \in Snapshots : validation' = {sn} /\ fixtureUsed' = {sn.fixture_id}
      BY <3>1 DEF Served
    <3>3. step.op = "fetch" /\ until' = {} /\ Advance /\ UNCHANGED <<script, plan, skew, exit, troubled>>
      BY <1>3, <3>1 DEF FetchProof, At, Sited
    <3> QED
      BY <1>u, <3>2, <3>3, SitedAdvances
  <2> QED
    BY <2>1, <2>2
<1>4. CASE CheckRoot
  <2>1. CASE Throw(TRUE)
    BY <2>1, SitedThrows
  <2>2. CASE ~Throw(TRUE)
    <3>1. /\ UNCHANGED <<script, plan, skew, validation, fixtureUsed, until, exit>>
          /\ step.op = "root" /\ Advance /\ until' = {}
          /\ troubled' = (troubled \/ Proof \notin roots)
      BY <1>4, <2>2 DEF CheckRoot, At, Sited
    <3>2. troubled' \in BOOLEAN
      BY <1>u, <3>1
    <3> QED
      BY <1>u, <3>1, <3>2, SitedAdvances
  <2> QED
    BY <2>1, <2>2
<1>5. CASE AssertPayer
  BY <1>t, <1>5, SitedThrows, SitedNextStage DEF AssertPayer
<1>6. CASE Send
  BY <1>t, <1>6, SitedThrows, SitedNextStage DEF Send
<1>7. CASE Confirm
  BY <1>t, <1>7, SitedThrows, SitedNextStage DEF Confirm
<1>8. CASE GetTransaction
  BY <1>t, <1>8, SitedThrows, SitedNextStage DEF GetTransaction
<1>9. CASE SetTimer
  BY <1>9, <1>u, SitedStays DEF SetTimer
<1>10. CASE Wake
  <2>1. step.op \in {"pause", "wait"}
    BY <1>10 DEF Wake, Due, Sited
  <2> QED
    BY <1>10, <1>u, <2>1, SitedAdvances DEF Wake
<1>11. CASE Recheck
  <2>1. CASE Throw(TRUE) \/ Throw(FALSE)
    BY <2>1, SitedThrows
  <2>2. CASE ~(Throw(TRUE) \/ Throw(FALSE))
    BY <1>11, <1>u, <2>2, SitedStays DEF Recheck
  <2> QED
    BY <2>1, <2>2
<1>12. CASE RpcFails
  BY <1>12, SitedThrows DEF RpcFails
<1>13. CASE Land
  BY <1>13, <1>u, SitedStays DEF Land, TxEnds
<1>14. CASE Revert
  BY <1>14, <1>u, SitedStays DEF Revert, TxEnds
<1>15. CASE Expire
  BY <1>15, <1>u, SitedStays DEF Expire, TxEnds
<1>16. CASE Others
  <2>1. /\ UNCHANGED <<script, plan, skew, pc, stage, validation, fixtureUsed, until, exit, age>>
        /\ troubled' = troubled \/ troubled' = TRUE
    BY <1>16 DEF Others, Untroubled, Interfere, scriptVars
  <2> QED
    BY <1>u, <2>1, SitedStays
<1>17. CASE Pass
  <2>1. /\ UNCHANGED <<script, plan, skew, pc, stage, validation, fixtureUsed, until, exit>>
        /\ age' = age \/ (step.op = "tx" /\ age' = age + 1)
    BY <1>17 DEF Pass, At
  <2>2. troubled' \in BOOLEAN
    BY <1>17, <1>u DEF Pass
  <2> QED
    BY <1>u, <2>1, <2>2, SitedStays
<1>18. CASE UNCHANGED allVars
  BY <1>18, <1>u, SitedStays DEF allVars, scriptVars
<1> QED
  BY <1>1, <1>2, <1>3, <1>4, <1>5, <1>6, <1>7, <1>8, <1>9, <1>10, <1>11, <1>12, <1>13,
    <1>14, <1>15, <1>16, <1>17, <1>18 DEF ScriptNext, ScriptStep

LEMMA SitedAlways == ScriptSpec => []Sited
<1>1. ScriptInit => Sited
  BY SitedInit
<1>2. Sited /\ [ScriptNext]_allVars => Sited'
  BY SitedNext
<1> QED
  BY <1>1, <1>2, PTL DEF ScriptSpec

-----------------------------------------------------------------------------
(* The transaction under way, and those that have landed.                  *)
Awaiting == step.op = "tx" /\ Stages[stage] \in {"confirm", "getTransaction"}
Tracked ==
  /\ ~Awaiting => tx = NoTx
  /\ Awaiting =>
       /\ tx = [status |-> tx.status, pc |-> pc, ix |-> step.ix, by |-> step.by,
                side |-> step.side, amount |-> tx.amount, lockTs |-> tx.lockTs]
       /\ tx.status \in {"sent", "landed", "reverted", "expired"}
       /\ tx.amount \in step.amounts
       /\ Stages[stage] = "getTransaction" => tx.status = "landed"
  /\ \A i \in 1 .. pc - 1 : i \in landed <=> program[i].op = "tx"
  /\ pc \in landed <=> tx.status = "landed"
  /\ landed \subseteq 1 .. pc
  /\ signatures \subseteq landed

LEMMA TrackedKept ==
  ASSUME Tracked, UNCHANGED <<script, plan, pc, stage, tx, landed, signatures>>
  PROVE  Tracked'
<1>1. program' = program /\ Stages' = Stages /\ step' = step
  BY Same
<1>2. Awaiting' = Awaiting
  BY <1>1 DEF Awaiting
<1> QED
  BY <1>1, <1>2 DEF Tracked

LEMMA TrackedAdvances ==
  ASSUME Sited, Tracked, Advance, UNCHANGED <<script, plan, landed>>, tx' = NoTx,
         step.op = "tx" => tx.status = "landed",
         signatures' \subseteq signatures \cup {i \in {pc} : step.op = "tx"},
         step.op # "recheck", step.op = "plan" => PlanAccepted(plan)
  PROVE  Tracked'
<1>1. program' = program /\ Stages' = Stages
  BY Same
<1>2. pc' = pc + 1 /\ pc \in Nat /\ stage' = 1
  BY DEF Sited, Advance
<1>3. pc \in landed <=> step.op = "tx"
  BY DEF Tracked, NoTx, Awaiting
<1>4. \A i \in 1 .. pc' - 1 : i \in landed' <=> program'[i].op = "tx"
  BY <1>1, <1>2, <1>3 DEF Tracked, step
<1>5. landed' \subseteq 1 .. pc' /\ pc' \notin landed' /\ signatures' \subseteq landed'
  BY <1>2, <1>3 DEF Tracked
<1>6. ~Awaiting'
  BY <1>1, <1>2, StageOrder DEF Awaiting, Sited, PlanRead
<1> QED
  BY <1>4, <1>5, <1>6 DEF Tracked, NoTx

LEMMA TrackedNext ==
  ASSUME Sited, Tracked, [ScriptNext]_allVars
  PROVE  Tracked'
<1>s. /\ Len(Stages) \in {3, 4} /\ stage \in 1 .. Len(Stages)
      /\ Stages[1] \in {"send", "payer"}
      /\ \A k \in 1 .. Len(Stages) :
              /\ Stages[k] = "payer" => k < Len(Stages) /\ Stages[k + 1] = "send"
              /\ Stages[k] = "send" => k < Len(Stages) /\ Stages[k + 1] = "confirm"
              /\ Stages[k] = "confirm" => k < Len(Stages) /\ Stages[k + 1] = "getTransaction"
              /\ Stages[k] = "getTransaction" <=> k = Len(Stages)
  BY StageOrder DEF Sited, PlanRead
<1>t. Stage # "none" => At("tx") /\ step.op = "tx" /\ Stage = Stages[stage]
  BY DEF Stage, At
<1>a. Awaiting <=> step.op = "tx" /\ Stages[stage] \in {"confirm", "getTransaction"}
  BY DEF Awaiting
<1>w. tx.status = "sent" => Awaiting
  BY DEF Tracked, NoTx
<1>x. ASSUME NEW o, Throw(o) PROVE Tracked'
  BY <1>x, TrackedKept DEF Throw
<1>y. ASSUME Advance, UNCHANGED <<script, plan, landed, tx, signatures>>, step.op \notin {"recheck", "tx"},
             step.op = "plan" => PlanAccepted(plan)
      PROVE  Tracked'
  <2>1. tx' = NoTx
    BY <1>y DEF Tracked, Awaiting
  <2> QED
    BY <1>y, <2>1, TrackedAdvances
<1>z. ASSUME NEW st \in {"landed", "reverted", "expired"}, TxEnds(st), tx.status = "sent",
             IF st = "landed" THEN landed' = landed \cup {tx.pc} ELSE landed' = landed
      PROVE  Tracked'
  <2>1. program' = program /\ Stages' = Stages /\ step' = step /\ pc' = pc /\ stage' = stage
        /\ signatures' = signatures /\ tx' = [tx EXCEPT !.status = st]
    BY <1>z, Same DEF TxEnds
  <2>2. Awaiting' /\ Awaiting
    BY <1>w, <1>z, <2>1 DEF Awaiting
  <2>3. /\ tx = [status |-> tx.status, pc |-> pc, ix |-> step.ix, by |-> step.by,
                side |-> step.side, amount |-> tx.amount, lockTs |-> tx.lockTs]
        /\ tx.amount \in step.amounts /\ Stages[stage] # "getTransaction"
        /\ pc \notin landed
    BY <1>z, <2>2 DEF Tracked
  <2>4. /\ tx' = [status |-> st, pc |-> pc, ix |-> step.ix, by |-> step.by,
                  side |-> step.side, amount |-> tx.amount, lockTs |-> tx.lockTs]
        /\ tx.pc = pc
    BY <2>1, <2>3
  <2>5. /\ tx'.status = st /\ tx'.amount = tx.amount /\ tx'.lockTs = tx.lockTs
    BY <2>4
  <2>6. /\ \A i \in 1 .. pc - 1 : i \in landed' <=> program[i].op = "tx"
        /\ pc \in landed' <=> st = "landed"
        /\ landed' \subseteq 1 .. pc /\ signatures \subseteq landed'
    BY <1>z, <2>3, <2>4 DEF Tracked, Sited
  <2> QED
    BY <2>1, <2>2, <2>3, <2>4, <2>5, <2>6 DEF Tracked
<1>1. CASE ReadPlan
  BY <1>1, <1>x, <1>y, TrackedKept DEF ReadPlan, At
<1>2. CASE Setup
  BY <1>2, <1>x, <1>y DEF Setup, At
<1>3. CASE FetchProof
  BY <1>3, <1>x, <1>y DEF FetchProof, At
<1>4. CASE CheckRoot
  BY <1>4, <1>x, <1>y DEF CheckRoot, At
<1>5. CASE AssertPayer
  <2>1. CASE NextStage /\ UNCHANGED tx
    <3>1. Stages[stage] = "payer" /\ stage < Len(Stages) /\ step.op = "tx"
      BY <1>5, <1>s, <1>t DEF AssertPayer
    <3>2. /\ stage' = stage + 1 /\ UNCHANGED <<script, plan, pc, landed, signatures, tx>>
      BY <2>1, <3>1 DEF NextStage
    <3>3. program' = program /\ Stages' = Stages /\ step' = step
      BY <3>2, Same
    <3>4. ~Awaiting /\ ~Awaiting'
      BY <1>s, <3>1, <3>2, <3>3 DEF Awaiting
    <3> QED
      BY <3>2, <3>3, <3>4 DEF Tracked
  <2> QED
    BY <1>5, <1>x, <2>1 DEF AssertPayer
<1>6. CASE Send
  <2>1. CASE \E t \in Built : tx' = t /\ NextStage
    <3>1. PICK t \in Built : tx' = t /\ NextStage
      BY <2>1
    <3>2. PICK n \in step.amounts :
            t = [status |-> "sent", pc |-> pc, ix |-> step.ix, by |-> step.by,
                 side |-> step.side, amount |-> n, lockTs |-> LockTs]
      BY <3>1 DEF Built
    <3>3. Stages[stage] = "send" /\ stage < Len(Stages) /\ step.op = "tx"
      BY <1>6, <1>s, <1>t DEF Send
    <3>4. /\ stage' = stage + 1 /\ UNCHANGED <<script, plan, pc, landed, signatures>>
      BY <3>1, <3>3 DEF NextStage
    <3>5. program' = program /\ Stages' = Stages /\ step' = step
      BY <3>4, Same
    <3>6. ~Awaiting /\ Awaiting' /\ Stages[stage'] = "confirm"
      BY <1>s, <3>3, <3>4, <3>5 DEF Awaiting
    <3>7. /\ tx' = [status |-> tx'.status, pc |-> pc, ix |-> step.ix, by |-> step.by,
                    side |-> step.side, amount |-> tx'.amount, lockTs |-> tx'.lockTs]
          /\ tx'.status = "sent" /\ tx'.amount \in step.amounts
      BY <3>1, <3>2
    <3>8. pc \notin landed
      BY <3>6 DEF Tracked, NoTx
    <3> QED
      BY <3>4, <3>5, <3>6, <3>7, <3>8 DEF Tracked
  <2> QED
    BY <1>6, <1>x, <2>1 DEF Send
<1>7. CASE Confirm
  <2>1. CASE tx.status = "landed" /\ NextStage /\ UNCHANGED tx
    <3>1. Stages[stage] = "confirm" /\ stage < Len(Stages) /\ step.op = "tx"
      BY <1>7, <1>s, <1>t DEF Confirm
    <3>2. /\ stage' = stage + 1 /\ UNCHANGED <<script, plan, pc, landed, signatures, tx>>
      BY <2>1, <3>1 DEF NextStage
    <3>3. program' = program /\ Stages' = Stages /\ step' = step
      BY <3>2, Same
    <3>4. Awaiting /\ Awaiting'
      BY <1>s, <3>1, <3>2, <3>3 DEF Awaiting
    <3> QED
      BY <2>1, <3>2, <3>3, <3>4 DEF Tracked
  <2> QED
    BY <1>7, <1>x, <2>1 DEF Confirm
<1>8. CASE GetTransaction
  <2>1. CASE tx.status = "landed" /\ NextStage /\ tx' = NoTx
    <3>1. ~(stage < Len(Stages)) /\ step.op = "tx"
      BY <1>8, <1>s, <1>t DEF GetTransaction
    <3>2. /\ Advance /\ signatures' = signatures \cup {i \in {pc} : step.kept}
          /\ UNCHANGED <<script, plan, landed>>
      BY <2>1, <3>1 DEF NextStage
    <3>3. signatures' \subseteq signatures \cup {i \in {pc} : step.op = "tx"}
      BY <3>1, <3>2
    <3> QED
      BY <2>1, <3>1, <3>2, <3>3, TrackedAdvances
  <2> QED
    BY <1>8, <1>x, <2>1 DEF GetTransaction
<1>9. CASE SetTimer
  BY <1>9, TrackedKept DEF SetTimer
<1>10. CASE Wake
  <2>1. step.op \in {"pause", "wait"}
    BY <1>10 DEF Wake, Due, Sited
  <2> QED
    BY <1>10, <1>y, <2>1 DEF Wake
<1>11. CASE Recheck
  BY <1>11, <1>x, TrackedKept DEF Recheck
<1>12. CASE RpcFails
  BY <1>12, <1>x DEF RpcFails
<1>13. CASE Land
  BY <1>13, <1>z DEF Land
<1>14. CASE Revert
  BY <1>14, <1>z DEF Revert
<1>15. CASE Expire
  BY <1>15, <1>z DEF Expire
<1>16. CASE Others
  BY <1>16, TrackedKept DEF Others, Untroubled, Interfere, scriptVars
<1>17. CASE Pass
  BY <1>17, TrackedKept DEF Pass
<1>18. CASE UNCHANGED allVars
  BY <1>18, TrackedKept DEF allVars, scriptVars
<1> QED
  BY <1>1, <1>2, <1>3, <1>4, <1>5, <1>6, <1>7, <1>8, <1>9, <1>10, <1>11, <1>12, <1>13,
    <1>14, <1>15, <1>16, <1>17, <1>18 DEF ScriptNext, ScriptStep

LEMMA TrackedInit ==
  ASSUME ScriptInit
  PROVE  Tracked
<1>1. Sited
  BY SitedInit
<1>2. ~Awaiting
  BY <1>1, StageOrder DEF Awaiting, Sited, PlanRead, ScriptInit
<1> QED
  BY <1>2 DEF ScriptInit, Tracked, NoTx

LEMMA TrackedAlways == ScriptSpec => []Tracked
<1>1. ScriptInit => Tracked
  BY TrackedInit
<1>2. Sited /\ Tracked /\ [ScriptNext]_allVars => Tracked'
  BY TrackedNext
<1> QED
  BY <1>1, <1>2, SitedAlways, PTL DEF ScriptSpec

-----------------------------------------------------------------------------
(* The market of the script: it exists when create_market has landed, with *)
(* the terms and the lock time the script chose.                           *)
Clocked ==
  /\ now \in Nat
  /\ created <=> Opening \in landed
  /\ created => terms = MarketOf(Proof.fixture_id, Proof) /\ lock_ts = skew + Window
  /\ ~created => now = IF pc = Opening THEN age ELSE 0
  /\ Awaiting /\ step.ix = "create_market" => tx.lockTs = skew + Window

(* What a script sends, as the program gets it.                            *)
Request(t) ==
  \/ t.ix = "create_test_mint" /\ script = "devnet" /\ pc = 2 /\ pc < First
  \/ /\ t.ix = "create_ata_and_mint" /\ script = "devnet" /\ pc = 3 /\ pc < First
     /\ t.by = Wallet1 /\ t.amount = 10
  \/ t.ix = "create_market" /\ pc = Opening
  \/ /\ t.ix = "deposit" /\ pc \in Opening + 1 .. Waiting - 1
     /\ pc - Opening \in 1 .. Bets /\ step = BetAt(pc - Opening)
     /\ script = "m5" => (pc - Opening) % 2 = 1
     /\ t.amount \in (IF script = "m5" THEN Draws ELSE {1})
     /\ \/ t.by = Wallet1 /\ t.side = Yes
        \/ t.by = Wallet2 /\ t.side = No /\ pc # Opening + 1 /\ script # "devnet"
     /\ script = "m3" => t.by = (IF pc = Opening + 1 THEN Wallet1 ELSE Wallet2)
  \/ t.ix = "lock_market" /\ pc = Waiting + 1
  \/ t.ix = "resolve" /\ pc = Waiting + 2
  \/ t.ix = "claim_payout" /\ pc = Waiting + 3 /\ t.by = Wallet1

LEMMA Requests ==
  ASSUME Sited, step.op = "tx", NEW t, t.ix = step.ix, t.by = step.by, t.side = step.side,
         t.amount \in step.amounts
  PROVE  Request(t)
<1>2. step.op = "tx" /\ PlanRead /\ pc \in 1 .. Ending
  BY DEF Sited
<1>n. First \in 2 .. 4 /\ Bets \in Nat /\ Opening = First + 2 /\ Waiting = First + 3 + Bets
  BY <1>2, Numbers
<1>3. CASE step.ix = "deposit"
  <2>1. /\ pc \in Opening + 1 .. Waiting - 1
        /\ step = BetAt(pc - Opening) /\ pc - Opening \in 1 .. Bets
    BY <1>2, <1>3, TxKinds
  <2>2. pc - Opening = 1 <=> pc = Opening + 1
    BY <1>2, <1>n, <2>1
  <2> DEFINE j == pc - Opening
  <2>3. \/ /\ script = "m5" /\ j % 2 = 0 /\ BetAt(j).op = "pause"
            /\ BetAt(j).range = plan.sleepMin .. plan.sleepMax
        \/ /\ script = "m5" => j % 2 = 1
           /\ BetAt(j).op = "tx" /\ BetAt(j).ix = "deposit" /\ BetAt(j).window = 0
           /\ BetAt(j).amounts = IF script = "m5" THEN Draws ELSE {1}
           /\ \/ BetAt(j).by = Wallet1 /\ BetAt(j).side = Yes
              \/ BetAt(j).by = Wallet2 /\ BetAt(j).side = No /\ j # 1 /\ script # "devnet"
           /\ script = "m3" => BetAt(j).by = (IF j = 1 THEN Wallet1 ELSE Wallet2)
    BY <1>2, <2>1, BetFields, Zenon
  <2> HIDE DEF j
  <2>4. /\ script = "m5" => j % 2 = 1
        /\ step.amounts = IF script = "m5" THEN Draws ELSE {1}
        /\ \/ step.by = Wallet1 /\ step.side = Yes
           \/ step.by = Wallet2 /\ step.side = No /\ j # 1 /\ script # "devnet"
        /\ script = "m3" => step.by = (IF j = 1 THEN Wallet1 ELSE Wallet2)
    <3>1. step = BetAt(j)
      BY <2>1 DEF j
    <3> QED
      BY <1>2, <2>3, <3>1
  <2> QED
    BY <1>2, <1>3, <2>1, <2>2, <2>4 DEF j, Request
<1>4. CASE step.ix # "deposit"
  <2>1. /\ \/ step.ix = "create_test_mint" /\ script = "devnet" /\ pc = 2 /\ pc < First
           \/ /\ step.ix = "create_ata_and_mint" /\ script = "devnet" /\ pc = 3 /\ pc < First
              /\ step.by = Wallet1 /\ step.amounts = {10}
           \/ step.ix = "create_market" /\ pc = Opening
           \/ step.ix = "lock_market" /\ pc = Waiting + 1
           \/ step.ix = "resolve" /\ pc = Waiting + 2
           \/ step.ix = "claim_payout" /\ pc = Waiting + 3 /\ step.by = Wallet1
    BY <1>2, <1>4, TxKinds
  <2> QED
    BY <1>2, <2>1 DEF Request
<1> QED
  BY <1>3, <1>4

LEMMA Sending ==
  ASSUME Sited, Tracked, Awaiting
  PROVE  tx.pc = pc /\ step.op = "tx" /\ tx.ix = step.ix /\ Request(tx)
<1>1. /\ tx = [status |-> tx.status, pc |-> pc, ix |-> step.ix, by |-> step.by,
              side |-> step.side, amount |-> tx.amount, lockTs |-> tx.lockTs]
      /\ tx.amount \in step.amounts
  BY DEF Tracked
<1>2. tx.pc = pc /\ tx.ix = step.ix /\ tx.by = step.by /\ tx.side = step.side
  BY <1>1
<1>3. step.op = "tx"
  BY DEF Awaiting
<1> QED
  BY <1>1, <1>2, <1>3, Requests

(* What a transaction of a script does on chain.                           *)
Landing ==
  \/ script = "devnet" /\ pc = 2 /\ pc < First /\ UNCHANGED vars
  \/ script = "devnet" /\ pc = 3 /\ pc < First /\ MintTo(Wallet1, 10)
  \/ pc = Opening /\ step.ix = "create_market" /\ InitMarket(Market, tx.lockTs)
  \/ /\ pc \in Opening + 1 .. Waiting - 1
     /\ pc - Opening \in 1 .. Bets /\ step = BetAt(pc - Opening)
     /\ script = "m5" => (pc - Opening) % 2 = 1
     /\ tx.amount \in (IF script = "m5" THEN Draws ELSE {1})
     /\ \/ Deposit(Wallet1, tx.amount, Yes) /\ (script = "m3" => pc = Opening + 1)
        \/ Deposit(Wallet2, tx.amount, No) /\ pc # Opening + 1 /\ script # "devnet"
  \/ pc = Waiting + 1 /\ LockMarket
  \/ pc = Waiting + 2 /\ Resolve(Proof, 1, Some(2))
  \/ pc = Waiting + 3 /\ ClaimPayout(Wallet1)

LEMMA Lands ==
  ASSUME Sited, Tracked, Land
  PROVE  /\ Landing /\ Awaiting /\ step.op = "tx" /\ pc \notin landed
         /\ landed' = landed \cup {pc} /\ tx' = [tx EXCEPT !.status = "landed"]
         /\ UNCHANGED <<script, plan, skew, pc, stage, validation, fixtureUsed, until,
                        signatures, exit, age, troubled>>
<1>1. Awaiting /\ tx.status = "sent"
  BY DEF Land, Tracked, NoTx
<1>2. Landing /\ tx.pc = pc
  <2>1. Execute(tx)
    BY DEF Land
  <2>2. CASE tx.ix = "deposit"
    <3>1. Deposit(tx.by, tx.amount, tx.side)
      BY <2>1, <2>2 DEF Execute
    <3>2. /\ tx.pc = pc
          /\ pc \in Opening + 1 .. Waiting - 1
          /\ pc - Opening \in 1 .. Bets /\ step = BetAt(pc - Opening)
          /\ script = "m5" => (pc - Opening) % 2 = 1
          /\ tx.amount \in (IF script = "m5" THEN Draws ELSE {1})
          /\ \/ tx.by = Wallet1 /\ tx.side = Yes
             \/ tx.by = Wallet2 /\ tx.side = No /\ pc # Opening + 1 /\ script # "devnet"
          /\ script = "m3" => tx.by = (IF pc = Opening + 1 THEN Wallet1 ELSE Wallet2)
      BY <1>1, <2>2, Sending DEF Request
    <3>3. Wallet1 # Wallet2
      BY ScriptAssumption
    <3> QED
      BY <3>1, <3>2, <3>3 DEF Landing
  <2>3. CASE tx.ix # "deposit"
    <3>1. /\ tx.pc = pc /\ tx.ix = step.ix
          /\ \/ tx.ix = "create_test_mint" /\ script = "devnet" /\ pc = 2 /\ pc < First
             \/ /\ tx.ix = "create_ata_and_mint" /\ script = "devnet" /\ pc = 3 /\ pc < First
                /\ tx.by = Wallet1 /\ tx.amount = 10
             \/ tx.ix = "create_market" /\ pc = Opening
             \/ tx.ix = "lock_market" /\ pc = Waiting + 1
             \/ tx.ix = "resolve" /\ pc = Waiting + 2
             \/ tx.ix = "claim_payout" /\ pc = Waiting + 3 /\ tx.by = Wallet1
      BY <1>1, <2>3, Sending DEF Request
    <3> QED
      BY <2>1, <3>1 DEF Landing, Execute
  <2> QED
    BY <2>2, <2>3
<1>3. pc \notin landed
  BY <1>1 DEF Tracked
<1> QED
  BY <1>1, <1>2, <1>3 DEF Land, TxEnds, Awaiting

(* The steps there are: the script throws, ends, goes on, sends, hears of  *)
(* its transaction; that ends; others act; time passes.                    *)
Throws ==
  \/ Throw(TRUE)
  \/ /\ Throw(FALSE) /\ Running
     /\ \/ step.op = "tx" /\ step.by \notin Registered
        \/ /\ step.op = "tx" /\ ~Awaiting /\ tx = NoTx /\ pc \notin landed
           /\ \E t \in Built : ~Executable(t)
        \/ tx.status \in {"reverted", "expired"}
Ends ==
  /\ exit' = {0}
  /\ UNCHANGED <<vars, script, plan, skew, pc, stage, validation, fixtureUsed,
                 until, tx, signatures, landed, age, troubled>>
GoesOn ==
  /\ step.op \in {"plan", "setup", "fetch", "root"} /\ tx = NoTx /\ Advance
  /\ step.op = "plan" => PlanAccepted(plan)
  /\ step.op # "fetch" => UNCHANGED <<validation, fixtureUsed>>
  /\ IF step.op = "root" THEN RootFound /\ troubled' = (troubled \/ Proof \notin roots)
     ELSE UNCHANGED troubled
  /\ UNCHANGED <<vars, script, plan, skew, until, tx, signatures, exit, landed>>
  /\ until = {}
Asked ==
  /\ step.op = "tx" /\ ~Awaiting /\ ~Awaiting' /\ tx = NoTx
  /\ UNCHANGED <<vars, script, plan, skew, pc, validation, fixtureUsed, until, exit,
                 landed, signatures, tx, age, troubled>>
Sent ==
  /\ step.op = "tx" /\ ~Awaiting /\ Awaiting' /\ Stages[stage'] = "confirm" /\ tx = NoTx
  /\ pc \notin landed
  /\ \E t \in Built : Executable(t) /\ tx' = t
  /\ UNCHANGED <<vars, script, plan, skew, pc, validation, fixtureUsed, until, exit,
                 landed, signatures, age, troubled>>
Confirmed ==
  /\ Awaiting /\ Awaiting' /\ tx.status = "landed"
  /\ UNCHANGED <<vars, script, plan, skew, pc, validation, fixtureUsed, until, exit,
                 landed, signatures, tx, age, troubled>>
Done ==
  /\ Awaiting /\ pc \in landed /\ tx.status = "landed" /\ Advance /\ tx' = NoTx
  /\ UNCHANGED <<vars, script, plan, skew, validation, fixtureUsed, until, exit,
                 landed, troubled>>
Fails ==
  /\ Awaiting /\ tx.status = "sent" /\ UNCHANGED <<vars, landed>>
  /\ \/ ~Executable(tx) /\ TxEnds("reverted")
     \/ age > Latency /\ TxEnds("expired")

Moves == \/ Throws \/ Ends \/ GoesOn \/ Asked \/ Sent \/ Confirmed \/ Done \/ Fails
         \/ SetTimer \/ Wake \/ Land \/ Others \/ Pass \/ UNCHANGED allVars

LEMMA StepsMove ==
  ASSUME Sited, Tracked, [ScriptNext]_allVars
  PROVE  Moves
<1>s. /\ Len(Stages) \in {3, 4} /\ stage \in 1 .. Len(Stages)
      /\ Stages[1] \in {"send", "payer"}
      /\ \A k \in 1 .. Len(Stages) :
              /\ Stages[k] = "payer" => k < Len(Stages) /\ Stages[k + 1] = "send"
              /\ Stages[k] = "send" => k < Len(Stages) /\ Stages[k + 1] = "confirm"
              /\ Stages[k] = "confirm" => k < Len(Stages) /\ Stages[k + 1] = "getTransaction"
              /\ Stages[k] = "getTransaction" <=> k = Len(Stages)
  BY StageOrder DEF Sited, PlanRead
<1>t. Stage # "none" => At("tx") /\ step.op = "tx" /\ Stage = Stages[stage]
  BY DEF Stage, At
<1>n. step.op # "tx" => tx = NoTx
  BY DEF Tracked, Awaiting
<1>o. step.op \notin {"pause", "wait"} => until = {}
  BY DEF Sited
<1>x. Throw(TRUE) => Throws
  BY DEF Throws
<1>y. ASSUME step.op = "tx", stage < Len(Stages), NextStage
      PROVE  /\ program' = program /\ Stages' = Stages /\ step' = step /\ stage' = stage + 1
             /\ UNCHANGED <<vars, script, plan, skew, pc, validation, fixtureUsed, until, exit,
                            landed, signatures, age, troubled>>
  BY <1>y, Same DEF NextStage
<1>1. CASE ReadPlan
  <2>1. CASE GoesOn \/ Ends \/ Throws
    BY <2>1 DEF Moves
  <2>2. CASE ~Throw(TRUE)
    <3>1. /\ step.op = "plan" /\ PlanAccepted(plan)
          /\ \/ Advance /\ UNCHANGED exit
             \/ exit' = {0} /\ UNCHANGED <<pc, stage, age>>
          /\ UNCHANGED <<vars, script, plan, skew, validation, fixtureUsed, until,
                         tx, signatures, landed, troubled>>
      BY <1>1, <2>2 DEF ReadPlan, At
    <3> QED
      BY <1>n, <1>o, <3>1 DEF Moves, GoesOn, Ends
  <2> QED
    BY <1>x, <2>1, <2>2
<1>2. CASE Setup
  BY <1>2, <1>x, <1>n, <1>o DEF Setup, At, Moves, GoesOn
<1>3. CASE FetchProof
  <2>1. CASE ~Throw(TRUE)
    <3>1. /\ step.op = "fetch" /\ Advance
          /\ UNCHANGED <<vars, script, plan, skew, until, tx, signatures, exit,
                         landed, troubled>>
      BY <1>3, <2>1 DEF FetchProof, At
    <3> QED
      BY <1>n, <1>o, <3>1 DEF Moves, GoesOn
  <2> QED
    BY <1>x, <2>1 DEF Moves
<1>4. CASE CheckRoot
  <2>1. CASE ~Throw(TRUE)
    <3>1. /\ step.op = "root" /\ Advance /\ RootFound
          /\ troubled' = (troubled \/ Proof \notin roots)
          /\ UNCHANGED <<vars, script, plan, skew, validation, fixtureUsed, until, tx, signatures, exit,
                         landed>>
      BY <1>4, <2>1 DEF CheckRoot, At
    <3> QED
      BY <1>n, <1>o, <3>1 DEF Moves, GoesOn
  <2> QED
    BY <1>x, <2>1 DEF Moves
<1>5. CASE AssertPayer
  <2>1. CASE NextStage /\ UNCHANGED tx
    <3>1. Stages[stage] = "payer" /\ stage < Len(Stages) /\ step.op = "tx"
      BY <1>5, <1>s, <1>t DEF AssertPayer
    <3>2. ~Awaiting /\ ~Awaiting'
      BY <1>s, <1>y, <2>1, <3>1 DEF Awaiting
    <3> QED
      BY <1>y, <2>1, <3>1, <3>2 DEF Moves, Asked, Tracked
  <2> QED
    BY <1>5, <1>t, <2>1 DEF AssertPayer, Moves, Throws, At
<1>6. CASE Send
  <2>1. CASE \E t \in Built : Executable(t) /\ tx' = t /\ NextStage
    <3>1. Stages[stage] = "send" /\ stage < Len(Stages) /\ step.op = "tx"
      BY <1>6, <1>s, <1>t DEF Send
    <3>2. ~Awaiting /\ Awaiting' /\ Stages[stage'] = "confirm"
      BY <1>s, <1>y, <2>1, <3>1 DEF Awaiting
    <3>3. tx = NoTx /\ pc \notin landed
      BY <3>2 DEF Tracked, NoTx
    <3> QED
      BY <1>y, <2>1, <3>1, <3>2, <3>3 DEF Moves, Sent
  <2>2. CASE \E t \in Built : ~Executable(t) /\ Throw(FALSE)
    <3>1. Stages[stage] = "send" /\ step.op = "tx" /\ Running
      BY <1>6, <1>t DEF Send, At
    <3>2. ~Awaiting
      BY <3>1 DEF Awaiting
    <3>3. tx = NoTx /\ pc \notin landed
      BY <3>2 DEF Tracked, NoTx
    <3> QED
      BY <2>2, <3>1, <3>2, <3>3 DEF Moves, Throws
  <2> QED
    BY <1>6, <2>1, <2>2 DEF Send
<1>7. CASE Confirm
  <2>1. CASE tx.status = "landed" /\ NextStage /\ UNCHANGED tx
    <3>1. Stages[stage] = "confirm" /\ stage < Len(Stages) /\ step.op = "tx"
      BY <1>7, <1>s, <1>t DEF Confirm
    <3>2. Awaiting /\ Awaiting'
      BY <1>s, <1>y, <2>1, <3>1 DEF Awaiting
    <3> QED
      BY <1>y, <2>1, <3>1, <3>2 DEF Moves, Confirmed
  <2> QED
    BY <1>7, <1>t, <2>1 DEF Confirm, Moves, Throws, At
<1>8. CASE GetTransaction
  <2>1. CASE tx.status = "landed" /\ NextStage /\ tx' = NoTx
    <3>1. Stages[stage] = "getTransaction" /\ ~(stage < Len(Stages)) /\ step.op = "tx"
      BY <1>8, <1>s, <1>t DEF GetTransaction
    <3>2. Awaiting /\ pc \in landed
      BY <2>1, <3>1 DEF Awaiting, Tracked
    <3>3. /\ Advance
          /\ UNCHANGED <<vars, script, plan, skew, validation, fixtureUsed, until, exit,
                 landed, troubled>>
      BY <2>1, <3>1 DEF NextStage
    <3> QED
      BY <2>1, <3>2, <3>3 DEF Moves, Done
  <2>2. tx.status = "landed"
    <3>1. Stages[stage] = "getTransaction" /\ Awaiting
      BY <1>8, <1>t DEF GetTransaction, Awaiting
    <3> QED
      BY <3>1 DEF Tracked
  <2> QED
    BY <1>8, <2>1, <2>2 DEF GetTransaction, Moves
<1>9. CASE SetTimer
  BY <1>9 DEF Moves
<1>10. CASE Wake
  BY <1>10 DEF Moves
<1>11. CASE Recheck
  BY <1>11, <1>x DEF Recheck, Moves, Ends, Tracked
<1>12. CASE RpcFails
  BY <1>12, <1>x DEF RpcFails, Moves
<1>13. CASE Land
  BY <1>13 DEF Moves
<1>14. CASE Revert \/ Expire
  <2>1. tx.status = "sent" => Awaiting
    BY DEF Tracked, NoTx
  <2> QED
    BY <1>14, <2>1 DEF Revert, Expire, Moves, Fails
<1>16. CASE Others
  BY <1>16 DEF Moves
<1>17. CASE Pass
  BY <1>17 DEF Moves
<1>18. CASE UNCHANGED allVars
  BY <1>18 DEF Moves
<1> QED
  BY <1>1, <1>2, <1>3, <1>4, <1>5, <1>6, <1>7, <1>8, <1>9, <1>10, <1>11, <1>12, <1>13,
    <1>14, <1>16, <1>17, <1>18 DEF ScriptNext, ScriptStep

LEMMA Numeric ==
  /\ skew \in Skews => skew \in Int
  /\ PlanRead => Window \in Int
<1>1. skew \in Skews => skew \in Int
  BY ScriptAssumption
<1>2. \A p \in Plans : p.lockWindow \in Int
  BY ScriptAssumption
<1>3. LockWindow \in Int
  BY ScriptAssumption
<1> QED
  BY <1>1, <1>2, <1>3 DEF PlanRead, Window

(* The proof the script has fetched is of a snapshot that there is.        *)
LEMMA ProofFetched ==
  ASSUME Sited, pc > First
  PROVE  /\ Proof \in Snapshots /\ fixtureUsed = {Proof.fixture_id}
         /\ Market = MarketOf(Proof.fixture_id, Proof) /\ Market \in Terms
<1>1. PICK sn \in Snapshots : validation = {sn} /\ fixtureUsed = {sn.fixture_id}
  BY DEF Sited
<1>2. Proof = sn
  BY <1>1 DEF Proof
<1>3. (CHOOSE f \in fixtureUsed : TRUE) = sn.fixture_id
  BY <1>1
<1>4. Market = MarketOf(sn.fixture_id, sn)
  BY <1>2, <1>3 DEF Market
<1>5. MarketOf(sn.fixture_id, sn) \in Terms
  BY RequestAssumption
<1> QED
  BY <1>1, <1>2, <1>4, <1>5

LEMMA OpenedLater ==
  ASSUME Sited, Tracked
  PROVE  /\ Opening \in landed => pc >= Opening /\ pc > First /\ step.op # "fetch"
         /\ First \in Nat /\ Bets \in Nat /\ pc \in Nat
         /\ Opening = First + 2 /\ Waiting = First + 3 + Bets /\ Ending = Waiting + 4
<1>n. First \in 2 .. 4 /\ Bets \in Nat /\ Opening = First + 2 /\ Waiting = First + 3 + Bets
      /\ Ending = Waiting + 4
  BY Numbers DEF Sited
<1>1. step.op = "fetch" <=> pc = First
  BY Kinds DEF Sited
<1> QED
  BY <1>n, <1>1 DEF Sited, Tracked

(* Others neither create a market nor let time pass.                       *)
LEMMA OthersKeep ==
  ASSUME Others
  PROVE  /\ UNCHANGED <<script, plan, skew, pc, stage, validation, fixtureUsed, until, tx,
                        signatures, exit, landed, age>>
         /\ UNCHANGED <<created, terms, lock_ts, now>>
         /\ troubled' \in {troubled, TRUE}
         /\ \/ \E sn \in Snapshots : PublishRoot(sn)
            \/ \E n \in DepositAmounts, s \in Side : Deposit(Other, n, s)
            \/ ClaimPayout(Other)
            \/ LockMarket /\ troubled'
            \/ (\E sn \in Snapshots : Resolve(sn, 1, Some(2))) /\ troubled'
<1>1. CASE \E f \in fixtureUsed : \E sn \in Served(f) : PublishRoot(sn) /\ Untroubled
  BY <1>1 DEF Served, PublishRoot, Untroubled, scriptVars, marketVars
<1>2. CASE \E n \in DepositAmounts, s \in Side : Deposit(Other, n, s) /\ Untroubled
  BY <1>2 DEF Deposit, Untroubled, scriptVars
<1>3. CASE ClaimPayout(Other) /\ Untroubled
  BY <1>3 DEF ClaimPayout, Untroubled, scriptVars, marketVars
<1>4. CASE LockMarket /\ Interfere
  BY <1>4 DEF LockMarket, Interfere
<1>5. CASE \E sn \in Snapshots : Resolve(sn, 1, Some(2)) /\ Interfere
  BY <1>5 DEF Resolve, Interfere
<1> QED
  BY <1>1, <1>2, <1>3, <1>4, <1>5 DEF Others

LEMMA ClockedKept ==
  ASSUME Sited, Tracked, Clocked,
         UNCHANGED <<script, plan, skew, created, terms, lock_ts, landed>>,
         step.op # "fetch" => UNCHANGED validation,
         now' \in Nat, ~created => now' = IF pc' = Opening THEN age' ELSE 0,
         Awaiting' /\ step'.ix = "create_market" => tx'.lockTs = skew + Window
  PROVE  Clocked'
<1>1. Opening' = Opening /\ Window' = Window
  BY Same
<1>2. created => Proof' = Proof
  BY OpenedLater DEF Clocked, Proof
<1> QED
  BY <1>1, <1>2 DEF Clocked

LEMMA ClockedNext ==
  ASSUME Sited, Tracked, Clocked, [ScriptNext]_allVars
  PROVE  Clocked'
<1>m. Moves
  BY StepsMove
<1>u. /\ now \in Nat /\ (~created => now = IF pc = Opening THEN age ELSE 0)
      /\ Awaiting /\ step.ix = "create_market" => tx.lockTs = skew + Window
  BY DEF Clocked
<1>v. UNCHANGED vars => UNCHANGED <<created, terms, lock_ts, now>>
  BY DEF vars, marketVars
<1>n. ~Awaiting => tx = NoTx
  BY DEF Tracked
<1>c. ASSUME UNCHANGED <<script, plan, pc, stage, tx>>
      PROVE  Awaiting' = Awaiting /\ step' = step
  BY <1>c, Same DEF Awaiting
<1>d. ASSUME Advance, UNCHANGED <<script, plan>>
      PROVE  ~Awaiting'
  BY <1>d, Same, StageOrder DEF Awaiting, Advance, Sited, PlanRead
<1>q. pc = Opening => step.op = "tx"
  BY Numbers, TxPlaces DEF Sited, step
<1>1. CASE Throws \/ Ends \/ SetTimer
  <2>1. UNCHANGED <<vars, script, plan, skew, pc, stage, validation, tx, landed, age>>
    BY <1>1 DEF Throws, Throw, Ends, SetTimer
  <2> QED
    BY <1>c, <1>u, <1>v, <2>1, ClockedKept
<1>2. CASE GoesOn \/ Wake
  <2>1. /\ UNCHANGED <<vars, script, plan, skew, tx, landed>> /\ Advance
        /\ step.op # "fetch" => UNCHANGED validation
    BY <1>2 DEF GoesOn, Wake
  <2>2. step.op # "tx"
    BY <1>2 DEF GoesOn, Wake, Due, Sited
  <2>3. ~created => now' = IF pc' = Opening THEN age' ELSE 0
    BY <1>q, <1>u, <1>v, <2>1, <2>2 DEF Advance
  <2> QED
    BY <1>d, <1>u, <1>v, <2>1, <2>3, ClockedKept
<1>3. CASE Asked
  BY <1>3, <1>u, <1>v, ClockedKept DEF Asked
<1>4. CASE Sent
  <2>1. /\ step.op = "tx" /\ tx = NoTx /\ pc \notin landed
        /\ UNCHANGED <<vars, script, plan, skew, pc, validation, landed, age>>
    BY <1>4 DEF Sent
  <2>2. PICK t \in Built : tx' = t
    BY <1>4 DEF Sent
  <2>3. tx'.lockTs = ((now + skew) - age) + step.window /\ tx'.ix = step.ix
    BY <2>2 DEF Built, LockTs, Local
  <2>5. step.ix = "create_market" => tx'.lockTs = skew + Window
    <3>1. step.ix = "create_market" => pc = Opening /\ step.window = Window
      BY <2>1, TxKinds DEF Sited
    <3>2. step.ix = "create_market" => now = age
      BY <2>1, <3>1 DEF Clocked
    <3>3. skew \in Int /\ Window \in Int /\ age \in Nat
      BY Numeric DEF Sited
    <3> QED
      BY <2>3, <3>1, <3>2, <3>3
  <2>6. step' = step
    BY <2>1, Same
  <2> QED
    BY <1>u, <1>v, <2>1, <2>5, <2>6, ClockedKept
<1>5. CASE Confirmed
  <2>1. /\ UNCHANGED <<vars, script, plan, skew, pc, validation, tx, landed, age>> /\ Awaiting
    BY <1>5 DEF Confirmed
  <2>2. step' = step
    BY <2>1, Same
  <2> QED
    BY <1>u, <1>v, <2>1, <2>2, ClockedKept
<1>6. CASE Done
  <2>1. /\ UNCHANGED <<vars, script, plan, skew, validation, landed>> /\ Awaiting
        /\ pc \in landed /\ Advance /\ tx' = NoTx
    BY <1>6 DEF Done
  <2>2. ~created => now' = IF pc' = Opening THEN age' ELSE 0
    BY <1>u, <1>v, <2>1 DEF Clocked, Advance
  <2> QED
    BY <1>d, <1>u, <1>v, <2>1, <2>2, ClockedKept
<1>7. CASE Fails
  <2>1. PICK st \in {"reverted", "expired"} : TxEnds(st) /\ Awaiting
    BY <1>7 DEF Fails
  <2>2. /\ UNCHANGED <<vars, script, plan, skew, pc, stage, validation, landed, age>>
        /\ tx' = [tx EXCEPT !.status = st]
    BY <1>7, <2>1 DEF Fails, TxEnds
  <2>3. tx'.ix = tx.ix /\ tx'.lockTs = tx.lockTs
    <3>1. tx = [status |-> tx.status, pc |-> pc, ix |-> step.ix, by |-> step.by,
                side |-> step.side, amount |-> tx.amount, lockTs |-> tx.lockTs]
      BY <2>1 DEF Tracked
    <3> QED
      BY <2>2, <3>1
  <2>4. step' = step
    BY <2>2, Same
  <2> QED
    BY <1>u, <1>v, <2>1, <2>2, <2>3, <2>4, ClockedKept
<1>8. CASE Land
  <2>1. /\ Landing /\ Awaiting /\ step.op = "tx" /\ pc \notin landed
        /\ landed' = landed \cup {pc} /\ tx' = [tx EXCEPT !.status = "landed"]
        /\ UNCHANGED <<script, plan, skew, pc, stage, validation, fixtureUsed>>
    BY <1>8, Lands
  <2>2. /\ Opening' = Opening /\ Window' = Window /\ step' = step /\ Proof' = Proof
    BY <2>1, Same DEF Proof
  <2>3. tx'.ix = tx.ix /\ tx'.lockTs = tx.lockTs
    <3>1. tx = [status |-> tx.status, pc |-> pc, ix |-> step.ix, by |-> step.by,
                side |-> step.side, amount |-> tx.amount, lockTs |-> tx.lockTs]
      BY <2>1 DEF Tracked
    <3> QED
      BY <2>1, <3>1
  <2>n. First \in Nat /\ Bets \in Nat /\ pc \in Nat
        /\ Opening = First + 2 /\ Waiting = First + 3 + Bets
    BY OpenedLater
  <2>4. CASE pc = Opening /\ step.ix = "create_market" /\ InitMarket(Market, tx.lockTs)
    <3>1. created' /\ terms' = Market /\ lock_ts' = tx.lockTs /\ now' = now
      BY <2>4 DEF InitMarket
    <3>2. Market = MarketOf(Proof.fixture_id, Proof)
      BY <2>4, <2>n, ProofFetched
    <3>3. tx.lockTs = skew + Window /\ Opening \in landed'
      BY <1>u, <2>1, <2>4
    <3> QED
      BY <1>u, <2>1, <2>2, <2>3, <3>1, <3>2, <3>3 DEF Clocked
  <2>5. CASE pc # Opening
    <3>1. UNCHANGED <<created, terms, lock_ts, now>>
      BY <2>1, <2>5 DEF Landing, vars, marketVars, MintTo, Deposit, LockMarket, Resolve, ClaimPayout
    <3>2. Opening \in landed' <=> Opening \in landed
      BY <2>1, <2>5
    <3> QED
      BY <1>c, <1>u, <2>1, <2>2, <2>3, <3>1, <3>2 DEF Clocked, Awaiting
  <2> QED
    BY <2>1, <2>4, <2>5, <2>n DEF Landing
<1>9. CASE Others
  BY <1>9, <1>c, <1>u, OthersKeep, ClockedKept
<1>10. CASE Pass
  <2>1. /\ UNCHANGED <<script, plan, skew, pc, stage, validation, tx, landed>>
        /\ IF created \/ CreatesMarket THEN Tick ELSE UNCHANGED vars
        /\ (step.op = "tx" /\ age' = age + 1) \/ (until # {} /\ age' = age)
    BY <1>10 DEF Pass, At
  <2>2. UNCHANGED <<created, terms, lock_ts>> /\ now' \in Nat
    BY <1>u, <1>v, <2>1 DEF Tick, marketVars
  <2>3. ~created => now' = IF pc' = Opening THEN age' ELSE 0
    <3>1. pc = Opening => CreatesMarket /\ until = {}
      <4>1. pc = Opening => step.op = "tx"
        BY <1>q
      <4>2. step.op = "tx" => (step.ix = "create_market" <=> pc = Opening)
        BY OpenedLater, TxKinds DEF Sited
      <4> QED
        BY <4>1, <4>2 DEF CreatesMarket, Sited
    <3>2. pc # Opening => ~CreatesMarket
      BY TxKinds, OpenedLater DEF Sited, CreatesMarket
    <3>3. CASE pc = Opening
      BY <1>u, <2>1, <3>1, <3>3 DEF Tick
    <3>4. CASE pc # Opening
      BY <1>u, <1>v, <2>1, <3>2, <3>4
    <3> QED
      BY <3>3, <3>4
  <2> QED
    BY <1>c, <1>u, <2>1, <2>2, <2>3, ClockedKept
<1>11. CASE UNCHANGED allVars
  BY <1>11, <1>c, <1>u, <1>v, ClockedKept DEF allVars, scriptVars
<1> QED
  BY <1>m, <1>1, <1>2, <1>3, <1>4, <1>5, <1>6, <1>7, <1>8, <1>9, <1>10, <1>11 DEF Moves

LEMMA ClockedAlways == ScriptSpec => []Clocked
<1>1. ScriptInit => Clocked
  <2> SUFFICES ASSUME ScriptInit PROVE Clocked
    OBVIOUS
  <2>1. ~Awaiting
    BY TrackedInit DEF ScriptInit, Tracked, NoTx
  <2>2. created = FALSE /\ now = 0 /\ age = 0 /\ landed = {}
    BY DEF ScriptInit, Init
  <2> QED
    BY <2>1, <2>2 DEF Clocked
<1>2. Sited /\ Tracked /\ Clocked /\ [ScriptNext]_allVars => Clocked'
  BY ClockedNext
<1> QED
  BY <1>1, <1>2, SitedAlways, TrackedAlways, PTL DEF ScriptSpec

-----------------------------------------------------------------------------
(* The scripts, and everybody around them, only do what the program's      *)
(* specification allows: whatever a script is interrupted by, every step   *)
(* is a step of PariMarket or leaves it alone, so that all that is proved  *)
(* of the program holds of the market a script drives.                     *)
LEMMA StepImplements ==
  ASSUME Sited, Tracked, Clocked, [ScriptNext]_allVars
  PROVE  [Next]_vars
<1>m. Moves
  BY StepsMove
<1>w. Wallet1 \in Bettor /\ Wallet2 \in Bettor /\ Other \in Bettor /\ Yes \in Side /\ No \in Side
  BY ScriptAssumption DEF Side
<1>k. ASSUME NEW sn \in Snapshots
      PROVE  1 \in ResolveKeys /\ 2 \in ResolveKeys
  <2>1. MarketOf(sn.fixture_id, sn) \in Terms
    BY RequestAssumption
  <2>2. /\ MarketOf(sn.fixture_id, sn).stat_a_key = 1
        /\ MarketOf(sn.fixture_id, sn).stat_b_key = {2}
    BY DEF MarketOf, Some
  <2>3. {1} \cup {2} \in {{t.stat_a_key} \cup t.stat_b_key : t \in Terms}
    BY <2>1, <2>2
  <2> QED
    BY <2>3 DEF ResolveKeys
<1>r. ASSUME NEW sn \in Snapshots, Resolve(sn, 1, Some(2))
      PROVE  Next
  <2>1. 1 \in ResolveKeys /\ Some(2) \in {None} \cup {Some(k) : k \in ResolveKeys}
    BY <1>k
  <2> QED
    BY <1>r, <2>1 DEF Next, ResolveSome
<1>1. CASE UNCHANGED vars
  BY <1>1
<1>2. CASE Land
  <2>1. Landing /\ Awaiting
    BY <1>2, Lands
  <2>n. First \in Nat /\ Bets \in Nat /\ pc \in Nat
        /\ Opening = First + 2 /\ Waiting = First + 3 + Bets
    BY OpenedLater
  <2>2. CASE MintTo(Wallet1, 10)
    BY <1>w, <2>2, RequestAssumption DEF Next
  <2>3. CASE pc = Opening /\ step.ix = "create_market" /\ InitMarket(Market, tx.lockTs)
    <3>1. Market \in Terms
      BY <2>3, <2>n, ProofFetched
    <3>2. tx.lockTs = skew + Window /\ now \in Nat
      BY <2>1, <2>3 DEF Clocked
    <3>3. skew + Window > 0
      <4>1. skew + Window > now
        BY <2>3, <3>2 DEF InitMarket, InitMarketAdmits
      <4>2. skew \in Int /\ Window \in Int
        BY Numeric DEF Sited
      <4> QED
        BY <3>2, <4>1, <4>2
    <3>4. skew \in Skews /\ Window \in {LockWindow} \cup {p.lockWindow : p \in Plans}
      BY DEF Sited, PlanRead, Window
    <3>5. skew + Window \in LockTimes
      BY <3>3, <3>4, RequestAssumption
    <3> QED
      BY <2>3, <3>1, <3>2, <3>5 DEF Next
  <2>4. CASE /\ pc \in Opening + 1 .. Waiting - 1
             /\ tx.amount \in (IF script = "m5" THEN Draws ELSE {1})
             /\ Deposit(Wallet1, tx.amount, Yes) \/ Deposit(Wallet2, tx.amount, No)
    <3>1. tx.amount \in DepositAmounts
      BY <2>4, RequestAssumption
    <3> QED
      BY <1>w, <2>4, <3>1 DEF Next
  <2>5. CASE LockMarket \/ ClaimPayout(Wallet1)
    BY <1>w, <2>5 DEF Next
  <2>6. CASE pc = Waiting + 2 /\ Resolve(Proof, 1, Some(2))
    <3>1. Proof \in Snapshots
      BY <2>6, <2>n, ProofFetched
    <3> QED
      BY <1>r, <2>6, <3>1
  <2> QED
    BY <2>1, <2>2, <2>3, <2>4, <2>5, <2>6 DEF Landing
<1>3. CASE Others
  <2>1. \/ \E sn \in Snapshots : PublishRoot(sn)
        \/ \E n \in DepositAmounts, s \in Side : Deposit(Other, n, s)
        \/ ClaimPayout(Other)
        \/ LockMarket
        \/ \E sn \in Snapshots : Resolve(sn, 1, Some(2))
    BY <1>3, OthersKeep
  <2>2. CASE \E sn \in Snapshots : Resolve(sn, 1, Some(2))
    BY <1>r, <2>2
  <2>3. CASE \/ \E sn \in Snapshots : PublishRoot(sn)
             \/ \E n \in DepositAmounts, s \in Side : Deposit(Other, n, s)
             \/ ClaimPayout(Other)
             \/ LockMarket
    BY <1>w, <2>3 DEF Next
  <2> QED
    BY <2>1, <2>2, <2>3
<1>4. CASE Pass
  BY <1>4 DEF Pass, Next
<1> QED
  BY <1>m, <1>1, <1>2, <1>3, <1>4 DEF Moves, Throws, Throw, Ends, GoesOn, Asked, Sent,
    Confirmed, Done, Fails, SetTimer, Wake, allVars

LEMMA ScriptsImplementProgram == ScriptSpec => Spec
<1>1. ScriptInit => Init
  BY DEF ScriptInit
<1>2. Sited /\ Tracked /\ Clocked /\ [ScriptNext]_allVars => [Next]_vars
  BY StepImplements
<1> QED
  BY <1>1, <1>2, SitedAlways, TrackedAlways, ClockedAlways, PTL DEF ScriptSpec, Spec

-----------------------------------------------------------------------------
(* What the transactions of the script have made of the market.            *)
Linked ==
  /\ opened[Wallet1] => side[Wallet1] = Yes
  /\ opened[Wallet2] => side[Wallet2] = No
  /\ Opening + 1 \in landed => opened[Wallet1]
  /\ Waiting + 1 \in landed => locked
  /\ Waiting + 2 \in landed => resolved /\ outcome = Yes
  /\ claimed[Wallet1] <=> Waiting + 3 \in landed

(* The proof a market was made for meets its predicate.                    *)
LEMMA ProofHolds ==
  ASSUME NEW sn \in Snapshots
  PROVE  Holds(MarketOf(sn.fixture_id, sn), sn)
<1> DEFINE t == MarketOf(sn.fixture_id, sn)
           a == sn.stat[1]
           b == sn.stat[2]
<1>1. /\ t.stat_a_key = 1 /\ t.stat_b_key = {2} /\ t.op = {"Subtract"}
      /\ t.comparison = "GreaterThan" /\ t.threshold = a - b - 1
  BY DEF MarketOf, Some
<1>2. a \in Int /\ b \in Int
  BY RequestAssumption
<1>3. (CHOOSE k \in {2} : TRUE) = 2
  OBVIOUS
<1>4. {2} # {} /\ {"Subtract"} # {"Add"}
  OBVIOUS
<1>5. Statistic(t.op, t.stat_a_key, t.stat_b_key, sn) = a - b
  BY <1>1, <1>3, <1>4 DEF Statistic, None, Some
<1>6. Statistic(t.op, t.stat_a_key, t.stat_b_key, sn) > t.threshold
  BY <1>1, <1>2, <1>5
<1> QED
  BY <1>1, <1>6 DEF Holds, HoldsOf

LEMMA LinkedKept ==
  ASSUME Linked, Opening' = Opening, Waiting' = Waiting, UNCHANGED <<landed, locked, resolved, outcome>>,
         UNCHANGED <<opened, side, claimed>>
  PROVE  Linked'
  BY DEF Linked

LEMMA LinkedNext ==
  ASSUME Sited, Tracked, Clocked, TypeOK, Linked, [ScriptNext]_allVars
  PROVE  Linked'
<1>m. Moves
  BY StepsMove
<1>w. /\ Wallet1 \in Bettor /\ Wallet2 \in Bettor /\ Other \in Bettor
      /\ Wallet1 # Wallet2 /\ Wallet1 # Other /\ Wallet2 # Other
  BY ScriptAssumption
<1>t. /\ opened \in [Bettor -> BOOLEAN] /\ side \in [Bettor -> Side]
      /\ claimed \in [Bettor -> BOOLEAN]
  BY DEF TypeOK
<1>n. First \in Nat /\ Bets \in Nat /\ pc \in Nat
      /\ Opening = First + 2 /\ Waiting = First + 3 + Bets
  BY OpenedLater
<1>l. landed \subseteq 1 .. pc
  BY DEF Tracked
<1>v. UNCHANGED vars => UNCHANGED <<locked, resolved, outcome, opened, side, claimed>>
  BY DEF vars, marketVars, positionVars
<1>1. CASE UNCHANGED vars /\ UNCHANGED <<script, plan, landed>>
  BY <1>1, <1>v, Same, LinkedKept
<1>2. CASE Land
  <2>1. /\ Landing /\ pc \notin landed /\ landed' = landed \cup {pc}
        /\ UNCHANGED <<script, plan, skew, pc, stage, validation, fixtureUsed>>
    BY <1>2, Lands
  <2>2. /\ Opening' = Opening /\ Waiting' = Waiting
    BY <2>1, Same
  <2>3. CASE pc < First /\ (UNCHANGED vars \/ MintTo(Wallet1, 10))
    <3>1. UNCHANGED <<locked, resolved, outcome, opened, side, claimed>>
      BY <1>v, <2>3 DEF MintTo, marketVars, positionVars
    <3>2. /\ pc # Opening + 1 /\ pc # Waiting + 1 /\ pc # Waiting + 2
          /\ pc # Waiting + 3
      BY <1>n, <2>3
    <3> QED
      BY <2>1, <2>2, <3>1, <3>2 DEF Linked
  <2>4. CASE pc = Opening /\ InitMarket(Market, tx.lockTs)
    <3>1. UNCHANGED <<opened, side, claimed>>
      BY <2>4 DEF InitMarket, positionVars
    <3>2. /\ pc # Opening + 1 /\ pc # Waiting + 1 /\ pc # Waiting + 2 /\ pc # Waiting + 3
          /\ Waiting + 1 \notin landed /\ Waiting + 2 \notin landed
      BY <1>l, <1>n, <2>4
    <3> QED
      BY <2>1, <2>2, <3>1, <3>2 DEF Linked
  <2>5. CASE /\ pc \in Opening + 1 .. Waiting - 1
             /\ \/ Deposit(Wallet1, tx.amount, Yes)
                \/ Deposit(Wallet2, tx.amount, No) /\ pc # Opening + 1
    <3>1. UNCHANGED <<locked, resolved, outcome, claimed>>
      BY <2>5 DEF Deposit
    <3>2. pc # Waiting + 1 /\ pc # Waiting + 2 /\ pc # Waiting + 3
      BY <1>n, <2>5
    <3>3. CASE Deposit(Wallet1, tx.amount, Yes)
      <4>1. /\ opened'[Wallet1] /\ side'[Wallet1] = Yes
            /\ opened'[Wallet2] = opened[Wallet2] /\ side'[Wallet2] = side[Wallet2]
        BY <1>w, <1>t, <3>3 DEF Deposit
      <4> QED
        BY <2>1, <2>2, <3>1, <3>2, <4>1 DEF Linked
    <3>4. CASE Deposit(Wallet2, tx.amount, No) /\ pc # Opening + 1
      <4>1. /\ opened'[Wallet1] = opened[Wallet1] /\ side'[Wallet1] = side[Wallet1]
            /\ side'[Wallet2] = No
        BY <1>w, <1>t, <3>4 DEF Deposit
      <4> QED
        BY <2>1, <2>2, <3>1, <3>2, <3>4, <4>1 DEF Linked
    <3> QED
      BY <2>5, <3>3, <3>4
  <2>6. CASE pc = Waiting + 1 /\ LockMarket
    <3>1. UNCHANGED <<resolved, outcome, opened, side, claimed>> /\ locked'
      BY <2>6 DEF LockMarket, positionVars
    <3>2. pc # Opening + 1 /\ pc # Waiting + 2 /\ pc # Waiting + 3
      BY <1>n, <2>6
    <3> QED
      BY <2>1, <2>2, <3>1, <3>2 DEF Linked
  <2>7. CASE pc = Waiting + 2 /\ Resolve(Proof, 1, Some(2))
    <3>1. UNCHANGED <<locked, opened, side, claimed>> /\ resolved'
      BY <2>7 DEF Resolve, positionVars
    <3>2. pc # Opening + 1 /\ pc # Waiting + 1 /\ pc # Waiting + 3
      BY <1>n, <2>7
    <3>3. outcome' = Yes
      <4>1. PICK data \in ReturnData(terms, 1, Some(2), Proof) :
              Decode(data) # Unknown /\ outcome' = Decode(data)
        BY <2>7 DEF Resolve
      <4>2. outcome' = IF Holds(terms, Proof) THEN Yes ELSE No
        BY <2>7, <4>1, DecodedIsAnswer DEF Resolve, ResolveAdmits
      <4>3. created
        BY <2>7 DEF Resolve, ResolveAdmits
      <4>4. terms = MarketOf(Proof.fixture_id, Proof)
        BY <4>3 DEF Clocked
      <4>5. Proof \in Snapshots
        BY <1>n, <2>7, ProofFetched
      <4>6. Holds(terms, Proof)
        BY <4>4, <4>5, ProofHolds
      <4> QED
        BY <4>2, <4>6
    <3> QED
      BY <2>1, <2>2, <3>1, <3>2, <3>3 DEF Linked
  <2>8. CASE pc = Waiting + 3 /\ ClaimPayout(Wallet1)
    <3>1. UNCHANGED <<locked, resolved, outcome, opened, side>> /\ claimed'[Wallet1]
      BY <1>t, <1>w, <2>8 DEF ClaimPayout, marketVars
    <3>2. pc # Opening + 1 /\ pc # Waiting + 1 /\ pc # Waiting + 2
      BY <1>n, <2>8
    <3> QED
      BY <2>1, <2>2, <2>8, <3>1, <3>2 DEF Linked
  <2> QED
    BY <2>1, <2>3, <2>4, <2>5, <2>6, <2>7, <2>8 DEF Landing
<1>3. CASE Others
  <2>1. UNCHANGED <<script, plan, landed>>
    BY <1>3, OthersKeep
  <2>2. /\ Opening' = Opening /\ Waiting' = Waiting
    BY <2>1, Same
  <2>3. /\ UNCHANGED <<opened[Wallet1], side[Wallet1], claimed[Wallet1]>>
        /\ UNCHANGED <<opened[Wallet2], side[Wallet2]>>
        /\ resolved => UNCHANGED <<resolved, outcome>>
        /\ locked => locked'
    <3>1. CASE \E sn \in Snapshots : PublishRoot(sn)
      BY <3>1 DEF PublishRoot, marketVars, positionVars
    <3>2. CASE \E n \in DepositAmounts, s \in Side : Deposit(Other, n, s)
      BY <1>w, <1>t, <3>2 DEF Deposit
    <3>3. CASE ClaimPayout(Other)
      BY <1>w, <1>t, <3>3 DEF ClaimPayout, marketVars
    <3>4. CASE LockMarket
      BY <3>4 DEF LockMarket, positionVars
    <3>5. CASE \E sn \in Snapshots : Resolve(sn, 1, Some(2))
      <4>1. UNCHANGED <<locked, opened, side, claimed>> /\ ~resolved
        BY <3>5 DEF Resolve, ResolveAdmits, positionVars
      <4> QED
        BY <4>1
    <3> QED
      BY <1>3, <3>1, <3>2, <3>3, <3>4, <3>5, OthersKeep
  <2> QED
    BY <2>1, <2>2, <2>3 DEF Linked
<1>4. CASE Pass
  <2>1. UNCHANGED <<locked, resolved, outcome, opened, side, claimed>>
    BY <1>4, <1>v DEF Pass, Tick, marketVars, positionVars
  <2> QED
    BY <1>4, <2>1, Same, LinkedKept DEF Pass
<1> QED
  BY <1>m, <1>1, <1>2, <1>3, <1>4 DEF Moves, Throws, Throw, Ends, GoesOn, Asked, Sent,
    Confirmed, Done, Fails, TxEnds, SetTimer, Wake, allVars, scriptVars

LEMMA LinkedAlways == ScriptSpec => []Linked
<1>1. ScriptInit => Linked
  BY ScriptAssumption DEF ScriptInit, Init, Linked
<1>2. Sited /\ Tracked /\ Clocked /\ TypeOK /\ Linked /\ [ScriptNext]_allVars => Linked'
  BY LinkedNext
<1> QED
  BY <1>1, <1>2, SitedAlways, TrackedAlways, ClockedAlways, ScriptsImplementProgram,
    TypeCorrect, PTL DEF ScriptSpec

(* Who bets alone, on the side that wins, gets its stake and no more.      *)
LEMMA OnlyBettor ==
  ASSUME SInv, NEW b \in Bettor, opened[b], side[b] = Yes, outcome = Yes,
         Backers(Yes) \cup Backers(No) = {b}
  PROVE  Payout(b) = amount[b]
<1>1. amount[b] \in U64 /\ amount[b] \in Nat /\ amount[b] > 0
  BY U64Nat DEF SInv, IInv, TypeOK, OpenedStaked
<1>2. b \in Backers(Yes) /\ b \notin Backers(No)
  BY DEF Backers, Yes, No
<1>3. Backers(Yes) = {b} /\ Backers(No) = {}
  BY <1>2
<1>4. yes_pool = amount[b]
  BY <1>1, <1>3, TotalOfSingle DEF SInv, IInv, PoolsMatchPositions
<1>5. no_pool = 0
  BY <1>3, TotalOfZero DEF SInv, IInv, PoolsMatchPositions
<1>6. WinningPool = amount[b] /\ TotalPool = amount[b]
  BY <1>1, <1>4, <1>5 DEF WinningPool, TotalPool
<1>7. (amount[b] * amount[b]) \div amount[b] = amount[b]
  <2> DEFINE n == amount[b]
  <2>1. n * n \in Nat
    BY <1>1, ProductNat
  <2>2. (n * n) \div n \in Nat
    BY <1>1, <2>1, DivBounds
  <2>3. (n * n) \div n <= n
    BY <1>1, <2>1, DivAtMost
  <2>4. n <= (n * n) \div n
    BY <1>1, <2>1, DivAtLeast
  <2> QED
    BY <1>1, <2>2, <2>3, <2>4
<1> QED
  BY <1>1, <1>6, <1>7 DEF Payout

(* A script says PASS only of a market that has paid: every transaction    *)
(* of it has landed, the one whose signature is not recorded too, the      *)
(* market is resolved YES, wallet 1 has its stake back, and exactly that   *)
(* when nobody else has bet; whatever others did in between.               *)
THEOREM PassMeansPaid == ScriptSpec => []PassMeansSettled
<1>1. Sited /\ Tracked /\ Linked /\ SInv /\ ClaimsPayEntitlement => PassMeansSettled
  <2> SUFFICES ASSUME Sited, Tracked, Linked, SInv, ClaimsPayEntitlement,
                      step.op = "recheck"
               PROVE  /\ \A i \in DOMAIN program : program[i].op = "tx" => i \in landed
                      /\ resolved /\ outcome = Yes
                      /\ claimed[Wallet1] /\ received[Wallet1] >= amount[Wallet1]
                      /\ Backers(Yes) \cup Backers(No) = {Wallet1}
                           => received[Wallet1] = amount[Wallet1]
    BY DEF PassMeansSettled
  <2>n. First \in 2 .. 4 /\ Bets \in Nat
        /\ Opening = First + 2 /\ Waiting = First + 3 + Bets /\ Ending = Waiting + 4
    BY Numbers DEF Sited
  <2>1. pc = Ending /\ pc # 1
    BY <2>n, Kinds DEF Sited
  <2>2. /\ program[Opening + 1].op = "tx" /\ program[Waiting + 2].op = "tx"
        /\ program[Waiting + 3].op = "tx" /\ program[Ending].op = "recheck"
        /\ DOMAIN program = 1 .. Ending
    BY <2>1, TxPlaces DEF Sited
  <2>3. \A i \in DOMAIN program : program[i].op = "tx" => i \in landed
    <3> SUFFICES ASSUME NEW i \in 1 .. Ending, program[i].op = "tx"
                 PROVE  i \in landed
      BY <2>2
    <3>1. i \in 1 .. pc - 1
      BY <2>n, <2>1, <2>2
    <3> QED
      BY <3>1 DEF Tracked
  <2>4. Opening + 1 \in landed /\ Waiting + 2 \in landed /\ Waiting + 3 \in landed
    <3>1. /\ Opening + 1 \in 1 .. Ending /\ Waiting + 2 \in 1 .. Ending
          /\ Waiting + 3 \in 1 .. Ending
      BY <2>n
    <3> QED
      BY <2>2, <2>3, <3>1
  <2>5. /\ resolved /\ outcome = Yes /\ claimed[Wallet1] /\ opened[Wallet1]
        /\ side[Wallet1] = Yes
    BY <2>4 DEF Linked
  <2>6. /\ received[Wallet1] = Payout(Wallet1) /\ received[Wallet1] >= amount[Wallet1]
        /\ Wallet1 \in Bettor
    BY <2>5, ScriptAssumption DEF ClaimsPayEntitlement
  <2>7. Backers(Yes) \cup Backers(No) = {Wallet1} => Payout(Wallet1) = amount[Wallet1]
    BY <2>5, <2>6, OnlyBettor
  <2> QED
    BY <2>3, <2>5, <2>6, <2>7
<1> QED
  BY <1>1, SitedAlways, TrackedAlways, LinkedAlways, StakesStay, PaidInFull,
    ScriptsImplementProgram, PTL

-----------------------------------------------------------------------------
(* The clocks: the chain's starts with create_market, a pause ends when it *)
(* is due, and the wait when the lock time has come by the chain's clock.  *)
Timed ==
  /\ pc = Opening => now <= age
  /\ step.op = "pause" => \A t \in until : t \in Int /\ Local <= t
  /\ step.op = "wait" => \A t \in until : t = lock_ts + LockBuffer
  /\ pc > Waiting /\ InStep => now >= lock_ts

LEMMA TimedKept ==
  ASSUME Timed, UNCHANGED <<script, plan, skew, pc, until, age, now, lock_ts>>
  PROVE  Timed'
<1>1. Opening' = Opening /\ Waiting' = Waiting /\ step' = step
  BY Same
<1> QED
  BY <1>1 DEF Timed, Local, InStep

LEMMA TimedNext ==
  ASSUME Sited, Tracked, Clocked, TypeOK, Timed, [ScriptNext]_allVars
  PROVE  Timed'
<1>m. Moves
  BY StepsMove
<1>n. First \in Nat /\ Bets \in Nat /\ pc \in Nat
      /\ Opening = First + 2 /\ Waiting = First + 3 + Bets
  BY OpenedLater
<1>i. /\ now \in Nat /\ lock_ts \in Nat /\ age \in Nat /\ skew \in Int
      /\ LockBuffer \in Nat
  BY Numeric, ScriptAssumption DEF TypeOK, Clocked, Sited
<1>k. /\ step.op \in {"plan", "setup"} => pc < First
      /\ step.op = "fetch" <=> pc = First
      /\ step.op = "root" <=> pc = First + 1
      /\ step.op = "wait" <=> pc = Waiting
      /\ step.op = "wait" => step.buffer = LockBuffer
      /\ step.op = "pause" => \E j \in 1 .. Bets : pc = Opening + j /\ step = BetAt(j)
  BY Kinds DEF Sited
<1>v. UNCHANGED vars => UNCHANGED <<now, lock_ts>>
  BY DEF vars, marketVars
<1>o. step.op \notin {"pause", "wait"} => until = {}
  BY DEF Sited
<1>a. ASSUME Advance, UNCHANGED <<script, plan, skew, now, lock_ts>>, until' = {},
             pc' = Opening => now = 0, pc' > Waiting /\ InStep => now >= lock_ts
      PROVE  Timed'
  <2>1. Opening' = Opening /\ Waiting' = Waiting /\ age' = 0
    BY <1>a, Same DEF Advance
  <2> QED
    BY <1>a, <2>1 DEF Timed, InStep
<1>1. CASE Throws \/ Ends \/ Asked \/ Sent \/ Confirmed \/ Fails \/ UNCHANGED allVars
  <2>1. UNCHANGED <<vars, script, plan, skew, pc, until, age>>
    BY <1>1 DEF Throws, Throw, Ends, Asked, Sent, Confirmed, Fails, TxEnds, allVars, scriptVars
  <2> QED
    BY <1>v, <2>1, TimedKept
<1>2. CASE GoesOn
  <2>1. /\ step.op \in {"plan", "setup", "fetch", "root"} /\ tx = NoTx /\ Advance
        /\ UNCHANGED <<vars, script, plan, skew>> /\ until' = {}
    BY <1>2 DEF GoesOn
  <2>2. pc < Opening /\ pc' = pc + 1
    BY <1>k, <1>n, <2>1 DEF Advance
  <2>3. now = 0
    <3>1. ~created
      BY <1>n, <2>2 DEF Clocked, Tracked
    <3> QED
      BY <1>n, <2>2, <3>1 DEF Clocked
  <2>4. ~(pc' > Waiting)
    BY <1>n, <2>2
  <2> QED
    BY <1>a, <1>v, <2>1, <2>3, <2>4
<1>3. CASE Done
  <2>1. /\ step.op = "tx" /\ Advance /\ UNCHANGED <<vars, script, plan, skew>> /\ until' = {}
    BY <1>3, <1>o DEF Done, Awaiting
  <2>2. pc # First + 1 /\ pc # Waiting
    BY <1>k, <2>1
  <2>3. pc' = pc + 1 /\ pc' # Opening
    BY <1>n, <2>1, <2>2 DEF Advance
  <2>4. pc' > Waiting /\ InStep => now >= lock_ts
    <3>1. pc' > Waiting => pc > Waiting
      BY <1>n, <2>2, <2>3
    <3> QED
      BY <3>1 DEF Timed
  <2> QED
    BY <1>a, <1>v, <2>1, <2>3, <2>4
<1>4. CASE SetTimer
  <2>1. /\ UNCHANGED <<vars, script, plan, skew, pc, age>>
        /\ \E t \in IF step.op = "wait" THEN {lock_ts + step.buffer}
                    ELSE {Local + k : k \in step.range} : until' = {t}
        /\ step.op \in {"pause", "wait"}
    BY <1>4 DEF SetTimer
  <2>2. step.op = "wait" => until' = {lock_ts + LockBuffer}
    BY <1>k, <2>1
  <2>3. step.op = "pause" => \A t \in until' : t \in Int /\ Local <= t
    <3> SUFFICES ASSUME step.op = "pause" PROVE \A t \in until' : t \in Int /\ Local <= t
      OBVIOUS
    <3>1. PICK j \in 1 .. Bets : pc = Opening + j /\ step = BetAt(j)
      BY <1>k
    <3>2. script = "m5" /\ step.range = plan.sleepMin .. plan.sleepMax
      <4>1. BetAt(j).op = "pause"
        BY <3>1
      <4> QED
        BY <3>1, <4>1, BetFields DEF Sited
    <3>3. plan.sleepMin \in Int /\ plan.sleepMax \in Int /\ plan.sleepMin > 0
      <4>1. plan \in Plans /\ PlanAccepted(plan)
        BY <1>n, <3>1, <3>2 DEF Sited, PlanRead
      <4> QED
        BY <4>1, ScriptAssumption DEF PlanAccepted
    <3>4. PICK k \in plan.sleepMin .. plan.sleepMax : until' = {Local + k}
      BY <2>1, <3>2
    <3>5. Local \in Int /\ k \in Int /\ k > 0
      BY <1>i, <3>3 DEF Local
    <3> QED
      BY <3>4, <3>5
  <2>4. Opening' = Opening /\ Waiting' = Waiting /\ step' = step /\ Local' = Local
    BY <1>v, <2>1, Same DEF Local
  <2> QED
    BY <1>v, <2>1, <2>2, <2>3, <2>4 DEF Timed, InStep
<1>5. CASE Wake
  <2>1. /\ Advance /\ UNCHANGED <<vars, script, plan, skew>> /\ until' = {}
        /\ \E t \in until : Local >= t
    BY <1>5 DEF Wake, Due
  <2>2. step.op \in {"pause", "wait"}
    BY <1>o, <2>1
  <2>3. pc' = pc + 1 /\ pc' # Opening
    BY <1>k, <1>n, <2>1, <2>2 DEF Advance
  <2>4. pc' > Waiting /\ InStep => now >= lock_ts
    <3>1. CASE pc = Waiting
      <4>1. Local >= lock_ts + LockBuffer
        BY <1>k, <2>1, <3>1 DEF Timed
      <4> QED
        BY <1>i, <4>1 DEF Local, InStep
    <3>2. CASE pc # Waiting
      <4>1. pc' > Waiting => pc > Waiting
        BY <1>n, <2>3, <3>2
      <4> QED
        BY <4>1 DEF Timed
    <3> QED
      BY <3>1, <3>2
  <2> QED
    BY <1>a, <1>v, <2>1, <2>3, <2>4
<1>6. CASE Land
  <2>1. /\ Landing /\ step.op = "tx"
        /\ UNCHANGED <<script, plan, skew, pc, until, age>>
    BY <1>6, Lands
  <2>2. now' = now /\ (pc # Opening => lock_ts' = lock_ts)
    BY <2>1 DEF Landing, vars, marketVars, MintTo, InitMarket, Deposit, LockMarket, Resolve,
      ClaimPayout
  <2>3. Opening' = Opening /\ Waiting' = Waiting /\ step' = step
    BY <2>1, Same
  <2>4. pc = Opening => ~(pc > Waiting)
    BY <1>n
  <2> QED
    BY <2>1, <2>2, <2>3, <2>4 DEF Timed, InStep
<1>7. CASE Others
  BY <1>7, OthersKeep, TimedKept
<1>8. CASE Pass
  <2>1. /\ UNCHANGED <<script, plan, skew, pc, until, lock_ts>>
        /\ now' \in {now, now + 1}
    BY <1>8, <1>v DEF Pass, Tick, marketVars
  <2>2. Opening' = Opening /\ Waiting' = Waiting /\ step' = step
    BY <2>1, Same
  <2>3. now' >= now
    BY <1>i, <2>1
  <2>4. CASE step.op = "tx" /\ age' = age + 1
    <3>1. pc = Opening => now' <= age'
      BY <1>i, <2>1, <2>4 DEF Timed
    <3> QED
      BY <1>i, <2>1, <2>2, <2>3, <2>4, <3>1 DEF Timed, InStep
  <2>5. CASE until # {} /\ ~Due /\ age' = age
    <3>1. step.op \in {"pause", "wait"} /\ pc # Opening
      BY <1>o, <1>k, <1>n, <2>5
    <3>2. step.op = "pause" => \A t \in until : t \in Int /\ Local' <= t
      BY <1>i, <2>1, <2>5 DEF Timed, Due, Local
    <3> QED
      BY <1>i, <2>1, <2>2, <2>3, <3>1, <3>2 DEF Timed, InStep
  <2> QED
    BY <1>8, <2>4, <2>5 DEF Pass, At
<1> QED
  BY <1>m, <1>1, <1>2, <1>3, <1>4, <1>5, <1>6, <1>7, <1>8 DEF Moves

LEMMA TimedAlways == ScriptSpec => []Timed
<1>1. ScriptInit => Timed
  <2> SUFFICES ASSUME ScriptInit PROVE Timed
    OBVIOUS
  <2>1. First \in 2 .. 4 /\ Bets \in Nat /\ Opening = First + 2 /\ Waiting = First + 3 + Bets
    BY SitedInit, Numbers DEF Sited
  <2> QED
    BY <2>1 DEF ScriptInit, Timed
<1>2. Sited /\ Tracked /\ Clocked /\ TypeOK /\ Timed /\ [ScriptNext]_allVars => Timed'
  BY TimedNext
<1> QED
  BY <1>1, <1>2, SitedAlways, TrackedAlways, ClockedAlways, ScriptsImplementProgram,
    TypeCorrect, PTL DEF ScriptSpec

-----------------------------------------------------------------------------
(* The wallets of the script hold what its bets still need: m5 may draw    *)
(* any amount for each of the bets to come from any of the two wallets.    *)
After(j) == plan.nDeposits - (j + 1) \div 2
ToCome == IF pc <= Opening THEN plan.nDeposits
          ELSE After(pc - Opening)
                 + (IF (pc - Opening) % 2 = 1 /\ pc \notin landed THEN 1 ELSE 0)
Supported ==
  /\ script = "m3" => /\ Opening + 1 \notin landed => wallet[Wallet1] >= 1
                      /\ Opening + 2 \notin landed => wallet[Wallet2] >= 1
  /\ script = "devnet" =>
       /\ 3 \in landed /\ Opening + 1 \notin landed => wallet[Wallet1] >= 1
       /\ 3 \notin landed => MintAdmits(10)
  /\ script = "m5" /\ PlanAccepted(plan) /\ pc < Waiting =>
       \A d \in Draws : ToCome * d <= wallet[Wallet1] /\ ToCome * d <= wallet[Wallet2]

(* Whatever the next draw is, the rest can still be paid.                  *)
LEMMA DrawLeaves ==
  ASSUME NEW t \in Nat, t >= 1, NEW w \in Nat, NEW d \in Nat, NEW e \in Nat,
         t * d <= w, t * e <= w
  PROVE  (t - 1) * d <= w - e
<1>1. t * d = (t - 1) * d + d /\ t * e = (t - 1) * e + e
  OBVIOUS
<1>2. (t - 1) * d \in Int /\ (t - 1) * e \in Int /\ t - 1 \in Nat
  OBVIOUS
<1>3. CASE d >= e
  BY <1>1, <1>2, <1>3
<1>4. CASE d < e
  <2>1. (t - 1) * d <= (t - 1) * e
    <3>1. d * (t - 1) <= (t - 1) * e
      BY <1>2, <1>4, MulMono
    <3>2. d * (t - 1) = (t - 1) * d
      BY <1>2
    <3> QED
      BY <3>1, <3>2
  <2> QED
    BY <1>1, <1>2, <2>1
<1> QED
  BY <1>3, <1>4

LEMMA FewerNeed ==
  ASSUME NEW t \in Nat, NEW u \in Nat, u <= t, NEW d \in Nat, NEW w \in Nat, t * d <= w
  PROVE  u * d <= w
<1>1. u * d <= d * t
  BY MulMono
<1>2. d * t = t * d /\ u * d \in Nat /\ t * d \in Nat
  OBVIOUS
<1> QED
  BY <1>1, <1>2

LEMMA SomeDeposits ==
  ASSUME Sited, script = "m5", PlanAccepted(plan)
  PROVE  plan.nDeposits \in Nat /\ plan.nDeposits >= 1
  BY ScriptAssumption DEF PlanAccepted, Sited, PlanRead

LEMMA ToComeCounts ==
  ASSUME Sited, Tracked, script = "m5", PlanAccepted(plan), pc < Waiting
  PROVE  /\ ToCome \in Nat
         /\ pc > Opening /\ (pc - Opening) % 2 = 1 /\ pc \notin landed => ToCome >= 1
<1>1. plan.nDeposits \in Nat /\ plan.nDeposits >= 1
  BY SomeDeposits
<1>2. First \in Nat /\ Bets \in Nat /\ pc \in Nat /\ Opening = First + 2 /\ Waiting = First + 3 + Bets
  BY OpenedLater
<1>3. Bets = 2 * plan.nDeposits - 1
  BY DEF Bets
<1>4. pc > Opening => After(pc - Opening) >= 0 /\ After(pc - Opening) \in Int
  BY <1>1, <1>2, <1>3 DEF After
<1> QED
  BY <1>1, <1>2, <1>4 DEF ToCome

LEMMA SupportedKept ==
  ASSUME Supported, UNCHANGED <<script, plan, pc, landed>>,
         UNCHANGED <<wallet[Wallet1], wallet[Wallet2]>>,
         script = "devnet" /\ 3 \notin landed => UNCHANGED <<wallet, vault>>
  PROVE  Supported'
<1>1. Opening' = Opening /\ Waiting' = Waiting
  BY Same
<1>2. ToCome' = ToCome
  BY <1>1 DEF ToCome, After
<1> QED
  BY <1>1, <1>2 DEF Supported, MintAdmits

LEMMA SupportedAdvances ==
  ASSUME Sited, Tracked, Supported, TypeOK, Advance, UNCHANGED <<script, plan, landed>>,
         UNCHANGED <<wallet, vault>>, Tracked', Sited',
         script = "m5" /\ pc > Opening /\ pc < Waiting /\ (pc - Opening) % 2 = 1
           => pc \in landed
  PROVE  Supported'
<1>1. Opening' = Opening /\ Waiting' = Waiting /\ pc' = pc + 1
  BY Same DEF Advance
<1>n. First \in Nat /\ Bets \in Nat /\ pc \in Nat /\ Opening = First + 2 /\ Waiting = First + 3 + Bets
  BY OpenedLater
<1>2. ASSUME script = "m5", PlanAccepted(plan), pc' < Waiting, NEW d \in Draws
      PROVE  ToCome' * d <= wallet[Wallet1] /\ ToCome' * d <= wallet[Wallet2]
  <2>1. ToCome \in Nat /\ ToCome' \in Nat
    <3>1. ToCome \in Nat
      BY <1>1, <1>n, <1>2, ToComeCounts
    <3>2. plan.nDeposits \in Nat /\ plan.nDeposits >= 1
      BY <1>2, SomeDeposits
    <3>3. Bets = 2 * plan.nDeposits - 1
      BY <1>2 DEF Bets
    <3>4. pc' > Opening => plan.nDeposits - ((pc' - Opening) + 1) \div 2 \in Nat
      BY <1>1, <1>n, <1>2, <3>2, <3>3
    <3>5. ToCome' = IF pc' <= Opening THEN plan.nDeposits
                    ELSE plan.nDeposits - ((pc' - Opening) + 1) \div 2
                         + (IF (pc' - Opening) % 2 = 1 /\ pc' \notin landed THEN 1 ELSE 0)
      BY <1>1 DEF ToCome, After
    <3> QED
      BY <1>1, <1>n, <3>1, <3>2, <3>4, <3>5
  <2>2. ToCome' <= ToCome
    <3>1. plan.nDeposits \in Nat
      BY <1>2, SomeDeposits
    <3>5. ToCome' = IF pc' <= Opening THEN plan.nDeposits
                    ELSE plan.nDeposits - ((pc' - Opening) + 1) \div 2
                         + (IF (pc' - Opening) % 2 = 1 /\ pc' \notin landed THEN 1 ELSE 0)
      BY <1>1 DEF ToCome, After
    <3>6. ToCome = IF pc <= Opening THEN plan.nDeposits
                   ELSE plan.nDeposits - ((pc - Opening) + 1) \div 2
                         + (IF (pc - Opening) % 2 = 1 /\ pc \notin landed THEN 1 ELSE 0)
      BY DEF ToCome, After
    <3>7. CASE pc < Opening
      BY <1>1, <1>n, <3>1, <3>5, <3>6, <3>7
    <3>8. CASE pc = Opening
      <4>1. pc' - Opening = 1
        BY <1>1, <1>n, <3>8
      <4> QED
        BY <1>1, <1>n, <3>1, <3>5, <3>6, <3>8, <4>1
    <3>9. CASE pc > Opening
      <4> DEFINE j == pc - Opening
      <4>1. j \in Nat /\ pc' - Opening = j + 1 /\ ~(pc' <= Opening)
        BY <1>1, <1>n, <3>9
      <4>2. j % 2 = 1 => pc \in landed
        BY <1>1, <1>n, <1>2, <3>9
      <4>3. /\ ToCome' = plan.nDeposits - ((j + 1) + 1) \div 2
                         + (IF (j + 1) % 2 = 1 /\ pc' \notin landed THEN 1 ELSE 0)
            /\ ToCome = plan.nDeposits - (j + 1) \div 2
                         + (IF j % 2 = 1 /\ pc \notin landed THEN 1 ELSE 0)
        BY <1>n, <3>5, <3>6, <3>9, <4>1
      <4> HIDE DEF j
      <4>4. \/ j % 2 = 1 /\ (j + 1) % 2 = 0 /\ ((j + 1) + 1) \div 2 = (j + 1) \div 2
            \/ j % 2 = 0 /\ (j + 1) % 2 = 1 /\ ((j + 1) + 1) \div 2 = (j + 1) \div 2 + 1
        BY <4>1
      <4>5. (j + 1) \div 2 \in Int
        BY <4>1
      <4> QED
        BY <3>1, <4>2, <4>3, <4>4, <4>5
    <3> QED
      BY <1>n, <3>7, <3>8, <3>9
  <2>3. /\ ToCome * d <= wallet[Wallet1] /\ ToCome * d <= wallet[Wallet2]
    BY <1>1, <1>n, <1>2 DEF Supported
  <2>4. d \in Nat
    BY <1>2, ScriptAssumption
  <2>5. wallet[Wallet1] \in Nat /\ wallet[Wallet2] \in Nat
    BY ScriptAssumption, U64Nat DEF TypeOK
  <2> QED
    BY <2>1, <2>2, <2>3, <2>4, <2>5, FewerNeed
<1> QED
  BY <1>1, <1>2 DEF Supported, MintAdmits

LEMMA DevnetThird ==
  ASSUME Sited, Tracked, script = "devnet", pc > 3
  PROVE  3 \in landed
<1>1. program[3].op = "tx"
  <2>1. program[3] = Unrecorded(Fund(Wallet1, 10))
    BY DevnetLayout DEF program, Program
  <2> QED
    BY <2>1, Fields
<1>2. 3 \in 1 .. pc - 1
  BY DEF Sited
<1> QED
  BY <1>1, <1>2 DEF Tracked

LEMMA SupportedNext ==
  ASSUME Sited, Tracked, Clocked, TypeOK, TypeOK', Supported, [ScriptNext]_allVars
  PROVE  Supported'
<1>m. Moves /\ Sited' /\ Tracked'
  BY StepsMove, SitedNext, TrackedNext
<1>n. First \in Nat /\ Bets \in Nat /\ pc \in Nat
      /\ Opening = First + 2 /\ Waiting = First + 3 + Bets
  BY OpenedLater
<1>w. /\ Wallet1 \in Bettor /\ Wallet2 \in Bettor /\ Other \in Bettor
      /\ Wallet1 # Wallet2 /\ Wallet1 # Other /\ Wallet2 # Other
  BY ScriptAssumption
<1>t. /\ wallet \in [Bettor -> U64] /\ wallet' \in [Bettor -> U64]
      /\ wallet[Wallet1] \in Nat /\ wallet[Wallet2] \in Nat
      /\ wallet'[Wallet1] \in Nat /\ wallet'[Wallet2] \in Nat
  BY <1>w, U64Nat DEF TypeOK
<1>k. /\ step.op \in {"plan", "setup"} => pc < First
      /\ step.op = "fetch" <=> pc = First
      /\ step.op = "root" <=> pc = First + 1
      /\ step.op = "wait" <=> pc = Waiting
      /\ step.op = "pause" => \E j \in 1 .. Bets : pc = Opening + j /\ step = BetAt(j)
      /\ step.op = "plan" <=> script = "m5" /\ pc = 1
  BY Kinds DEF Sited
<1>l. landed \subseteq 1 .. pc
  BY DEF Tracked
<1>v. UNCHANGED vars => UNCHANGED <<wallet, vault>>
  BY DEF vars, tokenVars
<1>1. CASE \/ Throws \/ Ends \/ Asked \/ Sent \/ Confirmed \/ Fails \/ SetTimer
           \/ UNCHANGED allVars \/ Pass
  <2>1. UNCHANGED <<wallet, vault, script, plan, pc, landed>>
    BY <1>1, <1>v DEF Throws, Throw, Ends, Asked, Sent, Confirmed, Fails, TxEnds, SetTimer,
      allVars, scriptVars, Pass, Tick, tokenVars
  <2> QED
    BY <2>1, SupportedKept
<1>2. CASE GoesOn
  <2>1. /\ step.op \in {"plan", "setup", "fetch", "root"} /\ Advance
        /\ UNCHANGED <<vars, script, plan, landed>>
    BY <1>2 DEF GoesOn
  <2>2. ~(pc > Opening)
    BY <1>k, <1>n, <2>1
  <2> QED
    BY <1>m, <1>v, <2>1, <2>2, SupportedAdvances
<1>3. CASE Done
  <2>1. Advance /\ UNCHANGED <<vars, script, plan, landed>> /\ pc \in landed
    BY <1>3 DEF Done
  <2> QED
    BY <1>m, <1>v, <2>1, SupportedAdvances
<1>4. CASE Wake
  <2>1. Advance /\ UNCHANGED <<vars, script, plan, landed>> /\ step.op \in {"pause", "wait"}
    BY <1>4 DEF Wake, Due, Sited
  <2>2. script = "m5" /\ pc > Opening /\ pc < Waiting => (pc - Opening) % 2 = 0
    <3> SUFFICES ASSUME script = "m5", pc > Opening, pc < Waiting
                 PROVE  (pc - Opening) % 2 = 0
      OBVIOUS
    <3>1. step.op = "pause"
      BY <1>k, <1>n, <2>1
    <3>2. PICK j \in 1 .. Bets : pc = Opening + j /\ step = BetAt(j)
      BY <1>k, <3>1
    <3>3. BetAt(j).op = "pause" /\ pc - Opening = j
      BY <1>n, <3>1, <3>2
    <3>4. j % 2 = 0
      BY <3>3, BetFields DEF Sited
    <3> QED
      BY <3>3, <3>4
  <2> QED
    BY <1>m, <1>n, <1>v, <2>1, <2>2, SupportedAdvances
<1>5. CASE Land
  <2>1. /\ Landing /\ Awaiting /\ step.op = "tx" /\ pc \notin landed
        /\ landed' = landed \cup {pc} /\ UNCHANGED <<script, plan, skew, pc>>
    BY <1>5, Lands
  <2>2. Opening' = Opening /\ Waiting' = Waiting
    BY <2>1, Same
  <2>s. \/ script = "m3" /\ script # "m5" /\ script # "devnet" /\ Bets = 2
        \/ script = "m5" /\ script # "m3" /\ script # "devnet"
        \/ script = "devnet" /\ script # "m3" /\ script # "m5" /\ First = 4 /\ Bets = 1
    BY DEF Sited, PlanRead, Bets, First
  <2>a. /\ 3 \in landed' <=> 3 \in landed \/ pc = 3
        /\ Opening + 1 \in landed' <=> Opening + 1 \in landed \/ pc = Opening + 1
        /\ Opening + 2 \in landed' <=> Opening + 2 \in landed \/ pc = Opening + 2
    BY <2>1
  <2>p. script = "m5" => pc # 1
    BY <1>k, <2>1
  <2>3. CASE script = "devnet" /\ pc = 2 /\ pc < First /\ UNCHANGED vars
    BY <1>n, <1>v, <2>1, <2>2, <2>s, <2>a, <2>3 DEF Supported, MintAdmits
  <2>4. CASE script = "devnet" /\ pc = 3 /\ pc < First /\ MintTo(Wallet1, 10)
    <3>1. wallet'[Wallet1] = wallet[Wallet1] + 10
      BY <1>t, <1>w, <2>4 DEF MintTo
    <3>2. wallet'[Wallet1] >= 1
      BY <1>t, <3>1
    <3> QED
      BY <2>1, <2>2, <2>s, <2>a, <2>4, <3>2 DEF Supported
  <2>5. CASE pc = Opening /\ InitMarket(Market, tx.lockTs)
    <3>1. UNCHANGED <<wallet, vault>>
      BY <2>5 DEF InitMarket, tokenVars
    <3>2. ToCome' = ToCome
      BY <1>n, <2>1, <2>2, <2>5 DEF ToCome, After
    <3>3. pc # Opening + 1 /\ pc # Opening + 2 /\ (script = "devnet" => pc # 3)
      BY <1>n, <2>5, <2>s
    <3> QED
      BY <2>1, <2>2, <2>a, <3>1, <3>2, <3>3 DEF Supported, MintAdmits
  <2>6. CASE /\ pc \in Opening + 1 .. Waiting - 1
             /\ script = "m5" => (pc - Opening) % 2 = 1
             /\ tx.amount \in (IF script = "m5" THEN Draws ELSE {1})
             /\ \/ Deposit(Wallet1, tx.amount, Yes) /\ (script = "m3" => pc = Opening + 1)
                \/ Deposit(Wallet2, tx.amount, No) /\ pc # Opening + 1 /\ script # "devnet"
    <3>1. \/ /\ wallet'[Wallet1] = wallet[Wallet1] - tx.amount
             /\ wallet'[Wallet2] = wallet[Wallet2] /\ (script = "m3" => pc = Opening + 1)
          \/ /\ wallet'[Wallet2] = wallet[Wallet2] - tx.amount
             /\ wallet'[Wallet1] = wallet[Wallet1] /\ pc # Opening + 1 /\ script # "devnet"
      BY <1>t, <1>w, <2>6 DEF Deposit
    <3>2. CASE script = "m3"
      <4>1. pc = Opening + 1 \/ pc = Opening + 2
        BY <1>n, <2>6, <2>s, <3>2
      <4>2. Opening + 1 # Opening + 2
        BY <1>n
      <4>3. pc = Opening + 1 => wallet'[Wallet2] = wallet[Wallet2]
        BY <3>1
      <4>4. pc = Opening + 2 => wallet'[Wallet1] = wallet[Wallet1]
        BY <3>1, <3>2, <4>2
      <4> QED
        BY <2>1, <2>2, <2>s, <2>a, <3>2, <4>1, <4>3, <4>4 DEF Supported
    <3>3. CASE script = "devnet"
      <4>1. pc = Opening + 1 /\ pc > 3
        BY <1>n, <2>6, <2>s, <3>3
      <4>2. 3 \in landed
        BY <4>1, <3>3, <2>s, DevnetThird DEF Tracked
      <4> QED
        BY <2>1, <2>2, <2>s, <2>a, <3>3, <4>1, <4>2 DEF Supported
    <3>4. CASE script = "m5"
      <4>1. pc < Waiting /\ pc > Opening /\ (pc - Opening) % 2 = 1 /\ PlanAccepted(plan)
        BY <1>n, <2>6, <2>p, <3>4 DEF Sited, PlanRead
      <4>2. ToCome \in Nat /\ ToCome >= 1
        BY <2>1, <3>4, <4>1, ToComeCounts
      <4>3. ToCome' = ToCome - 1
        <5>1. /\ ToCome = After(pc - Opening) + 1
          BY <1>n, <2>1, <4>1 DEF ToCome
        <5>2. ToCome' = After(pc - Opening) + 0
          BY <1>n, <2>1, <2>2, <4>1 DEF ToCome, After
        <5>3. After(pc - Opening) \in Int
          <6>1. plan.nDeposits \in Nat
            BY <3>4, <4>1, SomeDeposits
          <6> QED
            BY <1>n, <6>1 DEF After
        <5> QED
          BY <5>1, <5>2, <5>3
      <4>4. ASSUME NEW d \in Draws
            PROVE  ToCome' * d <= wallet'[Wallet1] /\ ToCome' * d <= wallet'[Wallet2]
        <5>1. /\ ToCome * d <= wallet[Wallet1] /\ ToCome * d <= wallet[Wallet2]
              /\ ToCome * tx.amount <= wallet[Wallet1] /\ ToCome * tx.amount <= wallet[Wallet2]
          BY <2>6, <3>4, <4>1, <4>4 DEF Supported
        <5>2. d \in Nat /\ tx.amount \in Nat
          BY <2>6, <3>4, <4>4, ScriptAssumption
        <5>3. /\ (ToCome - 1) * d <= wallet[Wallet1] - tx.amount
              /\ (ToCome - 1) * d <= wallet[Wallet2] - tx.amount
          BY <1>t, <4>2, <5>1, <5>2, DrawLeaves
        <5>4. /\ (ToCome - 1) * d <= wallet[Wallet1]
              /\ (ToCome - 1) * d <= wallet[Wallet2]
          <6>1. ToCome - 1 \in Nat /\ ToCome - 1 <= ToCome
            BY <4>2
          <6> QED
            BY <1>t, <4>2, <5>1, <5>2, <6>1, FewerNeed
        <5> QED
          BY <3>1, <4>3, <5>3, <5>4
      <4> QED
        BY <2>1, <2>2, <2>s, <3>4, <4>4 DEF Supported
    <3> QED
      BY <2>s, <3>2, <3>3, <3>4
  <2>7. CASE pc > Waiting /\ (LockMarket \/ Resolve(Proof, 1, Some(2)) \/ ClaimPayout(Wallet1))
    <3>1. wallet'[Wallet1] >= wallet[Wallet1] /\ wallet'[Wallet2] = wallet[Wallet2]
      <4>1. CASE ClaimPayout(Wallet1)
        <5>1. /\ wallet'[Wallet1] = wallet[Wallet1] + Payout(Wallet1)
              /\ wallet'[Wallet2] = wallet[Wallet2]
          BY <1>t, <1>w, <4>1 DEF ClaimPayout
        <5>2. Payout(Wallet1) \in Nat
          BY <1>w, PayoutNat
        <5> QED
          BY <1>t, <5>1, <5>2
      <4>2. CASE LockMarket \/ Resolve(Proof, 1, Some(2))
        BY <1>t, <4>2 DEF LockMarket, Resolve, tokenVars
      <4> QED
        BY <2>7, <4>1, <4>2
    <3>2. pc > 3 /\ pc # Opening + 1 /\ ~(pc < Waiting) /\ (script = "m3" => pc # Opening + 2)
      BY <1>n, <2>7, <2>s
    <3>3. script = "devnet" => 3 \in landed
      BY <3>2, <2>s, DevnetThird DEF Tracked
    <3> QED
      BY <1>t, <2>1, <2>2, <2>s, <2>a, <3>1, <3>2, <3>3 DEF Supported
  <2> QED
    BY <1>n, <2>1, <2>3, <2>4, <2>5, <2>6, <2>7 DEF Landing
<1>6. CASE Others
  <2>1. /\ UNCHANGED <<script, plan, pc, landed>>
        /\ \/ \E sn \in Snapshots : PublishRoot(sn)
           \/ \E n \in DepositAmounts, s \in Side : Deposit(Other, n, s)
           \/ ClaimPayout(Other)
           \/ LockMarket
           \/ \E sn \in Snapshots : Resolve(sn, 1, Some(2))
    BY <1>6, OthersKeep
  <2>2. UNCHANGED <<wallet, vault>> \/ created
    BY <2>1 DEF PublishRoot, Deposit, DepositAdmits, ClaimPayout, ClaimPayoutAdmits, LockMarket,
      Resolve, tokenVars
  <2>3. UNCHANGED <<wallet[Wallet1], wallet[Wallet2]>>
    BY <1>w, <1>t, <2>1 DEF PublishRoot, Deposit, ClaimPayout, LockMarket, Resolve, tokenVars
  <2>4. script = "devnet" /\ created => 3 \in landed
    <3> SUFFICES ASSUME script = "devnet", created PROVE 3 \in landed
      OBVIOUS
    <3>1. First = 4 /\ Opening \in landed
      BY DEF First, Clocked
    <3>2. pc > 3
      BY <1>l, <1>n, <3>1
    <3> QED
      BY <1>n, <3>2, DevnetThird DEF Tracked
  <2> QED
    BY <2>1, <2>2, <2>3, <2>4, SupportedKept
<1> QED
  BY <1>m, <1>1, <1>2, <1>3, <1>4, <1>5, <1>6 DEF Moves

LEMMA SupportedAlways == ScriptSpec => []Supported
<1>1. ScriptInit => Supported
  <2> SUFFICES ASSUME ScriptInit PROVE Supported
    OBVIOUS
  <2>i. pc = 1 /\ landed = {} /\ PlanRead
    BY SitedInit DEF Sited, ScriptInit
  <2>n. First \in 2 .. 4 /\ Opening = First + 2 /\ pc <= Opening
    BY <2>i, Numbers
  <2>1. /\ wallet \in Wallets /\ vault = 0 /\ (wallet[Wallet1] = 0 <=> script = "devnet")
        /\ script = "m5" => plan \in Plans
    BY DEF ScriptInit, Init
  <2>2. wallet[Wallet1] \in Nat /\ wallet[Wallet2] \in Nat
    BY <2>1, WalletsAssumption, ScriptAssumption, U64Nat
  <2>3. TotalOf(wallet, Bettor) \in Nat
    BY BettorSums
  <2>4. wallet[Wallet1] = 0 => TotalOf(wallet, Bettor) + 10 <= MaxU64
    BY <2>1, FundsAssumption
  <2>5. /\ wallet[Wallet1] # 0 => wallet[Wallet2] > 0
    BY <2>1, FundsAssumption
  <2>6. ASSUME script = "m5", PlanAccepted(plan), NEW d \in Draws
        PROVE  plan.nDeposits * d <= wallet[Wallet1] /\ plan.nDeposits * d <= wallet[Wallet2]
    <3>1. wallet[Wallet1] # 0 /\ plan \in Plans
      BY <2>1, <2>6
    <3> QED
      BY <2>1, <2>6, <3>1, FundsAssumption
  <2>7. script = "devnet" => MintAdmits(10)
    BY <2>1, <2>3, <2>4 DEF MintAdmits
  <2>8. script = "m3" => wallet[Wallet1] >= 1 /\ wallet[Wallet2] >= 1
    BY <2>1, <2>2, <2>5
  <2>9. ToCome = plan.nDeposits
    BY <2>n DEF ToCome
  <2> QED
    BY <2>i, <2>6, <2>7, <2>8, <2>9 DEF Supported
<1>2. Sited /\ Tracked /\ Clocked /\ TypeOK /\ TypeOK' /\ Supported /\ [ScriptNext]_allVars
        => Supported'
  BY SupportedNext
<1> QED
  BY <1>1, <1>2, SitedAlways, TrackedAlways, ClockedAlways, ScriptsImplementProgram,
    TypeCorrect, PTL DEF ScriptSpec

-----------------------------------------------------------------------------
(* A script around which nothing goes wrong is never late.                 *)

(* The time that the bets from position j on take at most.                 *)
Left(j) ==
  CASE script = "m3" -> (3 - j) * Latency
    [] script = "m5" -> After(j) * (Latency + plan.sleepMax)
                          + (IF j % 2 = 1 THEN Latency ELSE 0)
    [] script = "devnet" -> Latency
Fine == ~troubled /\ InStep /\ (script = "m5" => RoomyPlan(plan))
(* The time left at position j of the bets, while it is on its way and     *)
(* while its timer runs.                                                   *)
OnTime ==
  \A j \in 1 .. Bets : pc = Opening + j =>
    /\ until = {} => now + Left(j) <= lock_ts + age
    /\ \A t \in until : t - skew + Left(j + 1) <= lock_ts
Quiet ==
  /\ exit # {1}
  /\ age <= Latency
  /\ tx.status \in {"none", "sent", "landed"}
  /\ locked => Waiting + 1 \in landed
  /\ resolved => Waiting + 2 \in landed
  /\ pc > First + 1 => Proof \in roots
Smooth == Fine => Quiet /\ OnTime

LEMMA Paced ==
  ASSUME Sited, script = "m5", PlanAccepted(plan)
  PROVE  /\ plan.nDeposits \in Nat /\ plan.nDeposits >= 1 /\ Bets = 2 * plan.nDeposits - 1
         /\ plan.sleepMin \in Nat /\ plan.sleepMax \in Nat /\ plan.sleepMin <= plan.sleepMax
         /\ plan.lockWindow \in Int
<1>1. plan \in Plans
  BY DEF Sited, PlanRead
<1>2. {plan.nDeposits, plan.sleepMin, plan.sleepMax, plan.lockWindow} \subseteq Int
  BY <1>1, ScriptAssumption
<1> QED
  BY <1>2 DEF PlanAccepted, Bets

LEMMA LatencyNat == Latency \in Nat /\ Latency > 0 /\ LockWindow \in Nat /\ LockBuffer \in Nat
                    /\ LockWindow >= 3 * Latency + LockBuffer
  BY ScriptAssumption

LEMMA OneLess ==
  ASSUME NEW a \in Nat, NEW x \in Nat
  PROVE  (a - 1) * x = a * x - x
  OBVIOUS

(* A bet takes at most Latency, a pause at most its longest.               *)
LEMMA LeftFalls ==
  ASSUME Sited, script = "m5" => PlanAccepted(plan), NEW j \in 1 .. Bets
  PROVE  /\ Left(j) \in Int /\ Left(j) >= 0
         /\ BetAt(j).op = "tx" => Left(j) >= Latency
         /\ BetAt(j).op = "tx" /\ j < Bets => Left(j) >= Latency + Left(j + 1)
         /\ BetAt(j).op = "pause" =>
              script = "m5" /\ Left(j) = plan.sleepMax + Left(j + 1) /\ Left(j + 1) \in Int
<1>l. Latency \in Nat
  BY LatencyNat
<1>1. CASE script = "m3"
  <2>1. j \in {1, 2} /\ Bets = 2
    BY <1>1 DEF Bets
  <2>2. Left(1) = 2 * Latency /\ Left(2) = Latency
    BY <1>1, <1>l DEF Left
  <2>3. BetAt(j).op # "pause"
    BY <1>1, BetFields DEF Sited
  <2> QED
    BY <1>l, <2>1, <2>2, <2>3
<1>2. CASE script = "devnet"
  <2>1. j = 1 /\ Bets = 1
    BY <1>2 DEF Bets
  <2>2. Left(1) = Latency
    BY <1>2 DEF Left
  <2>3. BetAt(j).op # "pause"
    BY <1>2, BetFields DEF Sited
  <2> QED
    BY <1>l, <2>1, <2>2, <2>3
<1>3. CASE script = "m5"
  <2> DEFINE x == Latency + plan.sleepMax
             a == After(j)
  <2>1. /\ plan.nDeposits \in Nat /\ plan.nDeposits >= 1 /\ Bets = 2 * plan.nDeposits - 1
        /\ plan.sleepMax \in Nat
    BY <1>3, Paced
  <2>2. x \in Nat /\ a \in Nat /\ j \in Nat
    BY <1>l, <2>1 DEF After
  <2>3. /\ Left(j) = a * x + (IF j % 2 = 1 THEN Latency ELSE 0)
        /\ Left(j + 1) = After(j + 1) * x + (IF (j + 1) % 2 = 1 THEN Latency ELSE 0)
    BY <1>3 DEF Left
  <2>4. a * x \in Nat
    BY <2>2, ProductNat
  <2>5. /\ BetAt(j).op = "tx" => j % 2 = 1
        /\ BetAt(j).op = "pause" => j % 2 = 0
    BY <1>3, BetFields DEF Sited
  <2>6. j % 2 = 1 => After(j + 1) = a /\ (j + 1) % 2 = 0
    BY <2>1, <2>2 DEF After
  <2>7. j % 2 = 0 => After(j + 1) = a - 1 /\ (j + 1) % 2 = 1
    BY <2>1, <2>2 DEF After
  <2>8. (a - 1) * x = a * x - x
    BY <2>2, OneLess
  <2>x. x = Latency + plan.sleepMax
    OBVIOUS
  <2> HIDE DEF x, a
  <2>9. CASE j % 2 = 1
    BY <1>l, <2>2, <2>3, <2>4, <2>5, <2>6, <2>9
  <2>10. CASE j % 2 = 0
    <3>1. Left(j) = a * x
      BY <2>3, <2>4, <2>10
    <3>2. Left(j + 1) = a * x - x + Latency
      BY <2>3, <2>7, <2>8, <2>10
    <3>3. Left(j) = plan.sleepMax + Left(j + 1) /\ Left(j + 1) \in Int
      BY <1>l, <2>1, <2>4, <2>x, <3>1, <3>2
    <3> QED
      BY <1>3, <2>4, <2>5, <2>10, <3>1, <3>3
  <2> QED
    BY <2>2, <2>9, <2>10
<1> QED
  BY <1>1, <1>2, <1>3 DEF Sited, PlanRead

(* The window holds create_market and the bets.                            *)
LEMMA RoomForAll ==
  ASSUME Sited, Fine, pc # 1
  PROVE  Left(1) + Latency <= skew + Window /\ Left(1) \in Int /\ Left(1) >= Latency
<1>1. skew \in Int /\ skew >= -LockBuffer
  BY ScriptAssumption DEF Sited, Fine, InStep
<1>2. /\ Latency \in Nat /\ Latency > 0 /\ LockWindow \in Nat /\ LockBuffer \in Nat
      /\ LockWindow >= 3 * Latency + LockBuffer
  BY LatencyNat
<1>3. CASE script = "m3"
  <2>1. Left(1) = 2 * Latency /\ Window = LockWindow
    BY <1>2, <1>3 DEF Left, Window
  <2> QED
    BY <1>1, <1>2, <2>1
<1>4. CASE script = "devnet"
  <2>1. Left(1) = Latency /\ Window = LockWindow
    BY <1>4 DEF Left, Window
  <2> QED
    BY <1>1, <1>2, <2>1
<1>5. CASE script = "m5"
  <2> DEFINE n == plan.nDeposits
             m == n - 1
             lo == plan.sleepMin
             hi == plan.sleepMax
             w == plan.lockWindow
             phase2 == 2 * n * Latency + m * (lo + hi)
  <2>1. PlanAccepted(plan) /\ RoomyPlan(plan)
    BY <1>5 DEF Sited, PlanRead, Fine
  <2>2. n \in Nat /\ m \in Nat /\ lo \in Nat /\ hi \in Nat /\ lo <= hi /\ w \in Int
    BY <1>5, <2>1, Paced
  <2>3. (IF 2 * w > phase2 THEN 2 * w - phase2 ELSE 0)
           >= 2 * Latency + m * (hi - lo) + 2 * LockBuffer
    BY <2>1 DEF RoomyPlan, ProjectedWait2
  <2>4. Left(1) = m * (Latency + hi) + Latency /\ Window = w
    <3>1. (1 + 1) \div 2 = 1 /\ 1 % 2 = 1
      OBVIOUS
    <3> QED
      BY <1>5, <3>1 DEF Left, Window, After
  <2>5. n = m + 1
    BY <2>2
  <2> HIDE DEF n, m, lo, hi, w
  <2>6. /\ m * (lo + hi) = m * lo + m * hi
        /\ m * (hi - lo) = m * hi - m * lo
        /\ m * (Latency + hi) = m * Latency + m * hi
        /\ 2 * (m + 1) * Latency = 2 * (m * Latency) + 2 * Latency
    BY <1>2, <2>2
  <2>7. m * lo \in Nat /\ m * hi \in Nat /\ m * Latency \in Nat
    BY <1>2, <2>2, ProductNat
  <2>8. m * (hi - lo) \in Nat
    <3>1. hi - lo \in Nat
      BY <2>2
    <3> QED
      BY <2>2, <3>1, ProductNat
  <2>9. phase2 = 2 * (m * Latency) + 2 * Latency + m * lo + m * hi
    BY <1>2, <2>2, <2>5, <2>6, <2>7
  <2> HIDE DEF phase2
  <2>10. phase2 \in Int
    BY <1>2, <2>7, <2>9
  <2>11. 2 * w - phase2 >= 2 * Latency + m * (hi - lo) + 2 * LockBuffer
    BY <1>2, <2>2, <2>3, <2>8, <2>10
  <2>12. w >= m * Latency + m * hi + 2 * Latency + LockBuffer
    BY <1>2, <2>2, <2>6, <2>7, <2>9, <2>11
  <2>13. Left(1) = m * Latency + m * hi + Latency
    BY <1>2, <2>4, <2>6, <2>7
  <2> QED
    BY <1>1, <1>2, <2>2, <2>4, <2>7, <2>12, <2>13
<1> QED
  BY <1>3, <1>4, <1>5 DEF Sited, PlanRead

(* assertRegisteredPayer knows whom a script lets sign.                    *)
LEMMA SignersRegistered ==
  ASSUME Sited, step.op = "tx"
  PROVE  step.by \in Registered
<1>1. step.by \in {Wallet1, Creator} \/ (step.by = Wallet2 /\ script # "devnet")
  <2>1. CASE step.ix = "deposit"
    <3>1. step = BetAt(pc - Opening) /\ pc - Opening \in 1 .. Bets
      BY <2>1, TxKinds DEF Sited
    <3> DEFINE j == pc - Opening
    <3>2. \/ BetAt(j).op = "pause"
          \/ BetAt(j).by = Wallet1
          \/ BetAt(j).by = Wallet2 /\ script # "devnet"
      BY <3>1, BetFields DEF Sited
    <3> QED
      BY <3>1, <3>2
  <2>2. CASE step.ix # "deposit"
    BY <2>2, TxKinds DEF Sited
  <2> QED
    BY <2>1, <2>2
<1> QED
  BY <1>1 DEF Registered, M3Registered, M5Registered, Creator, Sited, PlanRead

(* Where the bets are made, the market is open and theirs.                 *)
LEMMA BetsAfterOpening ==
  ASSUME Sited, Tracked, Clocked, pc > Opening
  PROVE  created /\ Opening \in landed /\ lock_ts = skew + Window
         /\ terms = MarketOf(Proof.fixture_id, Proof) /\ Proof \in Snapshots
<1>n. First \in Nat /\ Bets \in Nat /\ pc \in Nat
      /\ Opening = First + 2 /\ Waiting = First + 3 + Bets
  BY OpenedLater
<1>1. program[Opening].op = "tx"
  BY <1>n, TxPlaces DEF Sited
<1>2. Opening \in 1 .. pc - 1
  BY <1>n
<1>3. Opening \in landed
  BY <1>1, <1>2 DEF Tracked
<1> QED
  BY <1>n, <1>3, ProofFetched DEF Clocked

LEMMA DrawsPositive == \A d \in Draws : d \in Nat /\ d > 0
<1>1. Draws \subseteq Nat \ {0}
  BY ScriptAssumption
<1>2. \A d \in Nat \ {0} : d \in Nat /\ d > 0
  OBVIOUS
<1> QED
  BY <1>1, <1>2, Zenon

(* What a script around which nothing goes wrong sends cannot fail on      *)
(* chain, neither in the preflight nor when it lands.                      *)
LEMMA OwnExecutable ==
  ASSUME Sited, Tracked, Clocked, SInv, Linked, Timed, Supported, Smooth, Fine,
         step.op = "tx", pc \notin landed,
         NEW t, t.ix = step.ix, t.by = step.by, t.side = step.side, t.amount \in step.amounts,
         t.ix = "create_market" => t.lockTs = skew + Window
  PROVE  Executable(t)
<1>r. Request(t)
  BY Requests
<1>n. First \in 2 .. 4 /\ Bets \in Nat /\ Bets \in Nat /\ pc \in Nat
      /\ Opening = First + 2 /\ Waiting = First + 3 + Bets /\ Ending = Waiting + 4
  BY Numbers DEF Sited
<1>w. Wallet1 \in Bettor /\ Wallet2 \in Bettor /\ Yes \in Side /\ No \in Side
  BY ScriptAssumption DEF Side
<1>l. landed \subseteq 1 .. pc
  BY DEF Tracked
<1>i. TypeOK /\ IInv /\ now \in Nat /\ age \in Nat
  BY DEF SInv, IInv, Clocked, Sited
<1>s. /\ age <= Latency /\ (locked => Waiting + 1 \in landed)
      /\ (resolved => Waiting + 2 \in landed) /\ (pc > First + 1 => Proof \in roots) /\ OnTime
  BY DEF Smooth, Quiet
<1>t. Latency \in Nat /\ Latency > 0
  BY LatencyNat
<1>p. pc > Opening =>
        /\ program[Opening + 1].op = "tx" /\ program[Waiting + 1].op = "tx"
        /\ program[Waiting + 2].op = "tx"
  BY <1>n, TxPlaces DEF Sited
<1>1. CASE t.ix = "create_test_mint"
  BY <1>1 DEF Executable
<1>2. CASE t.ix = "create_ata_and_mint"
  <2>1. script = "devnet" /\ pc = 3 /\ t.amount = 10
    BY <1>2, <1>r DEF Request
  <2> QED
    BY <1>2, <2>1 DEF Supported, Executable
<1>3. CASE t.ix = "create_market"
  <2>1. pc = Opening /\ t.lockTs = skew + Window
    BY <1>3, <1>r DEF Request
  <2>2. ~created
    BY <2>1 DEF Clocked
  <2>3. Left(1) + Latency <= skew + Window /\ Left(1) \in Int /\ Left(1) >= Latency
    BY <1>n, <2>1, RoomForAll
  <2>4. now <= Latency
    BY <1>i, <1>s, <1>t, <2>1 DEF Timed
  <2>5. t.lockTs > now
    <3>1. skew \in Int /\ Window \in Int
      BY Numeric DEF Sited
    <3> QED
      BY <1>i, <1>t, <2>1, <2>3, <2>4, <3>1
  <2>6. ConsistentStats(Market)
    BY DEF ConsistentStats, Market, MarketOf, IsSome, Some, None
  <2> QED
    BY <1>3, <2>2, <2>5, <2>6 DEF Executable, InitMarketAdmits
<1>4. CASE t.ix = "deposit"
  <2>1. /\ pc \in Opening + 1 .. Waiting - 1
        /\ pc - Opening \in 1 .. Bets /\ step = BetAt(pc - Opening)
        /\ script = "m5" => (pc - Opening) % 2 = 1
        /\ t.amount \in (IF script = "m5" THEN Draws ELSE {1})
        /\ \/ t.by = Wallet1 /\ t.side = Yes
           \/ t.by = Wallet2 /\ t.side = No /\ pc # Opening + 1 /\ script # "devnet"
        /\ script = "m3" => t.by = (IF pc = Opening + 1 THEN Wallet1 ELSE Wallet2)
    BY <1>4, <1>r DEF Request
  <2>2. pc > Opening /\ pc < Waiting /\ pc # 1
    BY <1>n, <2>1
  <2>3. created
    BY <2>2, BetsAfterOpening
  <2>4. DepositWindowOpen
    <3>1. ~locked
      BY <1>n, <1>l, <1>s, <2>2
    <3>2. now + Left(pc - Opening) <= lock_ts + age
      <4>1. until = {}
        BY DEF Sited
      <4> QED
        BY <1>n, <1>s, <2>1, <4>1 DEF OnTime
    <3>3. Left(pc - Opening) >= Latency /\ Left(pc - Opening) \in Int
      <4>1. script = "m5" => PlanAccepted(plan)
        BY <2>2 DEF Sited, PlanRead
      <4> QED
        BY <2>1, <4>1, LeftFalls
    <3>4. lock_ts \in Int
      BY <1>i DEF TypeOK
    <3>5. now <= lock_ts
      BY <1>i, <1>s, <1>t, <3>2, <3>3, <3>4
    <3> QED
      BY <3>1, <3>5 DEF DepositWindowOpen
  <2>5. SideAgrees(t.by, t.side)
    BY <2>1 DEF Linked, SideAgrees
  <2>6. t.amount \in Nat /\ t.amount > 0
    <3>1. t.amount \in Draws \/ t.amount = 1
      BY <2>1
    <3>2. CASE t.amount = 1
      BY <3>2
    <3>3. CASE t.amount \in Draws
      BY <3>3, DrawsPositive
    <3> QED
      BY <3>1, <3>2, <3>3
  <2>7. t.amount <= wallet[t.by]
    <3>t. wallet[Wallet1] \in Nat /\ wallet[Wallet2] \in Nat
      BY <1>i, <1>w, U64Nat DEF TypeOK
    <3>1. CASE script = "m3"
      <4>1. Bets = 2 /\ t.amount = 1
        BY <2>1, <3>1 DEF Bets
      <4>2. pc = Opening + 1 \/ pc = Opening + 2
        BY <1>n, <2>1, <4>1
      <4>3. pc = Opening + 2 => pc # Opening + 1
        BY <1>n
      <4>4. /\ pc = Opening + 1 => wallet[Wallet1] >= 1
            /\ pc = Opening + 2 => wallet[Wallet2] >= 1
        BY <3>1 DEF Supported
      <4> QED
        BY <2>1, <3>1, <3>t, <4>1, <4>2, <4>3, <4>4
    <3>2. CASE script = "devnet"
      <4>1. Bets = 1 /\ First = 4 /\ t.amount = 1 /\ t.by = Wallet1
        BY <2>1, <3>2 DEF Bets, First
      <4>2. pc = Opening + 1 /\ pc > 3
        BY <1>n, <2>1, <4>1
      <4>3. 3 \in landed
        BY <3>2, <4>2, DevnetThird
      <4> QED
        BY <3>2, <3>t, <4>1, <4>2, <4>3 DEF Supported
    <3>3. CASE script = "m5"
      <4>1. PlanAccepted(plan) /\ (pc - Opening) % 2 = 1 /\ t.amount \in Draws
        BY <2>1, <2>2, <3>3 DEF Sited, PlanRead
      <4>2. ToCome \in Nat /\ ToCome >= 1
        BY <2>2, <3>3, <4>1, ToComeCounts
      <4>3. ToCome * t.amount <= wallet[Wallet1] /\ ToCome * t.amount <= wallet[Wallet2]
        BY <2>2, <3>3, <4>1 DEF Supported
      <4>4. 1 * t.amount <= wallet[Wallet1] /\ 1 * t.amount <= wallet[Wallet2]
        BY <2>6, <3>t, <4>2, <4>3, FewerNeed
      <4> QED
        BY <2>1, <2>6, <4>4
    <3> QED
      BY <3>1, <3>2, <3>3 DEF Sited, PlanRead
  <2>8. t.by \in Bettor /\ t.side \in Side
    BY <1>w, <2>1
  <2>9. DepositAdmits(t.by, t.amount, t.side)
    BY <2>3, <2>4, <2>5, <2>6, <2>7, <2>8, AffordableIsAdmitted
  <2> QED
    BY <1>4, <2>9 DEF Executable
<1>5. CASE t.ix = "lock_market"
  <2>1. pc = Waiting + 1
    BY <1>5, <1>r DEF Request
  <2>2. pc > Opening /\ pc > Waiting
    BY <1>n, <2>1
  <2>3. created /\ now >= lock_ts /\ ~locked
    BY <1>s, <2>1, <2>2, BetsAfterOpening DEF Timed, Fine
  <2> QED
    BY <1>5, <2>3 DEF Executable, LockMarketAdmits
<1>6. CASE t.ix = "resolve"
  <2>1. pc = Waiting + 2
    BY <1>6, <1>r DEF Request
  <2>2. pc > Opening /\ pc > First + 1 /\ Waiting + 1 \in 1 .. pc - 1
    BY <1>n, <2>1
  <2>3. /\ created /\ terms = MarketOf(Proof.fixture_id, Proof) /\ Proof \in Snapshots
        /\ ~resolved /\ Proof \in roots
    BY <1>s, <2>1, <2>2, BetsAfterOpening
  <2>4. locked
    <3>1. Waiting + 1 \in landed
      BY <1>p, <2>2 DEF Tracked
    <3> QED
      BY <3>1 DEF Linked
  <2>5. /\ terms.fixture_id = Proof.fixture_id /\ terms.epoch_day = Proof.epoch_day
        /\ terms.stat_a_key = 1 /\ terms.stat_b_key = Some(2) /\ IsSome(terms.op)
    BY <2>3 DEF MarketOf, Some, IsSome, None
  <2> QED
    BY <1>6, <2>3, <2>4, <2>5 DEF Executable, ResolveAdmits, KeysAgree, Provable
<1>7. CASE t.ix = "claim_payout"
  <2>1. pc = Waiting + 3 /\ t.by = Wallet1
    BY <1>7, <1>r DEF Request
  <2>2. pc > Opening /\ Waiting + 2 \in 1 .. pc - 1 /\ Opening + 1 \in 1 .. pc - 1
    BY <1>n, <2>1
  <2>3. Waiting + 2 \in landed /\ Opening + 1 \in landed
    BY <1>p, <2>2 DEF Tracked
  <2>4. /\ resolved /\ outcome = Yes /\ opened[Wallet1] /\ side[Wallet1] = Yes
        /\ ~claimed[Wallet1] /\ created
    BY <2>1, <2>2, <2>3, BetsAfterOpening DEF Linked
  <2>5. Claimable(Wallet1)
    BY <2>4 DEF Claimable, Eligible
  <2>6. Payable(Wallet1)
    BY <1>i, <1>w, <2>4, <2>5, ClaimsPayable
  <2> QED
    BY <1>7, <2>1, <2>4, <2>5, <2>6 DEF Executable, ClaimPayoutAdmits
<1> QED
  BY <1>r, <1>1, <1>2, <1>3, <1>4, <1>5, <1>6, <1>7 DEF Request

(* What has gone wrong stays gone wrong.                                   *)
LEMMA FineBefore ==
  ASSUME Sited, Moves, Fine'
  PROVE  Fine /\ ~troubled' /\ UNCHANGED <<script, plan, skew>>
<1>1. /\ UNCHANGED <<script, plan, skew>>
      /\ \/ troubled' = troubled
         \/ \E trouble \in BOOLEAN : troubled' = (troubled \/ trouble)
  <2>1. CASE Others
    <3>1. (troubled \/ TRUE) = TRUE
      OBVIOUS
    <3>2. troubled' = troubled \/ troubled' = TRUE
      BY <2>1, OthersKeep
    <3> QED
      BY <2>1, <3>1, <3>2, OthersKeep
  <2>2. CASE Land
    BY <2>2 DEF Land, TxEnds
  <2>3. CASE Throws
    BY <2>3 DEF Throws, Throw
  <2>4. CASE GoesOn
    <3>1. (Proof \notin roots) \in BOOLEAN
      OBVIOUS
    <3> QED
      BY <2>4, <3>1 DEF GoesOn
  <2>5. CASE Pass
    <3>1. (age' > Latency) \in BOOLEAN
      BY LatencyNat, <2>5 DEF Pass, Sited
    <3> QED
      BY <2>5, <3>1 DEF Pass
  <2>6. CASE Ends \/ Asked \/ Sent \/ Confirmed \/ Done \/ Fails \/ SetTimer \/ Wake
             \/ UNCHANGED allVars
    BY <2>6 DEF Ends, Asked, Sent, Confirmed, Done, Fails, TxEnds, SetTimer, Wake, allVars,
      scriptVars
  <2> QED
    BY <2>1, <2>2, <2>3, <2>4, <2>5, <2>6 DEF Moves
<1>3. troubled => troubled'
  BY <1>1, Zenon DEF Sited
<1>2. RoomyPlan(plan)' = RoomyPlan(plan)
  BY <1>1 DEF RoomyPlan, ProjectedWait2
<1> QED
  BY <1>1, <1>2, <1>3 DEF Fine, InStep

(* A script around which nothing goes wrong throws nothing.                *)
LEMMA NothingThrown ==
  ASSUME Sited, Tracked, Clocked, SInv, Linked, Timed, Supported, Smooth, Fine, Throws
  PROVE  troubled'
<1>1. CASE Throw(TRUE)
  BY <1>1 DEF Throw
<1>2. CASE step.op = "tx" /\ step.by \notin Registered
  BY <1>2, SignersRegistered
<1>3. CASE /\ step.op = "tx" /\ ~Awaiting /\ tx = NoTx /\ pc \notin landed
           /\ \E t \in Built : ~Executable(t)
  <2>1. PICK t \in Built : ~Executable(t)
    BY <1>3
  <2>2. /\ t.ix = step.ix /\ t.by = step.by /\ t.side = step.side /\ t.amount \in step.amounts
        /\ t.lockTs = ((now + skew) - age) + step.window
    BY <2>1 DEF Built, LockTs, Local
  <2>3. t.ix = "create_market" => t.lockTs = skew + Window
    <3> SUFFICES ASSUME step.ix = "create_market" PROVE t.lockTs = skew + Window
      BY <2>2
    <3>1. pc = Opening /\ step.window = Window
      BY <1>3, TxKinds DEF Sited
    <3>2. now = age
      BY <1>3, <3>1 DEF Clocked
    <3>3. skew \in Int /\ Window \in Int /\ age \in Nat
      BY Numeric DEF Sited
    <3> QED
      BY <2>2, <3>1, <3>2, <3>3
  <2> QED
    BY <1>3, <2>1, <2>2, <2>3, OwnExecutable
<1>4. CASE tx.status \in {"reverted", "expired"}
  BY <1>4 DEF Smooth, Quiet
<1> QED
  BY <1>1, <1>2, <1>3, <1>4 DEF Throws

(* Nor does what it has sent fail.                                         *)
LEMMA NothingFails ==
  ASSUME Sited, Tracked, Clocked, SInv, Linked, Timed, Supported, Smooth, Fine
  PROVE  ~Fails
<1> SUFFICES ASSUME Fails PROVE FALSE
  OBVIOUS
<1>1. Awaiting /\ tx.status = "sent"
  BY DEF Fails
<1>2. CASE age > Latency
  <2>1. age <= Latency /\ age \in Nat
    BY DEF Smooth, Quiet, Sited
  <2>2. Latency \in Nat
    BY LatencyNat
  <2> QED
    BY <1>2, <2>1, <2>2
<1>3. CASE ~Executable(tx)
  <2>1. step.op = "tx" /\ pc \notin landed
    BY <1>1 DEF Awaiting, Tracked
  <2>2. tx.ix = step.ix /\ tx.by = step.by /\ tx.side = step.side /\ tx.amount \in step.amounts
    BY <1>1 DEF Tracked
  <2>3. tx.ix = "create_market" => tx.lockTs = skew + Window
    BY <1>1, <2>2 DEF Clocked
  <2> QED
    BY <1>3, <2>1, <2>2, <2>3, OwnExecutable
<1> QED
  BY <1>2, <1>3 DEF Fails

LEMMA QuietKept ==
  ASSUME Quiet, UNCHANGED <<script, plan, pc, landed>>,
         locked' => locked, resolved' => resolved, roots \subseteq roots',
         pc > First + 1 => UNCHANGED validation,
         exit' # {1}, age' <= Latency, tx'.status \in {"none", "sent", "landed"}
  PROVE  Quiet'
<1>1. First' = First /\ Waiting' = Waiting
  BY Same
<1>2. pc > First + 1 => Proof' = Proof
  BY DEF Proof
<1> QED
  BY <1>1, <1>2 DEF Quiet

LEMMA QuietAdvances ==
  ASSUME Quiet, Sited, UNCHANGED <<script, plan, landed, locked, resolved, roots, exit, validation>>,
         Advance, tx'.status = "none", step.op = "root" => Proof \in roots, step.op # "fetch"
  PROVE  Quiet'
<1>1. First' = First /\ Waiting' = Waiting
  BY Same
<1>2. Proof' = Proof
  BY DEF Proof
<1>3. First \in 2 .. 4 /\ pc \in Nat /\ pc' = pc + 1 /\ age' = 0
  BY Numbers DEF Sited, Advance
<1>4. 0 <= Latency
  BY LatencyNat
<1>5. pc' > First + 1 => pc > First + 1 \/ step.op = "root"
  BY <1>3, Kinds DEF Sited
<1> QED
  BY <1>1, <1>2, <1>3, <1>4, <1>5 DEF Quiet

LEMMA QuietNext ==
  ASSUME Sited, Tracked, Clocked, SInv, Linked, Timed, Supported, Smooth, Fine, Fine', Moves
  PROVE  Quiet'
<1>q. Quiet /\ exit # {1} /\ age <= Latency /\ tx.status \in {"none", "sent", "landed"}
  BY DEF Smooth, Quiet
<1>f. ~troubled' /\ UNCHANGED <<script, plan, skew>>
  BY FineBefore
<1>v. UNCHANGED vars => UNCHANGED <<locked, resolved, roots>>
  BY DEF vars, marketVars
<1>n. First \in Nat /\ Bets \in Nat /\ pc \in Nat
      /\ Opening = First + 2 /\ Waiting = First + 3 + Bets
  BY OpenedLater
<1>1. CASE Throws
  BY <1>1, <1>f, NothingThrown
<1>2. CASE Ends \/ Asked \/ Confirmed \/ SetTimer \/ UNCHANGED allVars
  <2>1. /\ UNCHANGED <<vars, pc, landed, validation, age, tx>>
        /\ exit' \in {exit, {0}}
    BY <1>2 DEF Ends, Asked, Confirmed, SetTimer, allVars, scriptVars
  <2>2. {0} # {1}
    <3>1. 1 \in {1} /\ 1 \notin {0}
      OBVIOUS
    <3> QED
      BY <3>1
  <2> QED
    BY <1>q, <1>f, <1>v, <2>1, <2>2, QuietKept
<1>3. CASE Sent
  <2>1. tx'.status = "sent"
    BY <1>3 DEF Sent, Built
  <2>2. UNCHANGED <<vars, pc, landed, validation, age, exit>>
    BY <1>3 DEF Sent
  <2> QED
    BY <1>q, <1>f, <1>v, <2>1, <2>2, QuietKept
<1>4. CASE GoesOn
  <2>1. /\ UNCHANGED <<vars, landed, exit, tx>> /\ Advance /\ tx = NoTx
        /\ step.op # "fetch" => UNCHANGED validation
        /\ step.op = "root" => troubled' = (troubled \/ Proof \notin roots)
    BY <1>4 DEF GoesOn
  <2>2. CASE step.op # "fetch"
    BY <1>q, <1>f, <1>v, <2>1, <2>2, QuietAdvances DEF NoTx
  <2>3. CASE step.op = "fetch"
    <3>1. pc = First /\ pc' = pc + 1 /\ age' = 0
      BY <2>1, <2>3, Kinds DEF Sited, Advance
    <3>2. First' = First /\ Waiting' = Waiting
      BY <1>f, Same
    <3>3. ~(pc' > First' + 1)
      BY <1>n, <3>1, <3>2
    <3>4. 0 <= Latency
      BY LatencyNat
    <3> QED
      BY <1>q, <1>v, <2>1, <3>1, <3>2, <3>3, <3>4 DEF Quiet, NoTx
  <2> QED
    BY <2>2, <2>3
<1>5. CASE Done
  <2>1. /\ UNCHANGED <<vars, landed, exit, validation>> /\ Advance /\ tx' = NoTx
        /\ step.op = "tx"
    BY <1>5 DEF Done, Awaiting
  <2> QED
    BY <1>q, <1>f, <1>v, <2>1, QuietAdvances DEF NoTx
<1>6. CASE Wake
  <2>1. /\ UNCHANGED <<vars, landed, exit, validation, tx>> /\ Advance /\ until # {}
    BY <1>6 DEF Wake, Due
  <2>2. step.op \in {"pause", "wait"}
    BY <2>1 DEF Sited
  <2>3. tx'.status = "none"
    BY <2>1, <2>2 DEF Tracked, Awaiting, NoTx
  <2> QED
    BY <1>q, <1>f, <1>v, <2>1, <2>2, <2>3, QuietAdvances
<1>7. CASE Fails
  BY <1>7, NothingFails
<1>8. CASE Land
  <2>1. /\ Landing /\ Awaiting /\ landed' = landed \cup {pc}
        /\ tx' = [tx EXCEPT !.status = "landed"]
        /\ UNCHANGED <<pc, validation, exit, age>>
    BY <1>8, Lands
  <2>2. tx'.status = "landed"
    <3>1. tx = [status |-> tx.status, pc |-> pc, ix |-> step.ix, by |-> step.by,
                side |-> step.side, amount |-> tx.amount, lockTs |-> tx.lockTs]
      BY <2>1 DEF Tracked
    <3> QED
      BY <2>1, <3>1
  <2>3. First' = First /\ Waiting' = Waiting /\ Proof' = Proof
    BY <1>f, <2>1, Same DEF Proof
  <2>4. /\ roots' = roots
        /\ locked' => locked \/ pc = Waiting + 1
        /\ resolved' => resolved \/ pc = Waiting + 2
    BY <1>v, <2>1 DEF Landing, MintTo, InitMarket, Deposit, LockMarket, Resolve, ClaimPayout,
      marketVars, positionVars, tokenVars
  <2> QED
    BY <1>q, <2>1, <2>2, <2>3, <2>4 DEF Quiet
<1>9. CASE Others
  <2>1. UNCHANGED <<pc, landed, validation, exit, age, tx>>
    BY <1>9, OthersKeep
  <2>2. /\ roots \subseteq roots'
        /\ UNCHANGED <<locked, resolved>>
    <3>1. CASE \E sn \in Snapshots : PublishRoot(sn)
      BY <3>1 DEF PublishRoot, marketVars
    <3>2. CASE \E n \in DepositAmounts, s \in Side : Deposit(Other, n, s)
      BY <3>2 DEF Deposit
    <3>3. CASE ClaimPayout(Other)
      BY <3>3 DEF ClaimPayout, marketVars
    <3> QED
      BY <1>9, <1>f, <3>1, <3>2, <3>3, OthersKeep
  <2> QED
    BY <1>q, <1>f, <2>1, <2>2, QuietKept
<1>10. CASE Pass
  <2>1. /\ UNCHANGED <<pc, landed, validation, exit, tx, locked, resolved, roots>>
        /\ age' = age \/ troubled' = (troubled \/ age' > Latency)
    BY <1>10, <1>v DEF Pass, Tick, marketVars
  <2>2. age' <= Latency
    <3>1. age' \in Nat /\ Latency \in Nat
      BY <1>10, LatencyNat DEF Pass, Sited
    <3>2. age' = age \/ ~(age' > Latency)
      BY <1>f, <2>1, Zenon
    <3> QED
      BY <1>q, <3>1, <3>2
  <2> QED
    BY <1>q, <1>f, <2>1, <2>2, QuietKept
<1> QED
  BY <1>1, <1>2, <1>3, <1>4, <1>5, <1>6, <1>7, <1>8, <1>9, <1>10 DEF Moves

LEMMA LeftSame ==
  ASSUME UNCHANGED <<script, plan>>, NEW j \in Int
  PROVE  Left(j)' = Left(j)
  BY DEF Left, After

LEMMA OnTimeNext ==
  ASSUME Sited, Tracked, Clocked, SInv, Linked, Timed, Supported, Smooth, Fine, Fine', Moves
  PROVE  OnTime'
<1>f. ~troubled' /\ UNCHANGED <<script, plan, skew>>
  BY FineBefore
<1>v. UNCHANGED vars => UNCHANGED <<now, lock_ts>>
  BY DEF vars, marketVars
<1>n. First \in Nat /\ Bets \in Nat /\ pc \in Nat
      /\ Opening = First + 2 /\ Waiting = First + 3 + Bets
  BY OpenedLater
<1>k. /\ step.op \in {"plan", "setup"} => pc < First
      /\ step.op = "fetch" <=> pc = First
      /\ step.op = "root" <=> pc = First + 1
      /\ step.op = "wait" <=> pc = Waiting
      /\ \A i \in 1 .. Bets : pc = Opening + i => step = BetAt(i)
  <2>1. \A i \in 1 .. Bets : pc = Opening + i =>
          pc \in Opening + 1 .. Waiting - 1 /\ pc - Opening = i
    BY <1>n
  <2> QED
    BY <2>1, Kinds DEF Sited
<1>i. /\ now \in Nat /\ lock_ts \in Nat /\ age \in Nat /\ skew \in Int
      /\ Latency \in Nat /\ age <= Latency
  <2>1. lock_ts \in Nat
    BY DEF SInv, IInv, TypeOK
  <2> QED
    BY <2>1, Numeric, LatencyNat DEF Clocked, Sited, Smooth, Quiet
<1>o. step.op \notin {"pause", "wait"} => until = {}
  BY DEF Sited
<1>t. ASSUME NEW i \in 1 .. Bets, pc = Opening + i
      PROVE  /\ until = {} => now + Left(i) <= lock_ts + age
             /\ \A t \in until : t - skew + Left(i + 1) <= lock_ts
  BY <1>t DEF Smooth, OnTime
<1>e. Opening' = Opening /\ Bets' = Bets
  BY <1>f, Same
<1> SUFFICES ASSUME NEW j \in 1 .. Bets, pc' = Opening + j
             PROVE  /\ until' = {} => now' + Left(j) <= lock_ts' + age'
                    /\ \A t \in until' : t - skew + Left(j + 1) <= lock_ts'
  <2>1. \A j \in 1 .. Bets : Left(j)' = Left(j) /\ Left(j + 1)' = Left(j + 1)
    BY <1>f, <1>n DEF Left, After
  <2> QED
    BY <1>e, <1>f, <2>1 DEF OnTime
<1>l. ASSUME NEW i \in 1 .. Bets, pc # 1
      PROVE  /\ Left(i) \in Int /\ Left(i) >= 0
             /\ BetAt(i).op = "tx" /\ i < Bets => Left(i) >= Latency + Left(i + 1)
             /\ BetAt(i).op = "pause" => /\ script = "m5" /\ Left(i + 1) \in Int
                                         /\ Left(i) = plan.sleepMax + Left(i + 1)
  <2>1. script = "m5" => PlanAccepted(plan)
    BY <1>l DEF Sited, PlanRead
  <2> QED
    BY <2>1, LeftFalls
<1>1. CASE UNCHANGED <<pc, until, now, lock_ts, age>>
  BY <1>1, <1>t
<1>2. CASE GoesOn
  <2>1. step.op \in {"plan", "setup", "fetch", "root"} /\ pc' = pc + 1
    BY <1>2 DEF GoesOn, Advance
  <2> QED
    BY <1>k, <1>n, <2>1
<1>3. CASE Done
  <2>1. /\ UNCHANGED <<vars, until>> /\ step.op = "tx" /\ pc' = pc + 1 /\ age' = 0
        /\ pc \in landed
    BY <1>3 DEF Done, Awaiting, Advance
  <2>2. until' = {}
    BY <1>o, <2>1
  <2>3. now + Left(j) <= lock_ts
    <3>1. CASE j = 1
      <4>1. pc = Opening /\ pc # 1
        BY <1>n, <2>1, <3>1
      <4>2. now <= age
        BY <4>1 DEF Timed
      <4>3. lock_ts = skew + Window
        BY <2>1, <4>1 DEF Clocked
      <4>4. Left(1) + Latency <= skew + Window /\ Left(1) \in Int
        BY <4>1, RoomForAll
      <4>5. Window \in Int
        BY Numeric DEF Sited
      <4> QED
        BY <1>i, <3>1, <4>2, <4>3, <4>4, <4>5
    <3>2. CASE j # 1
      <4>1. PICK i \in 1 .. Bets : j = i + 1 /\ i < Bets
        <5>1. j - 1 \in 1 .. Bets /\ j = (j - 1) + 1 /\ j - 1 < Bets
          BY <1>n, <3>2
        <5> QED
          BY <5>1
      <4>2. pc = Opening + i /\ pc # 1
        BY <1>n, <2>1, <4>1
      <4>3. BetAt(i).op = "tx"
        BY <1>k, <2>1, <4>2
      <4>4. Left(i) \in Int /\ Left(i) >= Latency + Left(j)
        BY <1>l, <4>1, <4>2, <4>3
      <4>5. now + Left(i) <= lock_ts + age
        BY <1>t, <2>1, <2>2, <4>2
      <4>6. Left(j) \in Int
        BY <1>l, <4>2
      <4> QED
        BY <1>i, <4>4, <4>5, <4>6
    <3> QED
      BY <3>1, <3>2
  <2> QED
    BY <1>v, <1>i, <2>1, <2>2, <2>3
<1>4. CASE SetTimer
  <2>1. /\ UNCHANGED <<vars, pc, age>> /\ until = {} /\ step.op \in {"pause", "wait"}
        /\ \E t \in IF step.op = "wait" THEN {lock_ts + step.buffer}
                    ELSE {Local + k : k \in step.range} : until' = {t}
    BY <1>4 DEF SetTimer
  <2>2. pc = Opening + j /\ pc # 1 /\ pc # Waiting
    BY <1>e, <1>n, <2>1
  <2>3. step = BetAt(j) /\ step.op = "pause" /\ age = 0
    BY <1>k, <2>1, <2>2 DEF Sited
  <2>4. /\ script = "m5" /\ Left(j + 1) \in Int /\ Left(j) \in Int
        /\ Left(j) = plan.sleepMax + Left(j + 1)
    BY <1>l, <2>2, <2>3
  <2>5. now + Left(j) <= lock_ts
    BY <1>i, <1>t, <2>1, <2>2, <2>3, <2>4
  <2>6. step.range = plan.sleepMin .. plan.sleepMax
    BY <2>3, BetFields DEF Sited
  <2>7. plan.sleepMin \in Int /\ plan.sleepMax \in Int
    <3>1. PlanAccepted(plan)
      BY <2>2, <2>4 DEF Sited, PlanRead
    <3> QED
      BY <2>4, <3>1, Paced
  <2>8. PICK k \in plan.sleepMin .. plan.sleepMax : until' = {now + skew + k}
    BY <2>1, <2>3, <2>6 DEF Local
  <2>9. k \in Int /\ k <= plan.sleepMax
    BY <2>7
  <2>10. (now + skew + k) - skew + Left(j + 1) <= lock_ts
    BY <1>i, <2>4, <2>5, <2>7, <2>9
  <2> QED
    BY <1>v, <2>1, <2>8, <2>10
<1>5. CASE Wake
  <2>1. /\ UNCHANGED vars /\ until' = {} /\ pc' = pc + 1 /\ age' = 0
    BY <1>5 DEF Wake, Advance
  <2>2. PICK t \in until : Local >= t
    BY <1>5 DEF Wake, Due
  <2>3. step.op \in {"pause", "wait"}
    BY <1>o, <2>2
  <2>4. pc # Opening /\ pc # Waiting
    <3>1. pc = Opening => step.op = "tx"
      BY <1>n, TxPlaces DEF Sited, step
    <3> QED
      BY <1>n, <2>1, <2>3, <3>1
  <2>5. PICK i \in 1 .. Bets : j = i + 1 /\ pc = Opening + i
    <3>1. j - 1 \in 1 .. Bets /\ j = (j - 1) + 1 /\ pc = Opening + (j - 1)
      BY <1>n, <2>1, <2>4
    <3> QED
      BY <3>1
  <2>6. step.op = "pause" /\ step = BetAt(i) /\ pc # 1
    BY <1>k, <1>n, <2>3, <2>4, <2>5
  <2>7. t \in Int /\ t = now + skew
    <3>1. t \in Int /\ Local <= t /\ Local \in Int
      BY <1>i, <2>6 DEF Timed, Local
    <3> QED
      BY <2>2, <3>1 DEF Local
  <2>8. t - skew + Left(j) <= lock_ts
    BY <1>t, <2>5
  <2>9. Left(j) \in Int
    BY <1>l, <2>6
  <2>10. now + Left(j) <= lock_ts
    BY <1>i, <2>7, <2>8, <2>9
  <2> QED
    BY <1>v, <1>i, <2>1, <2>9, <2>10
<1>6. CASE Land
  <2>1. Landing /\ UNCHANGED <<pc, until, age>>
    BY <1>6, Lands
  <2>2. pc # Opening
    BY <1>n, <2>1
  <2>3. UNCHANGED <<now, lock_ts>>
    BY <1>v, <2>1, <2>2 DEF Landing, MintTo, Deposit, LockMarket, Resolve, ClaimPayout, marketVars
  <2> QED
    BY <1>1, <2>1, <2>3
<1>7. CASE Others
  BY <1>1, <1>7, OthersKeep
<1>8. CASE Pass
  <2>1. /\ UNCHANGED <<pc, until, lock_ts>>
        /\ now' \in {now, now + 1}
    BY <1>8, <1>v DEF Pass, Tick, marketVars
  <2>2. CASE step.op = "tx" /\ age' = age + 1
    <3>1. pc # 1
      BY <1>n, <2>1
    <3>2. Left(j) \in Int
      BY <1>l, <3>1
    <3>3. until = {} /\ now + Left(j) <= lock_ts + age
      BY <1>o, <1>t, <2>1, <2>2
    <3> QED
      BY <1>i, <2>1, <2>2, <3>2, <3>3
  <2>3. CASE until # {}
    BY <1>t, <2>1, <2>3
  <2> QED
    BY <1>8, <2>2, <2>3 DEF Pass, At
<1>9. CASE Throws \/ Ends \/ Asked \/ Sent \/ Confirmed \/ Fails \/ UNCHANGED allVars
  <2>1. UNCHANGED <<vars, pc, until, age>>
    BY <1>9 DEF Throws, Throw, Ends, Asked, Sent, Confirmed, Fails, TxEnds, allVars, scriptVars
  <2> QED
    BY <1>1, <1>v, <2>1
<1> QED
  BY <1>2, <1>3, <1>4, <1>5, <1>6, <1>7, <1>8, <1>9 DEF Moves

LEMMA SmoothAlways == ScriptSpec => []Smooth
<1>1. ScriptInit => Smooth
  <2> SUFFICES ASSUME ScriptInit PROVE Quiet /\ OnTime
    BY DEF Smooth
  <2>1. First \in 2 .. 4 /\ Bets \in Nat /\ Opening = First + 2 /\ pc = 1
    BY SitedInit, Numbers DEF Sited, ScriptInit
  <2>2. OnTime
    BY <2>1 DEF OnTime
  <2>3. 0 <= Latency
    BY LatencyNat
  <2>4. {} # {1}
    OBVIOUS
  <2>5. Quiet
    BY <2>1, <2>3, <2>4 DEF ScriptInit, Init, Quiet, NoTx
  <2> QED
    BY <2>2, <2>5
<1>2. Sited /\ Tracked /\ Clocked /\ SInv /\ Linked /\ Timed /\ Supported /\ Smooth
      /\ [ScriptNext]_allVars => Smooth'
  <2> SUFFICES ASSUME Sited, Tracked, Clocked, SInv, Linked, Timed, Supported, Smooth,
                      [ScriptNext]_allVars, Fine'
               PROVE  Quiet' /\ OnTime'
    BY DEF Smooth
  <2>1. Moves
    BY StepsMove
  <2>2. Fine
    BY <2>1, FineBefore
  <2> QED
    BY <2>1, <2>2, QuietNext, OnTimeNext
<1> QED
  BY <1>1, <1>2, SitedAlways, TrackedAlways, ClockedAlways, StakesStay, ScriptsImplementProgram,
    LinkedAlways, TimedAlways, SupportedAlways, PTL DEF ScriptSpec

(* A script exits with 1 only when something around it went wrong, or when *)
(* its plan has no room in the lock window: nothing in the order of its    *)
(* steps, the lock time it chooses, the funds it was given and the signers *)
(* it names makes an instruction of it fail.                               *)
THEOREM FailuresExplained == ScriptSpec => []FailuresHaveCauses
<1>1. Smooth => FailuresHaveCauses
  BY DEF Smooth, Fine, Quiet, FailuresHaveCauses
<1> QED
  BY <1>1, SmoothAlways, PTL
=============================================================================
