----------------------------- MODULE ScoreFeed ------------------------------
(***************************************************************************)
(* The client of the score service (client/*.ts): the script that buys a   *)
(* subscription on chain, the sessions that spend it, the poll loop, and   *)
(* the capture of one match.  The service and the chain are external and   *)
(* do what docs/ENDPOINTS.md and docs/TXLINE-FEEDBACK.md say of them.      *)
(* Each program runs from one await to the next without interruption, so   *)
(* such a stretch is one action, which the answer begins.                  *)
(***************************************************************************)
EXTENDS Integers, Sequences, FiniteSets, SequencesExt

CONSTANTS
  Jwt,          \* the guest tokens of the service
  Sig,          \* the signatures that subscribe transactions may get
  Stale,        \* the one in schema-spike-live.json, used long ago
  Matches,      \* of each fixture, its stages: goals, cards, second, odds,
                \* and how the service reports the score
  FixtureFile,  \* the same of fixture.json, one stage each
  Lists,        \* the answers of /api/fixtures/snapshot: start times
  Now,          \* Date.now() of a capture, in minutes
  Tick,         \* bound: the ticks that may overlap
  MaxRuns,      \* bound: the programs that are started
  MaxFailures   \* bound: the requests that fail

(* A stage of a match, or the match of fixture.json.                       *)
Moments == [schema : {"live", "early", "flat", "list"}, home : Nat, away : Nat,
            homeRed : Nat, awayRed : Nat, second : Nat, odds : Seq(BOOLEAN)]

ASSUME FeedAssumption ==
  /\ Stale \notin Sig
  /\ Matches \in Seq(Seq(Moments)) /\ FixtureFile \in Seq(Moments)
  /\ Matches # <<>> /\ Matches[1] # <<>>
  /\ \A f \in DOMAIN Matches : Len(Matches[f]) = Len(Matches[1])
  /\ {MaxRuns, MaxFailures} \subseteq Nat

VARIABLES
  subscription,  \* what became of each subscribe transaction
  issued,        \* the guest tokens handed out
  spent,         \* the subscriptions that have been activated
  stage,         \* how far the matches are
  filed,         \* what each subscribe script has written to its file
  subscribe,     \* subscribe-fresh.ts and subscribe-fresh-helius.ts
  client,        \* the sessions of live-capture.ts and poll.ts
  tick,          \* the ticks of poll.ts under way
  printed,       \* what the last tick has printed
  runs, failures

service == <<subscription, issued, spent, stage>>
bounds == <<runs, failures>>
feedVars == <<service, filed, subscribe, client, tick, printed, bounds>>

Program == {"capture", "poll"}
Script == {"subscribe-fresh", "subscribe-fresh-helius"}

(* A client's session: where it is, the subscription it spends, what its   *)
(* wallet has signed, and its guest token; found is what a capture has     *)
(* read.  History: whether the subscription was in a file by then.         *)
Filed == (UNION {filed[v] : v \in Script}) \cup {Stale}
NothingFound == [target |-> {}, scores |-> {}, odds |-> {}, proof |-> {}]
Session(at, sig, signature) ==
  [at |-> at, sig |-> sig, signature |-> signature, jwt |-> {}, found |-> NothingFound,
   written |-> sig \in Filed]
Off == Session("off", Stale, <<>>)

(* A tick of poll.ts: the match it asks for, the stage at which it asked,  *)
(* what has been answered, and the states of the matches before.           *)
IdleTick == [at |-> "idle", asked |-> 0, scores |-> {}, odds |-> {}, states |-> <<>>]
Begun == [IdleTick EXCEPT !.at = "fixtures"]
FirstTick == CHOOSE t \in Tick : TRUE

(* At most MaxFailures requests fail; at most MaxRuns programs are run.    *)
Fails == failures < MaxFailures /\ failures' = failures + 1 /\ UNCHANGED runs
Runs == runs < MaxRuns /\ runs' = runs + 1 /\ UNCHANGED failures

-----------------------------------------------------------------------------
(* normalize.ts.  An absent field, or a null, is the empty set.            *)
OrZero(field) == IF field = {} THEN 0 ELSE CHOOSE n \in field : TRUE

(* How the service reports a stage: a nested block which leaves zeros out, *)
(* one without the participants, as before a match, the flat one of        *)
(* fixture.json, or a list, which live-capture.ts is prepared for.         *)
Counted(n) == {n} \ {0}
Participant(goals, cards) == {[Goals |-> Counted(goals), RedCards |-> Counted(cards)]}
Report(s) ==
  CASE s.schema = "live" -> [p1 |-> Participant(s.home, s.homeRed),
                           p2 |-> Participant(s.away, s.awayRed), Seconds |-> {s.second}]
    [] s.schema = "early" -> [p1 |-> {}, p2 |-> {}, Seconds |-> {}]
    [] s.schema = "flat" -> [homeScore |-> {s.home}, awayScore |-> {s.away},
                           minute |-> {s.second \div 60},
                           homeRed |-> {s.homeRed}, awayRed |-> {s.awayRed}]
    [] s.schema = "list" -> [homeScore |-> {}, awayScore |-> {}, minute |-> {},
                           homeRed |-> {}, awayRed |-> {}]

minuteToPhaseOpen(minute) ==  \* mutant: the boundary belongs to the next
  Cardinality({last \in {15, 30, 45, 60, 75, 90} : minute >= last}) + 1
minuteToPhase(minute) == Cardinality({last \in {15, 30, 45, 60, 75, 90} : minute > last}) + 1

extractLiveSchema(r) ==
  [homeScore |-> {OrZero(total.Goals) : total \in r.p1},
   awayScore |-> {OrZero(total.Goals) : total \in r.p2},
   minute |-> {seconds \div 60 : seconds \in r.Seconds},
   homeRed |-> {OrZero(total.RedCards) : total \in r.p1},
   awayRed |-> {OrZero(total.RedCards) : total \in r.p2}]

(* The odds of a snapshot: their InRunning flags.                          *)
bestOdds(odds) ==
  IF odds = <<>> THEN {}
  ELSE {IF \E n \in DOMAIN odds : odds[n] THEN TRUE ELSE Head(odds)}

normalizeMatchState(scores, odds) ==
  LET x == IF "p1" \in DOMAIN scores THEN extractLiveSchema(scores) ELSE scores
  IN  [homeScore |-> x.homeScore, awayScore |-> x.awayScore,
       scoreDifferential |-> {h - a : h \in x.homeScore, a \in x.awayScore},
       currentMinute |-> x.minute,
       matchPhase |-> {minuteToPhase(minute) : minute \in x.minute},
       redCardDelta |-> {h - a : h \in x.homeRed, a \in x.awayRed},
       isLive |-> TRUE \in bestOdds(odds)]

-----------------------------------------------------------------------------
FeedInit ==
  /\ subscription = [s \in Sig |-> "none"]
  /\ issued = {} /\ spent = {Stale} /\ stage = 1
  /\ filed = [v \in Script |-> {}]
  /\ subscribe = [v \in Script |-> [at |-> "off", sig |-> {}]]
  /\ client = [p \in Program |-> Off]
  /\ tick = [t \in Tick |-> IdleTick]
  /\ printed = <<>>
  /\ runs = 0 /\ failures = 0

(* What a user can paste into TX_SIG: what a script has printed, which it  *)
(* does as soon as the transaction is sent ("Tx sent: ...").               *)
Pasted == {s \in Sig : subscription[s] # "none"} \cup {Stale}

-----------------------------------------------------------------------------
(* subscribe-fresh.ts, from await to await; any error ends it.             *)
SubscribeTo(v, at, sig) == subscribe' = [subscribe EXCEPT ![v] = [at |-> at, sig |-> sig]]

SubscribeStarts(v) ==
  /\ subscribe[v].at \in {"off", "failed", "written"}
  /\ Runs
  /\ SubscribeTo(v, "blockhash", {})
  /\ UNCHANGED <<service, filed, client, tick, printed>>

SubscribeSends(v) ==
  /\ subscribe[v].at = "blockhash"
  /\ \E s \in Sig :
       /\ subscription[s] = "none"
       /\ subscription' = [subscription EXCEPT ![s] = "sent"]
       /\ SubscribeTo(v, "confirm", {s})
  /\ UNCHANGED <<issued, spent, stage, filed, client, tick, printed, bounds>>

(* confirmTransaction answers with an error, too, when the transaction is  *)
(* in a block and has failed; confirmation.value.err is what tells.        *)
AnyConfirmation(s) == subscription[s] \in {"confirmed", "reverted"}  \* mutant
Confirmation(s) == subscription[s] = "confirmed"

SubscribeConfirms(v) ==
  /\ subscribe[v].at = "confirm"
  /\ \E s \in subscribe[v].sig :
       /\ subscription[s] # "sent"
       /\ SubscribeTo(v, IF Confirmation(s) THEN "slot" ELSE "failed", {s})
  /\ UNCHANGED <<service, filed, client, tick, printed, bounds>>

SubscribeWrites(v) ==
  /\ subscribe[v].at = "slot"
  /\ filed' = [filed EXCEPT ![v] = subscribe[v].sig]
  /\ SubscribeTo(v, "written", subscribe[v].sig)
  /\ UNCHANGED <<service, client, tick, printed, bounds>>

SubscribeFails(v) ==
  /\ subscribe[v].at \in {"blockhash", "confirm", "slot"}
  /\ Fails
  /\ SubscribeTo(v, "failed", subscribe[v].sig)
  /\ UNCHANGED <<service, filed, client, tick, printed>>

(* The chain decides.                                                      *)
Decide(s) ==
  /\ subscription[s] = "sent"
  /\ \E fate \in {"confirmed", "reverted", "expired"} :
       subscription' = [subscription EXCEPT ![s] = fate]
  /\ UNCHANGED <<issued, spent, stage, filed, subscribe, client, tick, printed, bounds>>

-----------------------------------------------------------------------------
(* TxLineClient's session: guestStart, then activateToken.  The service    *)
(* activates a confirmed subscription once, on a signature of its wallet   *)
(* over the subscription and the guest token of the request.               *)
Accepts(c) ==
  /\ c.sig \in Sig \ spent /\ subscription[c.sig] = "confirmed"
  /\ \E jwt \in c.jwt : c.signature = <<c.sig, jwt>>

Goes(p, at) == client' = [client EXCEPT ![p].at = at]

(* A session that is activated, or has failed, does not use them again.    *)
Leaves(p, at) == client' = [client EXCEPT ![p] = [Off EXCEPT !.at = at]]

(* liveAuth signs when it has the guest token; poll.ts has been given      *)
(* WALLET_SIG when it was started.                                         *)
SignedAlone(p, jwt) ==  \* mutant: the subscription without the token
  IF p = "capture" THEN <<client[p].sig>> ELSE client[p].signature
Signed(p, jwt) == IF p = "capture" THEN <<client[p].sig, jwt>> ELSE client[p].signature

GuestStart(p) ==
  /\ client[p].at = "guest"
  /\ \E jwt \in Jwt :
       /\ issued' = issued \cup {jwt}
       /\ client' = [client EXCEPT ![p].at = "activate", ![p].jwt = {jwt},
                                    ![p].signature = Signed(p, jwt)]
  /\ UNCHANGED <<subscription, spent, stage, filed, subscribe, tick, printed, bounds>>

Activate(p) ==
  /\ client[p].at = "activate"
  /\ \/ /\ Accepts(client[p])
        /\ spent' = spent \cup {client[p].sig}
        /\ Leaves(p, IF p = "capture" THEN "list" ELSE "first")
        /\ tick' = IF p = "capture" THEN tick ELSE [tick EXCEPT ![FirstTick] = Begun]
     \/ /\ ~Accepts(client[p])
        /\ Goes(p, "refused")
        /\ UNCHANGED <<spent, tick>>
  /\ UNCHANGED <<subscription, issued, stage, filed, subscribe, printed, bounds>>

(* A request fails, or the service activates and the answer is lost.       *)
SessionFails(p) ==
  /\ client[p].at \in {"guest", "activate", "list"}
  /\ Fails
  /\ Leaves(p, "failed")
  /\ \/ UNCHANGED spent
     \/ /\ client[p].at = "activate" /\ Accepts(client[p])
        /\ spent' = spent \cup {client[p].sig}
  /\ UNCHANGED <<subscription, issued, stage, filed, subscribe, tick, printed>>

(* A program is started when it does not run: main, up to its first await. *)
Starts(p, c) ==
  /\ client[p].at \notin {"guest", "activate", "list", "read", "proof", "first", "polling"}
  /\ Runs
  /\ client' = [client EXCEPT ![p] = c]

-----------------------------------------------------------------------------
(* poll.ts.  A state is kept as the answers it is made of: the stages of   *)
(* the scores and the odds, and those between which they came, or 0 for    *)
(* fixture.json.                                                           *)
FromFile == [since |-> 0, until |-> 0, scores |-> 0, odds |-> 0]
MatchState(f, p) ==
  LET at(n) == IF n = 0 THEN FixtureFile[f] ELSE Matches[f][n]
  IN  normalizeMatchState(Report(at(p.scores)), at(p.odds).odds)

(* Without USE_LIVE: one tick from fixture.json, and the end.              *)
PollFixture ==
  /\ Starts("poll", [Off EXCEPT !.at = "finished"])
  /\ printed' = [f \in DOMAIN FixtureFile |-> FromFile]
  /\ UNCHANGED <<service, filed, subscribe, tick>>

(* With it: TX_SIG and WALLET_SIG are what the user has at that time.      *)
PollLive ==
  /\ \E s \in Pasted :
       \E signature \in {<<s>>} \cup {<<s, jwt>> : jwt \in issued} :
         Starts("poll", Session("guest", s, signature))
  /\ UNCHANGED <<service, filed, subscribe, tick, printed>>

TickGoes(t, to) ==
  /\ tick' = [tick EXCEPT ![t] = to]
  /\ UNCHANGED <<service, filed, subscribe>>

(* setInterval, whether or not the ticks before have ended.                *)
TickStarts(t) ==
  /\ client["poll"].at = "polling" /\ tick[t].at = "idle"
  /\ TickGoes(t, Begun)
  /\ UNCHANGED <<client, printed, bounds>>

(* The fixtures arrive; the scores and the odds of each, one after the     *)
(* other, are asked for together and are those of the time in between.     *)
FixturesArrive(t) ==
  /\ tick[t].at = "fixtures"
  /\ TickGoes(t, [tick[t] EXCEPT !.at = "match", !.asked = stage])
  /\ UNCHANGED <<client, printed, bounds>>

ScoresArrive(t) ==
  /\ tick[t].at = "match" /\ tick[t].scores = {}
  /\ \E n \in tick[t].asked .. stage : TickGoes(t, [tick[t] EXCEPT !.scores = {n}])
  /\ UNCHANGED <<client, printed, bounds>>

OddsArrive(t) ==
  /\ tick[t].at = "match" /\ tick[t].odds = {}
  /\ \E n \in tick[t].asked .. stage : TickGoes(t, [tick[t] EXCEPT !.odds = {n}])
  /\ UNCHANGED <<client, printed, bounds>>

(* The setInterval of main follows the first tick.                         *)
AfterFirst(t) ==
  client' = IF client["poll"].at = "first" THEN [client EXCEPT !["poll"].at = "polling"]
            ELSE client

(* With both: the state is made, and the next match asked for, or all the  *)
(* states printed.                                                         *)
Normalizes(t) ==
  /\ \E m \in tick[t].scores, n \in tick[t].odds :
       LET states == Append(tick[t].states, [since |-> tick[t].asked, until |-> stage,
                                             scores |-> m, odds |-> n])
       IN  IF Len(states) < Len(Matches)
           THEN /\ TickGoes(t, [IdleTick EXCEPT !.at = "match", !.asked = stage,
                                                !.states = states])
                /\ UNCHANGED <<client, printed>>
           ELSE TickGoes(t, IdleTick) /\ printed' = states /\ AfterFirst(t)
  /\ UNCHANGED bounds

(* Any request that fails ends the tick, which runTick catches.            *)
AfterTickErrorExits(t) ==  \* mutant: as without USE_LIVE
  client' = [client EXCEPT !["poll"].at = "exited"]
AfterTickError(t) == AfterFirst(t)

TickFails(t) ==
  /\ tick[t].at # "idle"
  /\ Fails
  /\ TickGoes(t, IdleTick)
  /\ AfterTickError(t)
  /\ UNCHANGED printed

Interrupt ==  \* SIGINT
  /\ client["poll"].at \in {"first", "polling"}
  /\ Goes("poll", "stopped")
  /\ tick' = [t \in Tick |-> IdleTick]
  /\ UNCHANGED <<service, filed, subscribe, printed, bounds>>

-----------------------------------------------------------------------------
(* live-capture.ts.  Its environment names a subscription, or it takes the *)
(* one subscribe-fresh.ts has filed, or else the old one.                  *)
loadWalletCreds ==
  Pasted \cup (IF filed["subscribe-fresh"] # {} THEN filed["subscribe-fresh"] ELSE {Stale})

CaptureStarts ==
  /\ \E s \in loadWalletCreds : Starts("capture", Session("guest", s, <<>>))
  /\ UNCHANGED <<service, filed, subscribe, tick, printed>>

(* The match: the last started of those within 150 minutes, or else of all *)
(* that have started, where the first listed is taken before them.         *)
LaterStart(a, b) == IF a > b THEN a ELSE b
Target(list) ==
  LET past == SelectSeq(list, LAMBDA start : start <= Now)
      live == SelectSeq(past, LAMBDA start : Now - start < 150)
  IN  [live |-> live # <<>>,
       start |-> IF live # <<>> THEN FoldLeft(LaterStart, Head(live), Tail(live))
                 ELSE FoldLeft(LaterStart, Head(list), past)]

CaptureLists ==
  /\ client["capture"].at = "list"
  /\ \E list \in Lists :
       client' = [client EXCEPT !["capture"].at = IF list = <<>> THEN "failed" ELSE "read",
                                !["capture"].found.target =
                                  IF list = <<>> THEN {} ELSE {Target(list)}]
  /\ UNCHANGED <<service, filed, subscribe, tick, printed, bounds>>

(* Scores, odds and proof may fail each: the error is captured instead.    *)
(* What has been written is not kept.                                      *)
CaptureReads(part) ==
  /\ client["capture"].at = "read" /\ client["capture"].found[part] = {}
  /\ \/ /\ UNCHANGED bounds
        /\ \E answer \in {"answer"} \cup (IF part = "odds" THEN {"no odds"} ELSE {}) :
             client' = [client EXCEPT !["capture"].found[part] = {answer}]
     \/ /\ Fails
        /\ client' = [client EXCEPT !["capture"].found[part] = {"error"}]
  /\ UNCHANGED <<service, filed, subscribe, tick, printed>>

CaptureProof ==
  /\ client["capture"].at = "read"
  /\ client["capture"].found.scores # {} /\ client["capture"].found.odds = {"answer"}
  /\ CaptureReads("proof")

CaptureWrites ==
  LET found == client["capture"].found
  IN  /\ client["capture"].at = "read"
      /\ found.scores # {}
      /\ found.odds # {} /\ (found.odds = {"answer"} => found.proof # {})
      /\ client' = [client EXCEPT !["capture"].at = "written",
                                   !["capture"].found = NothingFound]
      /\ UNCHANGED <<service, filed, subscribe, tick, printed, bounds>>

-----------------------------------------------------------------------------
Play ==  \* the matches go on
  /\ stage < Len(Matches[1])
  /\ stage' = stage + 1
  /\ UNCHANGED <<subscription, issued, spent, filed, subscribe, client, tick, printed, bounds>>

Subscribing(v) ==
  \/ SubscribeStarts(v) \/ SubscribeSends(v) \/ SubscribeConfirms(v)
  \/ SubscribeWrites(v) \/ SubscribeFails(v)
Authenticating(p) == GuestStart(p) \/ Activate(p) \/ SessionFails(p)
Polls(t) == FixturesArrive(t) \/ ScoresArrive(t) \/ OddsArrive(t) \/ Normalizes(t)
Captures ==
  \/ CaptureStarts \/ CaptureLists \/ CaptureProof \/ CaptureWrites
  \/ CaptureReads("scores") \/ CaptureReads("odds")

Next ==
  \/ \E v \in Script : Subscribing(v)
  \/ \E s \in Sig : Decide(s)
  \/ \E p \in Program : Authenticating(p)
  \/ PollFixture \/ PollLive \/ Interrupt
  \/ \E t \in Tick : TickStarts(t) \/ Polls(t) \/ TickFails(t)
  \/ Captures
  \/ Play

Spec == FeedInit /\ [][Next]_feedVars

(* setInterval fires, the service answers in the end.                      *)
FairSpec ==
  /\ Spec
  /\ \A t \in Tick : WF_feedVars(TickStarts(t)) /\ WF_feedVars(Polls(t))

-----------------------------------------------------------------------------
(* A capture that brings what a script has filed is turned away only when  *)
(* it had been spent, by another session or by one whose answer was lost:  *)
(* no subscription that its transaction has not bought is ever filed       *)
(* (subscribe-fresh.ts reads the error in the confirmation), and what      *)
(* liveAuth signs names the guest token of its own request.  A signature   *)
(* that a user has pasted before any script filed it may be refused.       *)
RefusedOnlyIfSpent ==
  client["capture"].at = "refused" /\ client["capture"].written
    => client["capture"].sig \in spent

(* What poll.ts prints is what was so while it asked, though the parts are *)
(* of different times: the goals, the cards and the 15 minutes of one      *)
(* moment, unless the report left them out, and the flag of one.           *)
Truth(s) ==
  [homeScore |-> s.home, awayScore |-> s.away, scoreDifferential |-> s.home - s.away,
   currentMinute |-> s.second \div 60, redCardDelta |-> s.homeRed - s.awayRed,
   matchPhase |-> IF s.second < 16 * 60 THEN 1
                  ELSE IF s.second >= 91 * 60 THEN 7 ELSE (s.second \div 60 - 1) \div 15 + 1]
PrintedIsTrue ==
  \A f \in DOMAIN printed :
    LET p == printed[f]
        state == MatchState(f, p)
        moments == IF p.since = 0 THEN {FixtureFile[f]}
                   ELSE {Matches[f][n] : n \in p.since .. p.until}
    IN  /\ \E s \in moments :
             \A field \in DOMAIN Truth(s) :
               state[field] = IF s.schema \in {"live", "flat"} THEN {Truth(s)[field]} ELSE {}
        /\ \E s \in moments : state.isLive = (TRUE \in {s.odds[n] : n \in DOMAIN s.odds})

(* A poll that has authenticated goes on until it is interrupted: failed   *)
(* requests and overlapping ticks delay what it shows, and in the end it   *)
(* shows the present (setInterval, and the catch of runTick).              *)
UpToDate == Len(printed) = Len(Matches) /\ \A f \in DOMAIN printed : printed[f].since = stage
PollCatchesUp == <>[](client["poll"].at \in {"first", "polling", "exited"} => UpToDate)
=============================================================================
