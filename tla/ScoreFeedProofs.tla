-------------------------- MODULE ScoreFeedProofs ---------------------------
(***************************************************************************)
(* The score feed client, for any number of matches, stages, guest tokens, *)
(* subscriptions, overlapping ticks and failures: which subscriptions a    *)
(* capture brings to the service, and what a poll prints.                  *)
(***************************************************************************)
EXTENDS ScoreFeed, FiniteSetTheorems, SequenceTheorems, TLAPS

-----------------------------------------------------------------------------
(* The subscriptions.                                                      *)

(* A signature is in a file only when its transaction has been confirmed,  *)
(* and a script that has come that far holds such a signature.             *)
Bought(s) == s \in Sig /\ subscription[s] = "confirmed"
FilesBought ==
  \A v \in Script :
    /\ \A s \in filed[v] : Bought(s)
    /\ subscribe[v].sig \subseteq Sig
    /\ subscribe[v].at \in {"slot", "written"} => \A s \in subscribe[v].sig : Bought(s)

(* The records keep their fields.                                          *)
SessionFields == {"at", "sig", "signature", "jwt", "found", "written"}
FeedShape ==
  /\ subscription \in [Sig -> {"none", "sent", "confirmed", "reverted", "expired"}]
  /\ filed \in [Script -> SUBSET Sig]
  /\ DOMAIN subscribe = Script
  /\ DOMAIN client = Program
  /\ \A p \in Program : DOMAIN client[p] = SessionFields

(* What a capture brings from a file is a subscription it may still        *)
(* activate, unless that has been done already: of the old one it has,     *)
(* long ago.                                                               *)
CaptureCanPay ==
  LET c == client["capture"]
  IN  /\ c.written => Bought(c.sig) \/ c.sig \in spent
      /\ c.at = "activate" => \E jwt \in c.jwt : c.signature = <<c.sig, jwt>>

FeedInv ==
  /\ FeedShape /\ FilesBought /\ Stale \in spent
  /\ CaptureCanPay /\ RefusedOnlyIfSpent

-----------------------------------------------------------------------------
(* The ticks.                                                              *)
Stages == 1 .. Len(Matches[1])

(* The states that a tick makes: each part is of a stage between the one   *)
(* at which the match was asked for and the one at which it was made.      *)
LiveState ==
  {s \in [since : Stages, until : Stages, scores : Stages, odds : Stages] :
     /\ s.since <= s.scores /\ s.scores <= s.until
     /\ s.since <= s.odds /\ s.odds <= s.until}

Ticking == [at : {"idle", "fixtures", "match"}, asked : 0 .. Len(Matches[1]),
            scores : SUBSET Stages, odds : SUBSET Stages, states : Seq(LiveState)]

AskedInTime(x, now) ==
  /\ x.at = "match" => x.asked \in 1 .. now
  /\ \A n \in x.scores \cup x.odds :
       x.at = "match" /\ x.asked <= n /\ n <= now
  /\ Len(x.states) < Len(Matches)

PrintedInv ==
  \/ printed = [f \in DOMAIN FixtureFile |-> FromFile]
  \/ printed \in Seq(LiveState) /\ Len(printed) <= Len(Matches)

TickInv ==
  /\ stage \in Stages
  /\ tick \in [Tick -> Ticking]
  /\ \A t \in Tick : AskedInTime(tick[t], stage)
  /\ PrintedInv

-----------------------------------------------------------------------------
(* Which subscriptions are brought to the service.                         *)

(* Steps of the poll, and all others that leave the chain, the scripts and *)
(* the capture alone.                                                      *)
LEMMA RestKeepsFeed ==
  ASSUME FeedInv, UNCHANGED <<subscription, spent, filed, subscribe>>,
         DOMAIN client' = Program, client'["capture"] = client["capture"],
         DOMAIN client'["poll"] = DOMAIN client["poll"]
  PROVE  FeedInv'
<1> USE DEF FeedInv
<1>1. FeedShape'
  BY DEF FeedShape, Program
<1>2. FilesBought'
  BY DEF FilesBought, Bought
<1>3. CaptureCanPay' /\ RefusedOnlyIfSpent' /\ Stale \in spent'
  BY DEF CaptureCanPay, Bought, RefusedOnlyIfSpent
<1> QED
  BY <1>1, <1>2, <1>3

(* What has been confirmed stays so, whatever a script sends.              *)
LEMMA SubscribingKeepsFeed ==
  ASSUME FeedInv, NEW v \in Script, Subscribing(v)
  PROVE  FeedInv'
<1> USE DEF FeedInv
<1>1. /\ UNCHANGED <<client, spent>>
      /\ \E at, sig : subscribe' = [subscribe EXCEPT ![v] = [at |-> at, sig |-> sig]]
  BY DEF Subscribing, SubscribeStarts, SubscribeSends, SubscribeConfirms,
    SubscribeWrites, SubscribeFails, SubscribeTo, service, bounds, Runs, Fails
<1>2. /\ subscription' \in [Sig -> {"none", "sent", "confirmed", "reverted", "expired"}]
      /\ \A s \in Sig : subscription[s] = "confirmed" => subscription'[s] = "confirmed"
  BY DEF Subscribing, SubscribeStarts, SubscribeSends, SubscribeConfirms,
    SubscribeWrites, SubscribeFails, service, FeedShape
<1>3. \A s : Bought(s) => Bought(s)'
  BY <1>2 DEF Bought
<1>4. /\ subscribe'[v].sig \subseteq Sig
      /\ subscribe'[v].at \in {"slot", "written"}
           => \A s \in subscribe'[v].sig : Bought(s)'
  <2> USE DEF SubscribeTo
  <2>1. CASE SubscribeStarts(v)
    BY <2>1 DEF SubscribeStarts, FeedShape
  <2>2. CASE SubscribeSends(v)
    BY <2>2 DEF SubscribeSends, FeedShape
  <2>3. CASE SubscribeConfirms(v)
    <3>1. PICK s \in subscribe[v].sig :
            /\ subscription[s] # "sent"
            /\ subscribe' = [subscribe EXCEPT ![v] =
                 [at |-> IF Confirmation(s) THEN "slot" ELSE "failed", sig |-> {s}]]
      BY <2>3 DEF SubscribeConfirms
    <3>2. s \in Sig /\ (Confirmation(s) => Bought(s))
      BY <3>1 DEF FilesBought, Bought, Confirmation
    <3> QED
      BY <1>3, <3>1, <3>2 DEF FeedShape
  <2>4. CASE SubscribeWrites(v)
    BY <1>3, <2>4 DEF SubscribeWrites, FeedShape, FilesBought
  <2>5. CASE SubscribeFails(v)
    BY <2>5 DEF SubscribeFails, FeedShape, FilesBought
  <2> QED
    BY <2>1, <2>2, <2>3, <2>4, <2>5 DEF Subscribing
<1>5. /\ filed' \in [Script -> SUBSET Sig]
      /\ \A w \in Script : \A s \in filed'[w] : Bought(s)'
  <2>1. CASE SubscribeWrites(v)
    <3>1. /\ filed' = [filed EXCEPT ![v] = subscribe[v].sig]
          /\ \A s \in subscribe[v].sig : s \in Sig /\ Bought(s)
      BY <2>1 DEF SubscribeWrites, FilesBought
    <3> QED
      BY <1>3, <3>1 DEF FilesBought, FeedShape
  <2>2. CASE ~SubscribeWrites(v)
    <3>1. UNCHANGED filed
      BY <2>2 DEF Subscribing, SubscribeStarts, SubscribeSends, SubscribeConfirms,
        SubscribeFails
    <3> QED
      BY <1>3, <3>1 DEF FilesBought, FeedShape
  <2> QED
    BY <2>1, <2>2
<1>6. FeedShape'
  BY <1>1, <1>2, <1>5 DEF FeedShape
<1>7. FilesBought'
  <2>1. \A w \in Script : w # v => subscribe'[w] = subscribe[w]
    BY <1>1 DEF FeedShape
  <2> QED
    BY <1>3, <1>4, <1>5, <2>1 DEF FilesBought
<1>8. CaptureCanPay' /\ RefusedOnlyIfSpent' /\ Stale \in spent'
  BY <1>1, <1>3 DEF CaptureCanPay, RefusedOnlyIfSpent
<1> QED
  BY <1>6, <1>7, <1>8

(* The chain decides of what has been sent.                                *)
LEMMA DecideKeepsFeed ==
  ASSUME FeedInv, NEW d \in Sig, Decide(d)
  PROVE  FeedInv'
<1> USE DEF FeedInv
<1>1. /\ UNCHANGED <<client, spent, filed, subscribe>>
      /\ subscription' \in [Sig -> {"none", "sent", "confirmed", "reverted", "expired"}]
      /\ \A s \in Sig : subscription[s] = "confirmed" => subscription'[s] = "confirmed"
  BY DEF Decide, FeedShape
<1>2. \A s : Bought(s) => Bought(s)'
  BY <1>1 DEF Bought
<1> QED
  BY <1>1, <1>2 DEF FeedShape, FilesBought, CaptureCanPay, RefusedOnlyIfSpent

(* A session: it has the token it asked for, its signature names it, and   *)
(* the service refuses it only what is spent.                              *)
LEMMA AuthenticatingKeepsFeed ==
  ASSUME FeedInv, NEW p \in Program, Authenticating(p)
  PROVE  FeedInv'
<1> USE DEF FeedInv
<1>1. /\ UNCHANGED <<subscription, filed, subscribe>>
      /\ spent \subseteq spent'
  BY DEF Authenticating, GuestStart, Activate, SessionFails
<1>2. /\ DOMAIN client' = Program
      /\ \A q \in Program : DOMAIN client'[q] = DOMAIN client[q]
      /\ \A q \in Program : q # p => client'[q] = client[q]
      /\ \/ /\ client'[p].sig = client[p].sig
            /\ client'[p].written = client[p].written
         \/ client'[p].sig = Stale /\ client'[p].at # "refused"
  <2>1. DOMAIN client = Program /\ p \in Program /\ DOMAIN client[p] = SessionFields
    BY DEF FeedShape
  <2>2. CASE GuestStart(p)
    BY <2>1, <2>2 DEF GuestStart, SessionFields
  <2>3. CASE Activate(p)
    BY <2>1, <2>3 DEF Activate, Goes, Leaves, Off, Session, SessionFields
  <2>4. CASE SessionFails(p)
    BY <2>1, <2>4 DEF SessionFails, Leaves, Off, Session, SessionFields
  <2> QED
    BY <2>2, <2>3, <2>4 DEF Authenticating
<1>3. FeedShape' /\ FilesBought' /\ Stale \in spent'
  BY <1>1, <1>2 DEF FeedShape, FilesBought, Bought
<1>4. CASE p # "capture"
  <2>1. client'["capture"] = client["capture"]
    BY <1>2, <1>4 DEF Program
  <2> QED
    BY <1>1, <1>3, <2>1 DEF CaptureCanPay, RefusedOnlyIfSpent, Bought
<1>5. CASE p = "capture"
  <2> DEFINE c == client["capture"]
  <2>1. c.written => Bought(c.sig) \/ c.sig \in spent'
    BY <1>1 DEF CaptureCanPay
  <2>2. CASE GuestStart(p)
    <3>1. PICK jwt \in Jwt :
            client' = [client EXCEPT ![p].at = "activate", ![p].jwt = {jwt},
                                      ![p].signature = Signed(p, jwt)]
      BY <2>2 DEF GuestStart
    <3>2. /\ client'["capture"].at = "activate"
          /\ client'["capture"].jwt = {jwt}
          /\ client'["capture"].signature = <<c.sig, jwt>>
          /\ client'["capture"].sig = c.sig
      BY <1>5, <3>1 DEF FeedShape, Signed
    <3> QED
      BY <1>1, <1>2, <1>3, <1>5, <2>1, <3>2 DEF CaptureCanPay, RefusedOnlyIfSpent,
        Bought
  <2>3. CASE Activate(p)
    <3>0. /\ DOMAIN client = Program /\ p \in Program /\ p = "capture"
          /\ DOMAIN client[p] = SessionFields
      BY <1>5 DEF FeedShape
    <3>1. /\ c.at = "activate"
          /\ client'["capture"].at \in {"list", "refused"}
          /\ client'["capture"].at = "refused" => ~Accepts(c)
      <4>1. CASE Accepts(client[p])
        BY <2>3, <3>0, <4>1 DEF Activate, Leaves, Off, Session
      <4>2. CASE ~Accepts(client[p])
        BY <2>3, <3>0, <4>2 DEF Activate, Goes, SessionFields
      <4> QED
        BY <4>1, <4>2
    <3>2. ~Accepts(c) /\ c.written => c.sig \in spent
      BY <3>1 DEF Accepts, CaptureCanPay, Bought
    <3> QED
      BY <1>1, <1>2, <1>3, <1>5, <2>1, <3>1, <3>2 DEF CaptureCanPay, RefusedOnlyIfSpent,
        Bought
  <2>4. CASE SessionFails(p)
    <3>1. client'["capture"].at = "failed"
      BY <1>5, <2>4 DEF SessionFails, Leaves, Off, Session, FeedShape
    <3> QED
      BY <1>1, <1>2, <1>3, <1>5, <2>1, <3>1 DEF CaptureCanPay, RefusedOnlyIfSpent,
        Bought
  <2> QED
    BY <2>2, <2>3, <2>4 DEF Authenticating
<1> QED
  BY <1>4, <1>5

(* A capture is started with what a script has filed, with the old one, or *)
(* with what its user has pasted.                                          *)
LEMMA CaptureStartKeepsFeed ==
  ASSUME FeedInv, CaptureStarts
  PROVE  FeedInv'
<1> USE DEF FeedInv
<1>1. PICK s \in loadWalletCreds :
        client' = [client EXCEPT !["capture"] = Session("guest", s, <<>>)]
  BY DEF CaptureStarts, Starts
<1>2. UNCHANGED <<subscription, spent, filed, subscribe>>
  BY DEF CaptureStarts, service
<1>3. s \in Filed => Bought(s) \/ s \in spent
  <2>1. s \in Filed => s = Stale \/ \E v \in Script : s \in filed[v]
    BY DEF Filed
  <2> QED
    BY <2>1 DEF FilesBought
<1>4. /\ DOMAIN client' = Program
      /\ \A p \in Program : DOMAIN client'[p] = SessionFields
      /\ client'["capture"].sig = s /\ client'["capture"].at = "guest"
      /\ client'["capture"].written = (s \in Filed)
  <2>1. /\ Session("guest", s, <<>>).sig = s /\ Session("guest", s, <<>>).at = "guest"
        /\ Session("guest", s, <<>>).written = (s \in Filed)
        /\ DOMAIN Session("guest", s, <<>>) = SessionFields
    BY DEF Session, SessionFields
  <2>2. client'["capture"] = Session("guest", s, <<>>)
    BY <1>1 DEF FeedShape, Program
  <2>3. DOMAIN client' = Program /\ \A p \in Program : p # "capture" => client'[p] = client[p]
    BY <1>1 DEF FeedShape
  <2> QED
    BY <2>1, <2>2, <2>3 DEF FeedShape
<1>5. FeedShape' /\ FilesBought'
  BY <1>2, <1>4 DEF FeedShape, FilesBought, Bought
<1> QED
  BY <1>2, <1>3, <1>4, <1>5 DEF CaptureCanPay, RefusedOnlyIfSpent, Bought

(* What the capture does with its session leaves the subscription alone.   *)
LEMMA CapturingKeepsFeed ==
  ASSUME FeedInv,
         \/ CaptureLists \/ CaptureProof \/ CaptureWrites
         \/ CaptureReads("scores") \/ CaptureReads("odds")
  PROVE  FeedInv'
<1> USE DEF FeedInv
<1>1. UNCHANGED <<subscription, spent, filed, subscribe>>
  BY DEF CaptureLists, CaptureProof, CaptureReads, CaptureWrites, service
<1> DEFINE Kept == /\ DOMAIN client' = Program
                   /\ \A p \in Program : DOMAIN client'[p] = DOMAIN client[p]
                   /\ client'["capture"].sig = client["capture"].sig
                   /\ client'["capture"].written = client["capture"].written
                   /\ client'["capture"].at \in {"failed", "read", "written"}
<1>2. ASSUME NEW at \in {"failed", "read", "written"}, NEW x,
             client' = [client EXCEPT !["capture"].at = at, !["capture"].found = x]
      PROVE  Kept
  BY <1>2 DEF FeedShape, Program
<1>3. ASSUME NEW part, NEW x, client["capture"].at = "read",
             client' = [client EXCEPT !["capture"].found[part] = x]
      PROVE  Kept
  BY <1>3 DEF FeedShape, Program
<1>4. ASSUME NEW at \in {"failed", "read", "written"}, NEW x,
             client' = [client EXCEPT !["capture"].at = at, !["capture"].found.target = x]
      PROVE  Kept
  BY <1>4 DEF FeedShape, Program
<1>5. Kept
  <2>1. CASE CaptureLists
    <3> HIDE DEF Kept
    <3>1. PICK list \in Lists :
            client' = [client EXCEPT !["capture"].at = IF list = <<>> THEN "failed" ELSE "read",
                                      !["capture"].found.target =
                                        IF list = <<>> THEN {} ELSE {Target(list)}]
      BY <2>1 DEF CaptureLists
    <3>2. (IF list = <<>> THEN "failed" ELSE "read") \in {"failed", "read", "written"}
      OBVIOUS
    <3> QED
      BY <1>4, <3>1, <3>2
  <2>2. CASE CaptureWrites
    <3> HIDE DEF Kept
    <3> QED
      BY <1>2, <2>2 DEF CaptureWrites
  <2>3. ASSUME NEW part, CaptureReads(part)
        PROVE  Kept
    <3> HIDE DEF Kept
    <3>1. /\ client["capture"].at = "read"
          /\ \E x : client' = [client EXCEPT !["capture"].found[part] = x]
      BY <2>3 DEF CaptureReads
    <3> QED
      BY <1>3, <3>1
  <2> QED
    BY <2>1, <2>2, <2>3 DEF CaptureProof
<1>6. FeedShape' /\ FilesBought'
  BY <1>1, <1>5 DEF FeedShape, FilesBought, Bought
<1> QED
  BY <1>1, <1>5, <1>6 DEF CaptureCanPay, RefusedOnlyIfSpent, Bought

(* The invariant of the subscriptions.                                     *)
LEMMA FeedInvariant == Spec => []FeedInv
<1>1. FeedInit => FeedInv
  <2> SUFFICES ASSUME FeedInit PROVE FeedInv
    OBVIOUS
  <2>1. Off.at = "off" /\ Off.sig = Stale
        /\ DOMAIN Off = SessionFields
    BY DEF Off, Session, SessionFields
  <2>2. FeedShape
    BY <2>1 DEF FeedInit, FeedShape
  <2>3. FilesBought
    BY DEF FeedInit, FilesBought
  <2>4. CaptureCanPay /\ RefusedOnlyIfSpent /\ Stale \in spent
    BY <2>1 DEF FeedInit, CaptureCanPay, RefusedOnlyIfSpent, Program
  <2> QED
    BY <2>2, <2>3, <2>4 DEF FeedInv
<1>2. FeedInv /\ [Next]_feedVars => FeedInv'
  <2> SUFFICES ASSUME FeedInv, [Next]_feedVars
               PROVE  FeedInv'
    OBVIOUS
  <2>1. CASE UNCHANGED feedVars \/ Play \/ \E t \in Tick : TickStarts(t)
    <3>1. UNCHANGED <<subscription, spent, filed, subscribe, client>>
      BY <2>1 DEF feedVars, service, Play, TickStarts, TickGoes
    <3> QED
      BY <3>1, RestKeepsFeed DEF FeedInv, FeedShape
  <2>2. CASE PollFixture \/ PollLive \/ Interrupt
    <3>1. UNCHANGED <<subscription, spent, filed, subscribe>>
      BY <2>2 DEF PollFixture, PollLive, Interrupt, service
    <3>2. /\ DOMAIN client' = Program /\ client'["capture"] = client["capture"]
          /\ DOMAIN client'["poll"] = DOMAIN client["poll"]
      BY <2>2 DEF PollFixture, PollLive, Interrupt, Starts, Goes, Off, Session,
        FeedInv, FeedShape, SessionFields, Program
    <3> QED
      BY <3>1, <3>2, RestKeepsFeed
  <2>3. ASSUME NEW t \in Tick, Polls(t) \/ TickFails(t)
        PROVE  FeedInv'
    <3>1. /\ UNCHANGED <<subscription, spent, filed, subscribe>>
          /\ client' = client \/ AfterFirst(t)
      BY <2>3 DEF Polls, FixturesArrive, ScoresArrive, OddsArrive, Normalizes,
        TickFails, TickGoes, AfterTickError, service
    <3>2. /\ DOMAIN client' = Program /\ client'["capture"] = client["capture"]
          /\ DOMAIN client'["poll"] = DOMAIN client["poll"]
      BY <3>1 DEF AfterFirst, FeedInv, FeedShape, Program
    <3> QED
      BY <3>1, <3>2, RestKeepsFeed
  <2>4. CASE Captures
    BY <2>4, CaptureStartKeepsFeed, CapturingKeepsFeed DEF Captures
  <2> QED
    BY <2>1, <2>2, <2>3, <2>4, SubscribingKeepsFeed, DecideKeepsFeed,
      AuthenticatingKeepsFeed DEF Next
<1> QED
  BY <1>1, <1>2, PTL DEF Spec

(* A capture that brings what a script has filed, which the chain has      *)
(* confirmed, or the old one, with a signature over its own guest token,   *)
(* is refused only what some session has spent.                            *)
THEOREM RefusedIsSpent == Spec => []RefusedOnlyIfSpent
<1>1. FeedInv => RefusedOnlyIfSpent
  BY DEF FeedInv
<1> QED
  BY <1>1, FeedInvariant, PTL

-----------------------------------------------------------------------------
(* What a tick makes and prints.                                           *)

(* A tick goes on: what it has then is of its type and of its time.        *)
LEMMA TickGoesOn ==
  ASSUME TickInv, NEW t, NEW to \in Ticking, AskedInTime(to, stage),
         tick' = [tick EXCEPT ![t] = to], UNCHANGED stage, PrintedInv'
  PROVE  TickInv'
  BY DEF TickInv

(* A tick that has nothing yet.                                            *)
LEMMA NothingAsked ==
  /\ IdleTick \in Ticking /\ \A n : AskedInTime(IdleTick, n)
  /\ IdleTick.scores = {} /\ IdleTick.odds = {}
  /\ Begun \in Ticking /\ \A n : AskedInTime(Begun, n)
<1>1. Len(Matches) \in Nat /\ Len(Matches) > 0 /\ Len(Matches[1]) \in Nat
  BY FeedAssumption
<1>2. <<>> \in Seq(LiveState) /\ Len(<<>>) = 0
  OBVIOUS
<1>3. 0 \in 0 .. Len(Matches[1])
  BY <1>1
<1>4. /\ IdleTick \in Ticking /\ IdleTick.at = "idle" /\ IdleTick.states = <<>>
      /\ IdleTick.scores = {} /\ IdleTick.odds = {}
  BY <1>2, <1>3 DEF IdleTick, Ticking
<1>5. /\ Begun \in Ticking /\ Begun.at = "fixtures" /\ Begun.states = <<>>
      /\ Begun.scores = {} /\ Begun.odds = {}
  BY <1>4 DEF Begun, Ticking
<1> QED
  BY <1>1, <1>2, <1>4, <1>5 DEF AskedInTime

(* The answers come while the matches go on.                               *)
LEMMA ArriveKeepsTicks ==
  ASSUME TickInv, NEW t \in Tick, FixturesArrive(t) \/ ScoresArrive(t) \/ OddsArrive(t)
  PROVE  TickInv'
<1> DEFINE x == tick[t]
<1>1. x \in Ticking /\ AskedInTime(x, stage) /\ stage \in Stages /\ Len(Matches[1]) \in Nat
  BY FeedAssumption DEF TickInv
<1>2. UNCHANGED <<stage, printed>> /\ PrintedInv'
  BY DEF FixturesArrive, ScoresArrive, OddsArrive, TickGoes, service, TickInv, PrintedInv
<1>3. CASE FixturesArrive(t)
  <2> DEFINE to == [x EXCEPT !.at = "match", !.asked = stage]
  <2>1. to \in Ticking
    <3>1. stage \in 0 .. Len(Matches[1])
      BY <1>1 DEF Stages
    <3> QED
      BY <1>1, <3>1 DEF Ticking
  <2>2. AskedInTime(to, stage)
    BY <1>1, <1>3 DEF AskedInTime, Ticking, Stages, FixturesArrive
  <2>3. tick' = [tick EXCEPT ![t] = to]
    BY <1>3 DEF FixturesArrive, TickGoes
  <2> QED
    BY <1>2, <2>1, <2>2, <2>3, TickGoesOn
<1>4. ASSUME NEW n \in x.asked .. stage, x.at = "match", NEW to,
             to \in {[x EXCEPT !.scores = {n}], [x EXCEPT !.odds = {n}]},
             tick' = [tick EXCEPT ![t] = to]
      PROVE  TickInv'
  <2>1. n \in Stages /\ x.asked \in 1 .. stage
    BY <1>1, <1>4 DEF AskedInTime, Ticking, Stages
  <2>2. /\ to \in Ticking /\ to.at = x.at /\ to.asked = x.asked
        /\ to.states = x.states
        /\ \A m \in to.scores \cup to.odds : m = n \/ m \in x.scores \cup x.odds
    BY <1>1, <1>4, <2>1 DEF Ticking
  <2>3. AskedInTime(to, stage)
    BY <1>1, <1>4, <2>1, <2>2 DEF AskedInTime, Stages
  <2> QED
    BY <1>2, <1>4, <2>2, <2>3, TickGoesOn
<1>5. CASE ScoresArrive(t) \/ OddsArrive(t)
  BY <1>4, <1>5 DEF ScoresArrive, OddsArrive, TickGoes
<1> QED
  BY <1>3, <1>5

(* A state is made, and the next match asked for or all states printed.    *)
LEMMA NormalizeKeepsTicks ==
  ASSUME TickInv, NEW t \in Tick, Normalizes(t)
  PROVE  TickInv'
<1> DEFINE x == tick[t]
<1>1. /\ x \in Ticking /\ AskedInTime(x, stage) /\ stage \in Stages
      /\ Len(Matches[1]) \in Nat /\ Len(Matches) \in Nat /\ Len(Matches) > 0
  BY FeedAssumption DEF TickInv
<1>2. PICK m \in x.scores, n \in x.odds :
        LET states == Append(x.states, [since |-> x.asked, until |-> stage,
                                        scores |-> m, odds |-> n])
        IN  IF Len(states) < Len(Matches)
            THEN /\ TickGoes(t, [IdleTick EXCEPT !.at = "match", !.asked = stage,
                                                 !.states = states])
                 /\ UNCHANGED <<client, printed>>
            ELSE TickGoes(t, IdleTick) /\ printed' = states /\ AfterFirst(t)
  BY DEF Normalizes
<1> DEFINE made == [since |-> x.asked, until |-> stage, scores |-> m, odds |-> n]
           states == Append(x.states, made)
<1>3. made \in LiveState
  <2>1. /\ x.at = "match" /\ x.asked \in 1 .. stage
        /\ x.asked <= m /\ m <= stage /\ x.asked <= n /\ n <= stage
        /\ m \in Stages /\ n \in Stages
    BY <1>1 DEF AskedInTime, Ticking
  <2>2. x.asked \in Stages
    BY <1>1, <2>1 DEF Stages
  <2> QED
    BY <1>1, <2>1, <2>2 DEF LiveState
<1>4. /\ x.states \in Seq(LiveState) /\ states \in Seq(LiveState)
      /\ Len(states) = Len(x.states) + 1 /\ Len(x.states) \in Nat
      /\ Len(x.states) < Len(Matches)
  <2>1. x.states \in Seq(LiveState) /\ Len(x.states) < Len(Matches)
    BY <1>1 DEF Ticking, AskedInTime
  <2> HIDE DEF made, x
  <2> QED
    BY <1>3, <2>1
<1>5. CASE Len(states) < Len(Matches)
  <2> DEFINE to == [IdleTick EXCEPT !.at = "match", !.asked = stage, !.states = states]
  <2>1. /\ tick' = [tick EXCEPT ![t] = to] /\ UNCHANGED <<stage, printed>>
    BY <1>2, <1>5 DEF TickGoes, service, Normalizes
  <2>2. /\ to \in Ticking /\ to.at = "match" /\ to.asked = stage
        /\ to.scores = {} /\ to.odds = {} /\ to.states = states
    <3>1. stage \in 0 .. Len(Matches[1])
      BY <1>1 DEF Stages
    <3> HIDE DEF states
    <3> QED
      BY <1>4, <3>1, NothingAsked DEF Ticking
  <2>3. to \in Ticking /\ AskedInTime(to, stage)
    <3> HIDE DEF states, to
    <3> QED
      BY <1>1, <1>4, <1>5, <2>2 DEF Ticking, AskedInTime, Stages
  <2>4. PrintedInv'
    BY <2>1 DEF TickInv, PrintedInv
  <2> HIDE DEF to
  <2> QED
    BY <2>1, <2>3, <2>4, TickGoesOn
<1>6. CASE ~(Len(states) < Len(Matches))
  <2>1. /\ tick' = [tick EXCEPT ![t] = IdleTick] /\ UNCHANGED stage
        /\ printed' = states
    BY <1>2, <1>6 DEF TickGoes, service, Normalizes
  <2>2. PrintedInv'
    <3> HIDE DEF states
    <3> QED
      BY <1>1, <1>4, <2>1 DEF PrintedInv
  <2> QED
    BY <2>1, <2>2, NothingAsked, TickGoesOn
<1> QED
  BY <1>5, <1>6

(* The invariant of the ticks, however many overlap and whichever fail.    *)
LEMMA TickInvariant == Spec => []TickInv
<1>1. FeedInit => TickInv
  <2> SUFFICES ASSUME FeedInit PROVE TickInv
    OBVIOUS
  <2>1. Len(Matches[1]) \in Nat /\ Len(Matches[1]) > 0 /\ Len(Matches) \in Nat
    BY FeedAssumption
  <2>2. stage \in Stages /\ PrintedInv
    BY <2>1 DEF FeedInit, Stages, PrintedInv
  <2> QED
    BY <2>2, NothingAsked DEF FeedInit, TickInv
<1>2. TickInv /\ [Next]_feedVars => TickInv'
  <2> SUFFICES ASSUME TickInv, [Next]_feedVars
               PROVE  TickInv'
    OBVIOUS
  <2>1. ASSUME UNCHANGED <<stage, tick, printed>>
        PROVE  TickInv'
    BY <2>1 DEF TickInv, AskedInTime, PrintedInv
  <2>2. ASSUME NEW v \in Script, Subscribing(v)
        PROVE  UNCHANGED <<stage, tick, printed>>
    BY <2>2 DEF Subscribing, SubscribeStarts, SubscribeSends, SubscribeConfirms,
      SubscribeWrites, SubscribeFails, service
  <2>3. ASSUME NEW s \in Sig, Decide(s)
        PROVE  UNCHANGED <<stage, tick, printed>>
    BY <2>3 DEF Decide
  <2>4. CASE Captures \/ PollLive \/ UNCHANGED feedVars
    <3>1. UNCHANGED <<stage, tick, printed>>
      BY <2>4 DEF Captures, CaptureStarts, CaptureLists, CaptureProof, CaptureReads,
        CaptureWrites, PollLive, feedVars, service
    <3> QED
      BY <2>1, <3>1
  <2>5. ASSUME NEW p \in Program, Authenticating(p)
        PROVE  TickInv'
    <3>1. /\ UNCHANGED <<stage, printed>>
          /\ UNCHANGED tick \/ tick' = [tick EXCEPT ![FirstTick] = Begun]
      BY <2>5 DEF Authenticating, GuestStart, Activate, SessionFails
    <3>2. PrintedInv'
      BY <3>1 DEF TickInv, PrintedInv
    <3> QED
      BY <2>1, <3>1, <3>2, NothingAsked, TickGoesOn
  <2>6. CASE PollFixture
    <3>1. UNCHANGED <<stage, tick>> /\ PrintedInv'
      BY <2>6 DEF PollFixture, PrintedInv, service
    <3> QED
      BY <3>1 DEF TickInv, AskedInTime
  <2>7. CASE Interrupt
    <3>1. /\ UNCHANGED <<stage, printed>> /\ tick' = [t \in Tick |-> IdleTick]
      BY <2>7 DEF Interrupt, service
    <3>2. PrintedInv'
      BY <3>1 DEF TickInv, PrintedInv
    <3> QED
      BY <3>1, <3>2, NothingAsked DEF TickInv
  <2>8. ASSUME NEW t \in Tick, TickStarts(t) \/ TickFails(t)
        PROVE  TickInv'
    <3>1. /\ UNCHANGED <<stage, printed>>
          /\ \E to \in {IdleTick, Begun} : tick' = [tick EXCEPT ![t] = to]
      BY <2>8 DEF TickStarts, TickFails, TickGoes, service
    <3>2. PrintedInv'
      BY <3>1 DEF TickInv, PrintedInv
    <3> QED
      BY <3>1, <3>2, NothingAsked, TickGoesOn
  <2>9. CASE Play
    <3>1. /\ stage' = stage + 1 /\ stage < Len(Matches[1])
          /\ UNCHANGED <<tick, printed>>
      BY <2>9 DEF Play
    <3>2. stage \in Nat /\ Len(Matches[1]) \in Nat /\ stage' \in Stages
      BY <3>1, FeedAssumption DEF TickInv, Stages
    <3>3. ASSUME NEW t \in Tick
          PROVE  AskedInTime(tick'[t], stage')
      <4>1. tick[t] \in Ticking /\ AskedInTime(tick[t], stage)
        BY DEF TickInv
      <4> QED
        BY <3>1, <3>2, <4>1 DEF AskedInTime, Ticking, Stages
    <3> QED
      BY <3>1, <3>2, <3>3 DEF TickInv, PrintedInv
  <2> QED
    BY <2>1, <2>2, <2>3, <2>4, <2>5, <2>6, <2>7, <2>8, <2>9, ArriveKeepsTicks,
      NormalizeKeepsTicks DEF Next, Polls
<1> QED
  BY <1>1, <1>2, PTL DEF Spec

-----------------------------------------------------------------------------
(* What a report comes to.                                                 *)

(* A count that is left out when it is zero is read back.                  *)
LEMMA CountedBack == \A n \in Nat : OrZero(Counted(n)) = n
<1> SUFFICES ASSUME NEW n \in Nat
             PROVE  OrZero(Counted(n)) = n
  OBVIOUS
<1>1. CASE n = 0
  BY <1>1 DEF OrZero, Counted
<1>2. CASE n # 0
  <2>1. Counted(n) = {n} /\ {n} # {}
    BY <1>2 DEF Counted
  <2>2. (CHOOSE k \in {n} : TRUE) \in {n}
    OBVIOUS
  <2> QED
    BY <2>1, <2>2 DEF OrZero
<1> QED
  BY <1>1, <1>2

(* The ends of the phases that a minute has passed.                        *)
LEMMA PhaseEnds ==
  /\ Cardinality({15}) = 1
  /\ Cardinality({15, 30}) = 2
  /\ Cardinality({15, 30, 45}) = 3
  /\ Cardinality({15, 30, 45, 60}) = 4
  /\ Cardinality({15, 30, 45, 60, 75}) = 5
  /\ Cardinality({15, 30, 45, 60, 75, 90}) = 6
<1>1. IsFiniteSet({15}) /\ Cardinality({15}) = 1
  BY FS_Singleton
<1>2. IsFiniteSet({15, 30}) /\ Cardinality({15, 30}) = 2
  <2>1. {15, 30} = {15} \cup {30} /\ 30 \notin {15}
    OBVIOUS
  <2> QED
    BY <1>1, <2>1, FS_AddElement
<1>3. IsFiniteSet({15, 30, 45}) /\ Cardinality({15, 30, 45}) = 3
  <2>1. {15, 30, 45} = {15, 30} \cup {45} /\ 45 \notin {15, 30}
    OBVIOUS
  <2> QED
    BY <1>2, <2>1, FS_AddElement
<1>4. IsFiniteSet({15, 30, 45, 60}) /\ Cardinality({15, 30, 45, 60}) = 4
  <2>1. {15, 30, 45, 60} = {15, 30, 45} \cup {60} /\ 60 \notin {15, 30, 45}
    OBVIOUS
  <2> QED
    BY <1>3, <2>1, FS_AddElement
<1>5. IsFiniteSet({15, 30, 45, 60, 75}) /\ Cardinality({15, 30, 45, 60, 75}) = 5
  <2>1. {15, 30, 45, 60, 75} = {15, 30, 45, 60} \cup {75} /\ 75 \notin {15, 30, 45, 60}
    OBVIOUS
  <2> QED
    BY <1>4, <2>1, FS_AddElement
<1>6. Cardinality({15, 30, 45, 60, 75, 90}) = 6
  <2>1. /\ {15, 30, 45, 60, 75, 90} = {15, 30, 45, 60, 75} \cup {90}
        /\ 90 \notin {15, 30, 45, 60, 75}
    OBVIOUS
  <2> QED
    BY <1>5, <2>1, FS_AddElement
<1> QED
  BY <1>1, <1>2, <1>3, <1>4, <1>5, <1>6

(* Seven phases of 15 minutes, the first up to the 15th and the last from  *)
(* the 91st: counting the ends passed is dividing by 15.                   *)
LEMMA PhaseOfSecond ==
  ASSUME NEW second \in Nat
  PROVE  minuteToPhase(second \div 60)
           = IF second < 16 * 60 THEN 1
             ELSE IF second >= 91 * 60 THEN 7 ELSE (second \div 60 - 1) \div 15 + 1
<1> DEFINE m == second \div 60
           passed == {last \in {15, 30, 45, 60, 75, 90} : m > last}
<1>1. m \in Nat /\ 60 * m <= second /\ second < 60 * m + 60
  OBVIOUS
<1> HIDE DEF m
<1>2. second < 16 * 60 <=> m <= 15
  BY <1>1
<1>3. second >= 91 * 60 <=> m > 90
  BY <1>1
<1>4. CASE m <= 15
  <2>1. passed = {}
    BY <1>1, <1>4
  <2> HIDE DEF passed
  <2>2. Cardinality(passed) = 0
    BY <2>1, FS_EmptySet
  <2> QED
    BY <1>2, <1>4, <2>2 DEF minuteToPhase, passed, m
<1>5. ASSUME NEW n \in 1 .. 5, 15 * n < m, m <= 15 * n + 15, Cardinality(passed) = n
      PROVE  Cardinality(passed) + 1 = (m - 1) \div 15 + 1
  <2>1. n \in Nat /\ (m - 1) - 15 * n \in 0 .. 14
    BY <1>1, <1>5
  <2>2. (m - 1) \div 15 = n
    BY <1>1, <2>1
  <2> QED
    BY <1>5, <2>2
<1>6. CASE m > 15 /\ m <= 90
  <2>1. ASSUME m > 15, m <= 30
        PROVE  Cardinality(passed) + 1 = (m - 1) \div 15 + 1
    <3>1. passed = {15}
      BY <1>1, <2>1
    <3> HIDE DEF passed
    <3>2. Cardinality(passed) = 1
      BY <3>1, PhaseEnds
    <3>3. 1 \in 1 .. 5 /\ 15 * 1 < m /\ m <= 15 * 1 + 15
      BY <1>1, <2>1
    <3> QED
      BY <1>5, <3>2, <3>3
  <2>2. ASSUME m > 30, m <= 45
        PROVE  Cardinality(passed) + 1 = (m - 1) \div 15 + 1
    <3>1. passed = {15, 30}
      BY <1>1, <2>2
    <3> HIDE DEF passed
    <3>2. Cardinality(passed) = 2
      BY <3>1, PhaseEnds
    <3>3. 2 \in 1 .. 5 /\ 15 * 2 < m /\ m <= 15 * 2 + 15
      BY <1>1, <2>2
    <3> QED
      BY <1>5, <3>2, <3>3
  <2>3. ASSUME m > 45, m <= 60
        PROVE  Cardinality(passed) + 1 = (m - 1) \div 15 + 1
    <3>1. passed = {15, 30, 45}
      BY <1>1, <2>3
    <3> HIDE DEF passed
    <3>2. Cardinality(passed) = 3
      BY <3>1, PhaseEnds
    <3>3. 3 \in 1 .. 5 /\ 15 * 3 < m /\ m <= 15 * 3 + 15
      BY <1>1, <2>3
    <3> QED
      BY <1>5, <3>2, <3>3
  <2>4. ASSUME m > 60, m <= 75
        PROVE  Cardinality(passed) + 1 = (m - 1) \div 15 + 1
    <3>1. passed = {15, 30, 45, 60}
      BY <1>1, <2>4
    <3> HIDE DEF passed
    <3>2. Cardinality(passed) = 4
      BY <3>1, PhaseEnds
    <3>3. 4 \in 1 .. 5 /\ 15 * 4 < m /\ m <= 15 * 4 + 15
      BY <1>1, <2>4
    <3> QED
      BY <1>5, <3>2, <3>3
  <2>5. ASSUME m > 75, m <= 90
        PROVE  Cardinality(passed) + 1 = (m - 1) \div 15 + 1
    <3>1. passed = {15, 30, 45, 60, 75}
      BY <1>1, <2>5
    <3> HIDE DEF passed
    <3>2. Cardinality(passed) = 5
      BY <3>1, PhaseEnds
    <3>3. 5 \in 1 .. 5 /\ 15 * 5 < m /\ m <= 15 * 5 + 15
      BY <1>1, <2>5
    <3> QED
      BY <1>5, <3>2, <3>3
  <2> HIDE DEF passed
  <2>6. Cardinality(passed) + 1 = (m - 1) \div 15 + 1
    BY <1>1, <1>6, <2>1, <2>2, <2>3, <2>4, <2>5
  <2> QED
    BY <1>1, <1>2, <1>3, <1>6, <2>6 DEF minuteToPhase, passed, m
<1>7. CASE m > 90
  <2>1. passed = {15, 30, 45, 60, 75, 90}
    BY <1>1, <1>7
  <2> HIDE DEF passed
  <2>2. Cardinality(passed) = 6
    BY <2>1, PhaseEnds
  <2> QED
    BY <1>1, <1>2, <1>3, <1>7, <2>2 DEF minuteToPhase, passed, m
<1> QED
  BY <1>1, <1>4, <1>6, <1>7

(* What is made of the report of a moment: nothing when the report leaves  *)
(* it out, and otherwise what was so.                                      *)
LEMMA ReportIsTrue ==
  ASSUME NEW s \in Moments, NEW odds \in Seq(BOOLEAN), NEW field \in DOMAIN Truth(s)
  PROVE  normalizeMatchState(Report(s), odds)[field]
           = IF s.schema \in {"live", "flat"} THEN {Truth(s)[field]} ELSE {}
<1> DEFINE x == IF "p1" \in DOMAIN Report(s) THEN extractLiveSchema(Report(s))
                ELSE Report(s)
           stated == s.schema \in {"live", "flat"}
           only(n) == IF stated THEN {n} ELSE {}
<1>1. /\ s.schema \in {"live", "early", "flat", "list"}
      /\ s.home \in Nat /\ s.away \in Nat /\ s.homeRed \in Nat /\ s.awayRed \in Nat
      /\ s.second \in Nat
  BY DEF Moments
<1>2. /\ x.homeScore = only(s.home) /\ x.awayScore = only(s.away)
      /\ x.minute = only(s.second \div 60)
      /\ x.homeRed = only(s.homeRed) /\ x.awayRed = only(s.awayRed)
  <2>1. CASE s.schema = "live"
    <3>1. /\ x.homeScore = {OrZero(Counted(s.home))}
          /\ x.awayScore = {OrZero(Counted(s.away))}
          /\ x.minute = {s.second \div 60}
          /\ x.homeRed = {OrZero(Counted(s.homeRed))}
          /\ x.awayRed = {OrZero(Counted(s.awayRed))}
      <4>1. Report(s) = [p1 |-> Participant(s.home, s.homeRed),
                         p2 |-> Participant(s.away, s.awayRed),
                         Seconds |-> {s.second}]
        BY <2>1 DEF Report
      <4>2. x = extractLiveSchema(Report(s))
        BY <4>1
      <4> HIDE DEF x
      <4>3. \A g, c : /\ {OrZero(total.Goals) : total \in Participant(g, c)}
                           = {OrZero(Counted(g))}
                      /\ {OrZero(total.RedCards) : total \in Participant(g, c)}
                           = {OrZero(Counted(c))}
        BY DEF Participant
      <4>4. {seconds \div 60 : seconds \in {s.second}} = {s.second \div 60}
        OBVIOUS
      <4>5. /\ x.homeScore = {OrZero(total.Goals) :
                                total \in Participant(s.home, s.homeRed)}
            /\ x.awayScore = {OrZero(total.Goals) :
                                total \in Participant(s.away, s.awayRed)}
            /\ x.minute = {seconds \div 60 : seconds \in {s.second}}
            /\ x.homeRed = {OrZero(total.RedCards) :
                              total \in Participant(s.home, s.homeRed)}
            /\ x.awayRed = {OrZero(total.RedCards) :
                              total \in Participant(s.away, s.awayRed)}
        BY <4>1, <4>2 DEF extractLiveSchema
      <4> QED
        BY <4>3, <4>4, <4>5
    <3> QED
      BY <1>1, <2>1, <3>1, CountedBack
  <2>2. CASE s.schema = "early"
    BY <2>2 DEF Report, extractLiveSchema
  <2>3. CASE s.schema = "flat"
    BY <2>3 DEF Report
  <2>4. CASE s.schema = "list"
    BY <2>4 DEF Report
  <2> QED
    BY <1>1, <2>1, <2>2, <2>3, <2>4
<1> HIDE DEF x
<1>3. normalizeMatchState(Report(s), odds) =
        [homeScore |-> x.homeScore, awayScore |-> x.awayScore,
         scoreDifferential |-> {h - a : h \in x.homeScore, a \in x.awayScore},
         currentMinute |-> x.minute,
         matchPhase |-> {minuteToPhase(minute) : minute \in x.minute},
         redCardDelta |-> {h - a : h \in x.homeRed, a \in x.awayRed},
         isLive |-> TRUE \in bestOdds(odds)]
  BY DEF normalizeMatchState, x
<1>4. field \in {"homeScore", "awayScore", "scoreDifferential", "currentMinute",
                 "redCardDelta", "matchPhase"}
  BY DEF Truth
<1> DEFINE y == normalizeMatchState(Report(s), odds)
<1> HIDE DEF y
<1>5. CASE field \in {"homeScore", "awayScore", "currentMinute"}
  <2>1. /\ y.homeScore = only(s.home) /\ y.awayScore = only(s.away)
        /\ y.currentMinute = only(s.second \div 60)
    BY <1>2, <1>3 DEF y
  <2>2. /\ Truth(s).homeScore = s.home /\ Truth(s).awayScore = s.away
        /\ Truth(s).currentMinute = s.second \div 60
    BY DEF Truth
  <2> QED
    BY <1>5, <2>1, <2>2 DEF y
<1>6. CASE field \in {"scoreDifferential", "redCardDelta"}
  <2>1. \A m, n : {h - a : h \in only(m), a \in only(n)} = only(m - n)
    OBVIOUS
  <2>2. /\ y.scoreDifferential = {h - a : h \in x.homeScore, a \in x.awayScore}
        /\ y.redCardDelta = {h - a : h \in x.homeRed, a \in x.awayRed}
    BY <1>3 DEF y
  <2>3. /\ y.scoreDifferential = only(s.home - s.away)
        /\ y.redCardDelta = only(s.homeRed - s.awayRed)
    BY <1>2, <2>1, <2>2
  <2>4. /\ Truth(s).scoreDifferential = s.home - s.away
        /\ Truth(s).redCardDelta = s.homeRed - s.awayRed
    BY DEF Truth
  <2> QED
    BY <1>6, <2>3, <2>4 DEF y
<1>7. CASE field = "matchPhase"
  <2>1. {minuteToPhase(minute) : minute \in x.minute} = only(minuteToPhase(s.second \div 60))
    BY <1>2
  <2>2. minuteToPhase(s.second \div 60) = Truth(s).matchPhase
    BY <1>1, PhaseOfSecond DEF Truth
  <2> QED
    BY <1>3, <1>7, <2>1, <2>2
<1> QED
  BY <1>4, <1>5, <1>6, <1>7

(* And of the odds: one that is running makes the match live.              *)
LEMMA LiveIsTrue ==
  ASSUME NEW report, NEW odds \in Seq(BOOLEAN)
  PROVE  normalizeMatchState(report, odds).isLive = (TRUE \in {odds[n] : n \in DOMAIN odds})
<1>1. normalizeMatchState(report, odds).isLive = (TRUE \in bestOdds(odds))
  BY DEF normalizeMatchState
<1>2. (TRUE \in bestOdds(odds)) <=> \E n \in DOMAIN odds : odds[n]
  <2>1. CASE odds = <<>>
    BY <2>1 DEF bestOdds
  <2>2. CASE odds # <<>>
    <3>1. Head(odds) = odds[1] /\ 1 \in DOMAIN odds /\ odds[1] \in BOOLEAN
      BY <2>2
    <3> QED
      BY <2>2, <3>1 DEF bestOdds
  <2> QED
    BY <2>1, <2>2
<1>3. (TRUE \in {odds[n] : n \in DOMAIN odds}) <=> \E n \in DOMAIN odds : odds[n]
  <2>1. \A n \in DOMAIN odds : odds[n] \in BOOLEAN
    OBVIOUS
  <2> QED
    BY <2>1
<1>4. (TRUE \in bestOdds(odds)) = (TRUE \in {odds[n] : n \in DOMAIN odds})
  <2>1. \A a, b \in BOOLEAN : (a <=> b) => a = b
    OBVIOUS
  <2>2. /\ (TRUE \in bestOdds(odds)) \in BOOLEAN
        /\ (TRUE \in {odds[n] : n \in DOMAIN odds}) \in BOOLEAN
    OBVIOUS
  <2>3. (TRUE \in bestOdds(odds)) <=> (TRUE \in {odds[n] : n \in DOMAIN odds})
    BY <1>2, <1>3
  <2> QED
    BY <2>1, <2>2, <2>3
<1> QED
  BY <1>1, <1>4

(* What a poll prints was so while it asked, for the scores at one moment  *)
(* and for the odds at another.                                            *)
THEOREM PrintsTruth == Spec => []PrintedIsTrue
<1>1. TickInv => PrintedIsTrue
  <2> SUFFICES ASSUME TickInv, NEW f \in DOMAIN printed
               PROVE  LET p == printed[f]
                          state == MatchState(f, p)
                          moments == IF p.since = 0 THEN {FixtureFile[f]}
                                     ELSE {Matches[f][n] : n \in p.since .. p.until}
                      IN  /\ \E s \in moments :
                               \A field \in DOMAIN Truth(s) :
                                 state[field] = IF s.schema \in {"live", "flat"}
                                                THEN {Truth(s)[field]} ELSE {}
                          /\ \E s \in moments :
                               state.isLive = (TRUE \in {s.odds[n] : n \in DOMAIN s.odds})
    BY DEF PrintedIsTrue
  <2> DEFINE p == printed[f]
             moments == IF p.since = 0 THEN {FixtureFile[f]}
                        ELSE {Matches[f][n] : n \in p.since .. p.until}
  <2>1. PICK s \in moments, o \in moments :
          /\ s \in Moments /\ o \in Moments
          /\ MatchState(f, p) = normalizeMatchState(Report(s), o.odds)
    <3>1. CASE printed = [g \in DOMAIN FixtureFile |-> FromFile]
      <4>1. /\ f \in DOMAIN FixtureFile /\ p = FromFile
            /\ FromFile.since = 0 /\ FromFile.scores = 0 /\ FromFile.odds = 0
        BY <3>1 DEF FromFile
      <4>2. FixtureFile[f] \in Moments
        BY <4>1, FeedAssumption
      <4> QED
        BY <4>1, <4>2 DEF MatchState
    <3>2. CASE printed \in Seq(LiveState) /\ Len(printed) <= Len(Matches)
      <4>1. /\ p \in LiveState /\ f \in 1 .. Len(Matches)
        BY <3>2, FeedAssumption
      <4>2. /\ p.since # 0 /\ p.scores # 0 /\ p.odds # 0
            /\ p.scores \in p.since .. p.until /\ p.odds \in p.since .. p.until
            /\ p.scores \in Stages /\ p.odds \in Stages
        BY <4>1, FeedAssumption DEF LiveState, Stages
      <4>3. \A n \in Stages : Matches[f][n] \in Moments
        <5>1. /\ Matches[f] \in Seq(Moments)
              /\ Len(Matches[f]) = Len(Matches[1])
          BY <4>1, FeedAssumption
        <5> QED
          BY <5>1 DEF Stages
      <4> QED
        BY <4>2, <4>3 DEF MatchState
    <3> QED
      BY <3>1, <3>2 DEF TickInv, PrintedInv
  <2>2. o.odds \in Seq(BOOLEAN)
    BY <2>1 DEF Moments
  <2> HIDE DEF moments
  <2>3. \A field \in DOMAIN Truth(s) :
          MatchState(f, p)[field] = IF s.schema \in {"live", "flat"}
                                    THEN {Truth(s)[field]} ELSE {}
    <3> SUFFICES ASSUME NEW field \in DOMAIN Truth(s)
                 PROVE  MatchState(f, p)[field] = IF s.schema \in {"live", "flat"}
                                                  THEN {Truth(s)[field]} ELSE {}
      OBVIOUS
    <3>1. normalizeMatchState(Report(s), o.odds)[field]
            = IF s.schema \in {"live", "flat"} THEN {Truth(s)[field]} ELSE {}
      BY <2>1, <2>2, ReportIsTrue
    <3> QED
      BY <2>1, <3>1
  <2>4. MatchState(f, p).isLive = (TRUE \in {o.odds[n] : n \in DOMAIN o.odds})
    BY <2>1, <2>2, LiveIsTrue
  <2> QED
    BY <2>1, <2>3, <2>4 DEF moments
<1> QED
  BY <1>1, TickInvariant, PTL
=============================================================================
