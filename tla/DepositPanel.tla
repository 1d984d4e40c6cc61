---------------------------- MODULE DepositPanel ----------------------------
(***************************************************************************)
(* The deposit panel of the market page                                    *)
(* (dashboard/src/app/market/DepositPanel.tsx) over the program it         *)
(* deposits into.  Before it enables its button it reads the wallet's      *)
(* balances and whether its position exists ("preflight"), each at a       *)
(* moment of its own; `locked` comes from the page's poll.  The browser's  *)
(* clock is the program's.  What the button does in detail is TxButton's   *)
(* matter; here a deposit is sent and ends some way.                       *)
(***************************************************************************)
EXTENDS PariMarket

CONSTANTS
  Lamports,   \* the SOL of each wallet, which deposits here do not use up
  AtaOwners,  \* the wallets with an associated token account for the mint
  Fee,        \* TX_FEE_LAMPORTS
  Rent,       \* what a Position account costs its first depositor
  MaxCalls,   \* bound on the refreshes under way
  MaxOrphans  \* bound on the handlers of buttons that were taken away

ASSUME DepositPanelAssumption ==
  /\ Lamports \in [Bettor -> Nat]
  /\ AtaOwners \subseteq Bettor
  /\ {Fee, Rent, MaxCalls, MaxOrphans} \subseteq Nat

VARIABLES
  props,      \* the page's market, once loaded: is it locked
  connected,  \* useWallet().publicKey
  input,      \* the amount typed in, 0 when it is empty or does not parse
  chosen,     \* the side toggle
  preflight,  \* PreflightState; of is history: whose it is
  calls,      \* the refreshPreflight calls under way
  button,     \* the TxButton: idle, or the deposit it has sent, or confirmed
  orphans,    \* the deposits of buttons unmounted since, whose run() goes on
  strayed     \* history: one of them has confirmed under the present wallet

afterVars == <<orphans, strayed>>
panelVars == <<props, connected, input, chosen, preflight, calls, button, afterVars>>
depositVars == <<vars, panelVars>>

NoWallet == "disconnected"
Loading(w) == [of |-> w, loading |-> TRUE, lamports |-> 0, usdc |-> 0,
               ataExists |-> FALSE, minRequired |-> Fee]
IdleButton == [at |-> "idle", n |-> 0, side |-> Yes]

(* A call holds what it has read, as a singleton; live says that           *)
(* generationRef has not moved since it began.  Two calls for one wallet   *)
(* that have read the same are one.                                        *)
Unread == {}
NewCall(w) == [of |-> w, live |-> TRUE, usdc |-> Unread, position |-> Unread]

PanelInit ==
  /\ Init
  /\ props = [loaded |-> FALSE, locked |-> FALSE]
  /\ connected = NoWallet
  /\ input = 0
  /\ chosen = Yes
  /\ preflight = Loading(NoWallet)
  /\ calls = {}
  /\ button = IdleButton
  /\ orphans = {}
  /\ strayed = FALSE

-----------------------------------------------------------------------------
(* computeBlocker and canSubmit.                                           *)
optimisticallyLocked == props.locked \/ now > lock_ts

canSubmit ==
  /\ props.loaded /\ connected # NoWallet
  /\ ~optimisticallyLocked
  /\ ~preflight.loading
  /\ preflight.ataExists
  /\ preflight.lamports >= preflight.minRequired
  /\ input > 0
  /\ input <= preflight.usdc

-----------------------------------------------------------------------------
(* The user, the wallet and the page.  A response of the page may be as    *)
(* old as its request.                                                     *)
PageReceives(v) ==
  /\ created
  /\ props' = [loaded |-> TRUE, locked |-> v]
  /\ UNCHANGED <<vars, connected, input, chosen, preflight, calls, button,
                 afterVars>>

Type(n, s) ==
  /\ input' = n
  /\ chosen' = s
  /\ UNCHANGED <<vars, props, connected, preflight, calls, button, afterVars>>

(* The render that sees another wallet resets the panel and moves the      *)
(* generation; its effect begins a refresh, as the first render does for a *)
(* wallet connected before the page had its market.  TxButton moves its    *)
(* own generation in that render, so that its run() abandons; but without  *)
(* a wallet the panel does not render it, and its run() goes on.           *)
KeepLive == calls  \* mutant: no generation
Outdated == {[c EXCEPT !.live = FALSE] : c \in calls}

Sending == button.at \in {"sent", "landed"}
Orphan == [of |-> connected, at |-> button.at, n |-> button.n, side |-> button.side]

SwitchWallet(w) ==
  /\ props.loaded
  /\ w # connected
  /\ Cardinality(calls) < MaxCalls
  /\ connected' = w
  /\ preflight' = Loading(w)
  /\ input' = 0
  /\ calls' = Outdated \cup {NewCall(v) : v \in {w} \ {NoWallet}}
  /\ button' = IdleButton
  /\ IF w = NoWallet /\ Sending
     THEN Cardinality(orphans) < MaxOrphans /\ orphans' = orphans \cup {Orphan}
     ELSE orphans' = orphans
  /\ strayed' = FALSE
  /\ UNCHANGED <<vars, props, chosen>>

-----------------------------------------------------------------------------
(* refreshPreflight: the reads, then (for a first deposit) the rent, then  *)
(* the state.                                                              *)
Becomes(c, d) == calls' = (calls \ {c}) \cup {d}

ReadUsdc(c) ==
  /\ c \in calls /\ c.usdc = Unread
  /\ Becomes(c, [c EXCEPT !.usdc = {wallet[c.of]}])
  /\ UNCHANGED <<vars, props, connected, input, chosen, preflight, button,
                 afterVars>>

ReadPosition(c) ==
  /\ c \in calls /\ c.position = Unread
  /\ Becomes(c, [c EXCEPT !.position = {opened[c.of]}])
  /\ UNCHANGED <<vars, props, connected, input, chosen, preflight, button,
                 afterVars>>

Value(x) == CHOOSE v \in x : TRUE

FeeOnly(c) == Fee  \* mutant: the position's rent is left out
MinRequired(c) == IF Value(c.position) THEN Fee ELSE Fee + Rent

RefreshDone(c) ==
  /\ c \in calls /\ c.usdc # Unread /\ c.position # Unread
  /\ calls' = calls \ {c}
  /\ preflight' = IF c.live
                  THEN [of |-> c.of, loading |-> FALSE,
                        lamports |-> Lamports[c.of],
                        usdc |-> IF c.of \in AtaOwners THEN Value(c.usdc) ELSE 0,
                        ataExists |-> c.of \in AtaOwners,
                        minRequired |-> MinRequired(c)]
                  ELSE preflight
  /\ UNCHANGED <<vars, props, connected, input, chosen, button, afterVars>>

(* A read is refused: the promise is rejected and nothing ends the loading. *)
RefreshFails(c) ==
  /\ c \in calls
  /\ calls' = calls \ {c}
  /\ UNCHANGED <<vars, props, connected, input, chosen, preflight, button,
                 afterVars>>

-----------------------------------------------------------------------------
(* The button: the instruction is built from the input of the moment.      *)
Submit ==
  /\ canSubmit
  /\ button.at = "idle"
  /\ button' = [at |-> "sent", n |-> input, side |-> chosen]
  /\ UNCHANGED <<vars, props, connected, input, chosen, preflight, calls, afterVars>>

DepositFails ==
  /\ button.at = "sent"
  /\ button' = IdleButton
  /\ UNCHANGED <<vars, props, connected, input, chosen, preflight, calls, afterVars>>

(* The deposit lands.                                                      *)
OwnDeposit ==
  /\ button.at = "sent"
  /\ Deposit(connected, button.n, button.side)
  /\ button' = [button EXCEPT !.at = "landed"]
  /\ UNCHANGED <<props, connected, input, chosen, preflight, calls, afterVars>>

(* handleConfirmed: the input is cleared and the preflight read again, for *)
(* the wallet w of the render that the click was made in, and with the     *)
(* panel's generation of this moment.                                      *)
HandleConfirmed(w) ==
  /\ Cardinality(calls) < MaxCalls
  /\ input' = 0
  /\ preflight' = [preflight EXCEPT !.loading = TRUE]
  /\ calls' = calls \cup {NewCall(w)}
  /\ UNCHANGED <<vars, props, connected, chosen>>

DepositConfirmed ==
  /\ button.at = "landed"
  /\ HandleConfirmed(connected)
  /\ button' = [IdleButton EXCEPT !.at = "confirmed"]
  /\ UNCHANGED afterVars

-----------------------------------------------------------------------------
(* The run() of a button that was unmounted: its deposit lands, it calls   *)
(* handleConfirmed, or it ends without (rejected, failed, timed out).      *)
OrphanLands(o) ==
  /\ o \in orphans /\ o.at = "sent"
  /\ Deposit(o.of, o.n, o.side)
  /\ orphans' = (orphans \ {o}) \cup {[o EXCEPT !.at = "landed"]}
  /\ UNCHANGED <<props, connected, input, chosen, preflight, calls, button, strayed>>

OrphanConfirmed(o) ==
  /\ o \in orphans /\ o.at = "landed"
  /\ HandleConfirmed(o.of)
  /\ orphans' = orphans \ {o}
  /\ strayed' = TRUE
  /\ UNCHANGED button

OrphanEnds(o) ==
  /\ o \in orphans
  /\ orphans' = orphans \ {o}
  /\ UNCHANGED <<vars, props, connected, input, chosen, preflight, calls, button,
                 strayed>>

ChainMoves == Next /\ UNCHANGED panelVars

PanelNext ==
  \/ ChainMoves
  \/ \E v \in {FALSE, locked} : PageReceives(v)
  \/ \E n \in DepositAmounts \cup {0}, s \in Side : Type(n, s)
  \/ \E w \in Bettor \cup {NoWallet} : SwitchWallet(w)
  \/ \E c \in calls : \/ ReadUsdc(c) \/ ReadPosition(c)
                        \/ RefreshDone(c) \/ RefreshFails(c)
  \/ Submit \/ DepositFails \/ OwnDeposit \/ DepositConfirmed
  \/ \E o \in orphans : OrphanLands(o) \/ OrphanConfirmed(o) \/ OrphanEnds(o)

PanelSpec == PanelInit /\ [][PanelNext]_depositVars

-----------------------------------------------------------------------------
(* Properties.                                                             *)

(* Whatever was read for an earlier wallet, by calls that end late, the    *)
(* preflight is the connected wallet's, and only one call is ever under    *)
(* way that could still set it: none that could bring back older values.   *)
(* Only the run() of a button that a disconnect unmounted can change that, *)
(* by calling handleConfirmed, and only until the wallet changes again.    *)
PreflightIsOwn ==
  ~strayed =>
    /\ preflight.of = connected
    /\ LET live == {c \in calls : c.live}
       IN  /\ Cardinality(live) <= 1
           /\ live # {} => preflight.loading /\ connected # NoWallet

(* Comment of generationRef: after a change of wallet "the resumed fetch   *)
(* silently abandons instead of committing a stale wallet's balances/rent  *)
(* numbers into the new wallet's preflight state".                         *)
NoStaleBalances ==
  connected # NoWallet /\ ~preflight.loading => preflight.of = connected

(* The program takes the deposit, and the wallet can pay for it.           *)
Accepts(b, n, s) ==
  /\ DepositAdmits(b, n, s)
  /\ b \in AtaOwners
  /\ Lamports[b] >= IF opened[b] THEN Fee ELSE Fee + Rent

(* What the panel has read is still so.                                    *)
UpToDate == /\ props.locked = locked
            /\ preflight.usdc = wallet[connected]

(* An enabled button stands for a deposit that the program accepts, as     *)
(* long as nothing the panel read has changed meanwhile, the side is that  *)
(* of the wallet's position and no unmounted button has confirmed: the     *)
(* panel's checks leave out no other condition of deposit, and an opened   *)
(* position only makes it cheaper.                                         *)
EnabledIsAccepted ==
  ~strayed /\ canSubmit /\ UpToDate /\ SideAgrees(connected, chosen)
    => Accepts(connected, input, chosen)
=============================================================================
