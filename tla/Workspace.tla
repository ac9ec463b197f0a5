------------------------------ MODULE Workspace ------------------------------
(***************************************************************************)
(* The page as a whole (App.tsx) over the one runtime it holds (runtime.ts):*)
(* the signature and the session of the runtime, the identity the page     *)
(* shows, the saved records, and the flows that share them.  A flow names   *)
(* the account it works for once, when it prepares its identity, and each   *)
(* call of the runtime then acts for the session the runtime has at that    *)
(* moment.                                                                 *)
(*                                                                         *)
(* The money itself is in the modules of the transports; here a call        *)
(* succeeds or fails as it likes, and what matters is whom it acts for.     *)
(***************************************************************************)
EXTENDS Naturals, FiniteSets

CONSTANTS
  Positions, \* the positions, each the account index allocated for it
  Root,      \* account index 0, for which the page connects and scans
  None,      \* undefined
  Scanning,  \* the runtime can scan the chain for positions
  Retrying   \* a return that fails sets a timer

ASSUME WorkspaceAssumption ==
  /\ Positions \cap {"user", "connect", "scan"} = {}
  /\ Root \notin Positions /\ None \notin Positions \cup {Root} /\ Root # None
  /\ {Scanning, Retrying} \subseteq BOOLEAN

VARIABLES
  sig, session,  \* identitySignature (is it there?) and session of the runtime
  asking,        \* identitySignatureRequest
  prompts,       \* the sign-in requests open in the wallet
  identity,      \* the identity of the latest render
  connected,     \* the wallet is connected and the balance has been read
  busy,          \* the stage the page shows is neither idle nor complete
  status, acct,  \* the saved records: status, accountIndex
  saved,         \* the positions a record was ever saved for
  bought,        \* the accounts that have bought tokens
  live,          \* the scan that runs has the latest positionRecoveryId
  flow           \* the flows

runtime == <<sig, session, asking, prompts>>
page    == <<identity, connected, busy>>
records == <<status, acct, saved, bought>>
vars    == <<runtime, page, records, live, flow>>

Accounts == Positions \cup {Root}

\* The user's own flow, the wallet button, the scan, and the automatic return
\* of each position.
Flows == {"user", "connect", "scan"} \cup Positions

\* Where a flow is, what the user's flow does and for which position, the account
\* it prepares, the identity of the render it was started from, and the account
\* that its call of the runtime acts for.
Off == [at |-> "idle", op |-> "none", pos |-> None, index |-> None,
        seen |-> None, on |-> None]

Statuses == {"none", "funding", "buying", "held", "selling", "returning",
             "return-failed", "failed", "closed"}

\* needsAutomaticSellReturn
Unreturned == {p \in Positions : status[p] \in {"returning", "return-failed"}}

At(f) == flow[f].at
Pos(f) == IF f \in Positions THEN f ELSE flow[f].pos
Returns(f) == f \in Positions \/ (f = "user" /\ flow[f].op = "back")

Init ==
  /\ sig = FALSE /\ session = None /\ asking = FALSE /\ prompts = 0
  /\ identity = None /\ connected = FALSE /\ busy = FALSE
  /\ status \in [Positions -> {"none", "return-failed"}]
  /\ acct = [p \in Positions |-> p]
  /\ saved = {p \in Positions : status[p] # "none"}
  /\ bought \in {saved} \cup {saved \cup {p} : p \in Positions}
  /\ live = FALSE
  /\ flow = [f \in Flows |-> Off]

Goto(f, stage) == flow' = [flow EXCEPT ![f].at = stage]
End(f) == flow' = [flow EXCEPT ![f] = Off]

\* The call of runtime.prepareIdentity.
Prepare(f, i) ==
  flow' = [flow EXCEPT ![f].at = "prepare", ![f].index = i,
                       ![f].seen = IF f = "user" THEN None ELSE @]

\* requireIdentity: a call of the runtime takes the session of now.
Call(f, stage, s) ==
  flow' = IF sig /\ s # None
            THEN [flow EXCEPT ![f].at = stage, ![f].on = s, ![f].index = None]
            ELSE [flow EXCEPT ![f].at = "failing"]

\* patchPosition finds no record to patch when it is gone.
Patch(p, s) ==
  status' = IF status[p] = "none" THEN status ELSE [status EXCEPT ![p] = s]

\* The catch blocks.  An automatic return waits for its timer.
Catch(f) ==
  /\ IF f \in Positions /\ Retrying
       THEN flow' = [flow EXCEPT ![f] = [Off EXCEPT !.at = "timer",
                                                    !.seen = flow[f].seen]]
       ELSE End(f)
  /\ CASE f \in {"connect", "scan"} -> UNCHANGED <<status, busy>>
       [] Returns(f) -> Patch(Pos(f), "return-failed") /\ busy' = FALSE
       [] OTHER ->
            /\ Patch(Pos(f), IF flow[f].op = "buy" THEN "failed"
                             ELSE IF status[Pos(f)] = "returning" THEN "return-failed"
                             ELSE "held")
            /\ busy' = FALSE
  /\ live' = (live /\ f # "scan")
  /\ UNCHANGED <<runtime, identity, connected, acct, saved, bought>>

(***************************************************************************)
(* prepareIdentity of the runtime.  All the calls share one sign-in request,*)
(* which neither a timeout nor reset withdraws from the wallet.             *)
(***************************************************************************)
\* Mutant: every call sends a request of its own.
StackingAsk(f) ==
  /\ At(f) = "prepare"
  /\ IF sig
       THEN Goto(f, "derive") /\ UNCHANGED <<asking, prompts>>
       ELSE /\ Goto(f, "signing")
            /\ asking' = TRUE
            /\ prompts' = prompts + 1
  /\ UNCHANGED <<sig, session, page, records, live>>

\* signPrivateIdentity
Ask(f) ==
  /\ At(f) = "prepare"
  /\ IF sig
       THEN Goto(f, "derive") /\ UNCHANGED <<asking, prompts>>
       ELSE /\ Goto(f, "signing")
            /\ asking' = TRUE
            /\ prompts' = IF asking THEN prompts ELSE prompts + 1
  /\ UNCHANGED <<sig, session, page, records, live>>

\* The wallet answers all that wait for it.
Answered(stage) ==
  /\ asking
  /\ asking' = FALSE /\ prompts' = prompts - 1
  /\ flow' = [f \in Flows |-> IF At(f) = "signing"
                                THEN [flow[f] EXCEPT !.at = stage] ELSE flow[f]]
  /\ UNCHANGED <<session, page, records, live>>

\* The signature is kept even when a reset came in between.
WalletSigns == Answered("derive") /\ sig' = TRUE

WalletRefuses == Answered("failing") /\ UNCHANGED sig

\* Mutant: only the connection is given up, the other flows wait for the wallet.
PatientPromptTimesOut(f) ==
  /\ At(f) = "signing"
  /\ f = "connect"
  /\ Catch(f)

\* walletRequestWithTimeout
PromptTimesOut(f) == At(f) = "signing" /\ Catch(f)

(***************************************************************************)
(* What a flow does once its session is derived, in the same turn.         *)
(***************************************************************************)
\* recoverOnchainPositions: a connection that restored no record starts one.
ScanIfEmpty ==
  IF Scanning /\ (\A p \in Positions : status[p] = "none")
              /\ At("scan") \in {"idle", "scanning"}
    THEN /\ flow' = [flow EXCEPT !["connect"].at = "balances",
                                 !["scan"].at = "prepare", !["scan"].index = Root]
         /\ live' = TRUE
    ELSE Goto("connect", "balances") /\ UNCHANGED live

\* session = nextSession, then setIdentity of the caller.
Derive(f) ==
  /\ At(f) = "derive"
  /\ session' = flow[f].index
  /\ identity' = flow[f].index
  /\ CASE f = "connect" -> ScanIfEmpty /\ UNCHANGED <<busy, status>>
       [] f = "scan" -> /\ Goto(f, IF sig THEN "scanning" ELSE "failing")
                        /\ UNCHANGED <<busy, status, live>>
       [] Returns(f) -> /\ Patch(Pos(f), "returning")
                        /\ busy' = TRUE
                        /\ Call(f, "returning", flow[f].index)
                        /\ UNCHANGED live
       [] OTHER -> Goto(f, "reading") /\ UNCHANGED <<busy, status, live>>
  /\ UNCHANGED <<sig, asking, prompts, connected, saved, bought, acct>>

(***************************************************************************)
(* connectEvmWallet and the scan.                                          *)
(***************************************************************************)
\* The button starts a flow of the render that shows it.
Connect ==
  /\ At("connect") = "idle" /\ ~busy
  /\ flow' = [flow EXCEPT !["connect"] = [Off EXCEPT !.at = "prepare",
                                          !.index = Root, !.seen = identity]]
  /\ UNCHANGED <<runtime, page, records, live>>

\* The balances are read, or not, and the interrupted returns are started, each
\* of which stops the scan (stopPositionRecovery).
Connected ==
  /\ At("connect") = "balances"
  /\ LET due == {p \in Unreturned : At(p) \in {"idle", "timer"}}
         start == [Off EXCEPT !.at = "stopping", !.seen = flow["connect"].seen]
     IN  /\ flow' = [f \in Flows |-> IF f = "connect" THEN Off
                                     ELSE IF f \in due THEN start ELSE flow[f]]
         /\ live' = (live /\ due = {})
  /\ connected' = TRUE
  /\ UNCHANGED <<runtime, identity, busy, records>>

\* Mutant: a scan is saved although a return has stopped it.
DeafScanned ==
  /\ At("scan") = "scanning"
  /\ End("scan")
  /\ live' = FALSE
  /\ \E found \in SUBSET bought :
       /\ status' = [p \in Positions |-> IF p \in found THEN "held" ELSE "none"]
       /\ acct' = [p \in Positions |-> p]
       /\ saved' = saved \cup found
  /\ UNCHANGED <<runtime, page, bought>>

\* The scan merges what it found into the records read before it began, of which
\* there were none, and saves the result; a scan that was stopped is dropped.
Scanned ==
  /\ At("scan") = "scanning"
  /\ End("scan")
  /\ live' = FALSE
  /\ IF live
       THEN \E found \in SUBSET bought :
              /\ status' = [p \in Positions |->
                              IF p \in found THEN "held" ELSE "none"]
              /\ acct' = [p \in Positions |-> p]
              /\ saved' = saved \cup found
       ELSE UNCHANGED <<status, acct, saved>>
  /\ UNCHANGED <<runtime, page, bought>>

(***************************************************************************)
(* The user's flows: trade, and returnPositionToPool.                       *)
(***************************************************************************)
UserMayAct == At("user") = "idle" /\ ~busy

StartUser(what, p, stage, i) ==
  /\ UserMayAct
  /\ flow' = [flow EXCEPT !["user"] = [Off EXCEPT !.at = stage, !.op = what,
                                !.pos = p, !.index = i,
                                !.seen = IF what = "back" THEN identity ELSE None]]
  /\ UNCHANGED <<runtime, identity, connected, records>>

\* A fresh index is allocated.  Nothing can be bought before a balance is shown,
\* so positionContext never has to connect.
StartBuy(p) ==
  /\ connected
  /\ p \notin saved \cup bought
  /\ StartUser("buy", p, "prepare", p)
  /\ busy' = TRUE
  /\ UNCHANGED live

\* prepareFreshIdentity takes the identity of the render for the runtime's.
StartSell(p) ==
  /\ connected
  /\ status[p] = "held"
  /\ IF identity = acct[p]
       THEN StartUser("sell", p, "reading", None) /\ UNCHANGED busy
       ELSE StartUser("sell", p, "prepare", acct[p]) /\ busy' = TRUE
  /\ UNCHANGED live

StartReturn(p) ==
  /\ connected
  /\ status[p] \in {"held", "return-failed", "failed"}
  /\ StartUser("back", p, "stopping", None)
  /\ live' = FALSE
  /\ UNCHANGED busy

\* The request of the scan has settled: prepareFreshIdentity, and without a
\* prepare the call of the runtime follows at once.
Stopped(f) ==
  /\ At(f) = "stopping" /\ At("scan") # "scanning"
  /\ IF flow[f].seen = acct[Pos(f)]
       THEN Patch(Pos(f), "returning") /\ Call(f, "returning", session)
       ELSE Prepare(f, acct[Pos(f)]) /\ UNCHANGED status
  /\ busy' = TRUE
  /\ UNCHANGED <<runtime, identity, connected, acct, saved, bought, live>>

\* quoteBuy, or the read of the balance, is answered.  A buy commits its record
\* and funds, a sell executes.
Read ==
  LET p == Pos("user") IN
  /\ At("user") = "reading"
  /\ IF flow["user"].op = "buy"
       THEN /\ status' = [status EXCEPT ![p] = "funding"]
            /\ saved' = saved \cup {p}
            /\ Call("user", "funding", session)
       ELSE /\ Patch(p, "selling")
            /\ Call("user", "acting", session)
            /\ UNCHANGED saved
  /\ busy' = TRUE
  /\ UNCHANGED <<runtime, identity, connected, acct, bought, live>>

\* reconcileFundedIdentity: the record, and the identity, name the account that
\* was funded.
Funded ==
  LET p == Pos("user")
      a == flow["user"].on
  IN
  /\ At("user") = "funding"
  /\ Patch(p, "buying")
  /\ acct' = IF status[p] = "none" THEN acct ELSE [acct EXCEPT ![p] = a]
  /\ identity' = IF a = p THEN identity ELSE a
  /\ Goto("user", "waiting")
  /\ UNCHANGED <<runtime, connected, busy, saved, bought, live>>

\* waitForFreshAccountUsdg has seen the balance, and runtime.buy is called.
Visible ==
  /\ At("user") = "waiting"
  /\ Call("user", "acting", session)
  /\ busy' = TRUE
  /\ UNCHANGED <<runtime, identity, connected, records, live>>

\* The execution is confirmed.  After a sell the proceeds are returned, by
\* another call of the runtime.
Executed ==
  LET p == Pos("user")
      a == flow["user"].on
  IN
  /\ At("user") = "acting"
  /\ IF flow["user"].op = "buy"
       THEN /\ Patch(p, "held")
            /\ bought' = bought \cup ({a} \ {Root})
            /\ End("user")
            /\ busy' = FALSE
       ELSE /\ Patch(p, "returning")
            /\ bought' = bought \ {a}
            /\ Call("user", "returning", session)
            /\ busy' = TRUE
  /\ UNCHANGED <<runtime, identity, connected, acct, saved, live>>

\* returnToPool is done; so is a retry that finds nothing to return.
Returned(f) ==
  /\ At(f) = "returning"
  /\ Patch(Pos(f), "closed")
  /\ End(f)
  /\ busy' = FALSE
  /\ UNCHANGED <<runtime, identity, connected, acct, saved, bought, live>>

\* A call throws.
Throw(f) ==
  /\ At(f) \in {"failing", "derive", "reading", "funding", "waiting", "acting",
                "returning", "scanning"}
  /\ Catch(f)

\* The timer calls the function of the render that set it.
TimerFires(p) ==
  /\ At(p) = "timer"
  /\ Goto(p, "stopping")
  /\ live' = FALSE
  /\ UNCHANGED <<runtime, page, records>>

\* switchWorkspace, openMarket, openSavedPosition, startAnother.
Reset ==
  /\ ~busy
  /\ sig' = FALSE /\ session' = None
  /\ identity' = None
  /\ UNCHANGED <<asking, prompts, connected, busy, records, live, flow>>

\* What a flow does once it is started, and the answers of the runtime.
Step(f) ==
  \/ Ask(f) \/ PromptTimesOut(f) \/ Derive(f) \/ Throw(f)
  \/ Stopped(f) \/ Returned(f)
  \/ f = "connect" /\ Connected
  \/ f = "scan" /\ Scanned
  \/ f = "user" /\ (Read \/ Funded \/ Visible \/ Executed)

Next ==
  \/ \E f \in Flows : Step(f)
  \/ WalletSigns \/ WalletRefuses
  \/ Connect \/ Reset
  \/ \E p \in Positions : StartBuy(p) \/ StartSell(p) \/ StartReturn(p)
                          \/ TimerFires(p)

Spec == Init /\ [][Next]_vars

\* Calls return or throw, and the wallet is given up after its timeout.
FairSpec == Spec /\ \A f \in Flows : WF_vars(Step(f))
-----------------------------------------------------------------------------
TypeOK ==
  /\ {sig, asking, connected, busy, live} \subseteq BOOLEAN
  /\ {session, identity} \subseteq Accounts \cup {None}
  /\ prompts \in Nat
  /\ status \in [Positions -> Statuses]
  /\ acct \in [Positions -> Accounts]
  /\ saved \subseteq Positions /\ bought \subseteq Positions
  /\ flow \in [Flows ->
       [at: {"idle", "prepare", "signing", "derive", "balances", "scanning",
             "stopping", "reading", "funding", "waiting", "acting", "returning",
             "failing", "timer"},
        op: {"none", "buy", "sell", "back"},
        pos: Positions \cup {None},
        index: Accounts \cup {None},
        seen: Accounts \cup {None},
        on: Accounts \cup {None}]]

\* The wallet never has more than one sign-in request of the page open, whatever
\* flows ask for the signature, time out, and ask again after a reset.
OnePrompt == prompts <= 1

\* A scan that a return has stopped does not take the record away from it.
ReturnedIsKept ==
  [][\A f \in Flows :
       Returns(f) /\ At(f) \notin {"idle", "timer"} /\ status[Pos(f)] # "none"
       => status'[Pos(f)] # "none"]_vars

\* Every flow ends, or waits for its timer, though the wallet never answers; a
\* scan may also be replaced by the one of a new connection.
Settled(f) ==
  At(f) \in {"idle", "timer"} \/ (f = "scan" /\ At("connect") # "idle")

FlowsSettle == \A f \in Flows : []<>Settled(f)

\* The history that is saved in the browser survives a recovery
\* (positions.ts:81-85).
RecordsSurvive == \A p \in saved : status[p] # "none"

\* What is returned for a position is taken from the account of that position
\* (docs/private-pons-relay.md: R2 and S2/A2 are position-specific).
ReturnsItsOwnAccount ==
  \A f \in Flows : At(f) = "returning" /\ status[Pos(f)] # "none"
                     => flow[f].on = acct[Pos(f)]
=============================================================================
