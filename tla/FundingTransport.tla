-------------------------- MODULE FundingTransport --------------------------
(***************************************************************************)
(* createRelayFundingTransport: a private withdrawal is burned by CCTP     *)
(* towards a strict Relay deposit address, and Relay delivers USDG to the  *)
(* counterfactual Robinhood account.  One recovery scope (one identity     *)
(* signature) is modelled: scopes share no storage key.                    *)
(*                                                                         *)
(* A flow is one run of the transport; two flows are two tabs of the same  *)
(* profile, which share localStorage.  Code between two awaits is one      *)
(* action.  A call that throws ends in "idle"; a throw that has changed    *)
(* nothing is a stuttering step.                                           *)
(***************************************************************************)
EXTENDS Integers, FiniteSets

CONSTANTS
  Flows,    \* concurrent runs of the transport
  Accounts, \* private session accounts, one per account index
  Requests, \* Relay request ids; every quote mints a fresh one
  None,     \* no record under a storage key
  Garbled,  \* a legacy record that is not JSON
  Corrupt   \* a record that parses but that readCursor rejects

Cursor == [request: Requests, account: Accounts]

NotCursors == {None, Garbled, Corrupt}

ASSUME FundingAssumption ==
  /\ None # Garbled /\ None # Corrupt /\ Garbled # Corrupt
  /\ NotCursors \cap Cursor = {}
  /\ NotCursors \cap (Requests \cup Accounts) = {}

VARIABLES
  pc,      \* where each flow waits
  want,    \* the session account each flow funds
  req,     \* the Relay request each flow has quoted or resumed
  cursor,  \* the v2 recovery record in localStorage
  legacy,  \* the record an older build left under the wallet's address
  target,  \* the account a request was quoted for, None while not minted
  burn,    \* CCTP burn of a request on Starknet
  relay,   \* Relay's status of a request
  orphans  \* history: burns sent that no record or running flow will resume

local   == <<pc, want, req>>
storage == <<cursor, legacy>>
chain   == <<target, burn, relay>>
vars    == <<pc, want, req, cursor, legacy, target, burn, relay, orphans>>

Sent(r) == burn[r] \in {"submitted", "burned"}

(***************************************************************************)
(* Storage.                                                                *)
(***************************************************************************)
\* What readCursor finds after migrateLegacyCursor: the legacy record moves to
\* the v2 key unless that key is taken.  Garbled makes the migration throw.
Prior == IF cursor = None THEN legacy ELSE cursor

Migrate ==
  /\ cursor' = Prior
  /\ legacy' = None

Goto(f, label) == pc' = [pc EXCEPT ![f] = label]

(***************************************************************************)
(* The transport up to its first await.                                    *)
(***************************************************************************)
\* Mutant: assertCursorMatches is not asked.
AnyonesResume(f, a) ==
  /\ pc[f] = "idle"
  /\ Prior \in Cursor
  /\ Migrate
  /\ Goto(f, "polling")
  /\ want' = [want EXCEPT ![f] = a]
  /\ req' = [req EXCEPT ![f] = Prior.request]
  /\ UNCHANGED <<target, burn, relay, orphans>>

\* A recovery record of this account: poll its request, burn nothing.
Resume(f, a) ==
  /\ pc[f] = "idle"
  /\ Prior \in Cursor
  /\ Prior.account = a
  /\ Migrate
  /\ Goto(f, "polling")
  /\ want' = [want EXCEPT ![f] = a]
  /\ req' = [req EXCEPT ![f] = Prior.request]
  /\ UNCHANGED <<target, burn, relay, orphans>>

\* assertCursorMatches: the record is another account's, the call throws.
RefuseOther(f, a) ==
  /\ pc[f] = "idle"
  /\ Prior \in Cursor
  /\ Prior.account # a
  /\ Migrate
  /\ UNCHANGED <<local, chain, orphans>>

\* readCursor removes a record it cannot validate and throws.
DropCorrupt(f) ==
  /\ pc[f] = "idle"
  /\ Prior = Corrupt
  /\ cursor' = None
  /\ legacy' = None
  /\ orphans' = orphans \cup {r \in Requests : Sent(r)}
  /\ UNCHANGED <<local, chain>>

\* Mutant: an unfinished transfer is only looked for after the burn.
BlindBegin(f, a) ==
  /\ pc[f] = "idle"
  /\ Migrate
  /\ Goto(f, "quoting")
  /\ want' = [want EXCEPT ![f] = a]
  /\ UNCHANGED <<req, chain, orphans>>

\* No record, and assertStorageWritable has probed the storage.
Begin(f, a) ==
  /\ pc[f] = "idle"
  /\ Prior = None
  /\ Migrate
  /\ Goto(f, "quoting")
  /\ want' = [want EXCEPT ![f] = a]
  /\ UNCHANGED <<req, chain, orphans>>

(***************************************************************************)
(* Quotes, preflight and the burn.                                         *)
(***************************************************************************)
\* quoteCctpOut and the Relay quote; the strict route mints a request id.
Quote(f, r) ==
  /\ pc[f] = "quoting"
  /\ target[r] = None
  /\ target' = [target EXCEPT ![r] = want[f]]
  /\ req' = [req EXCEPT ![f] = r]
  /\ Goto(f, "preflight")
  /\ UNCHANGED <<want, storage, burn, relay, orphans>>

\* The reverse route would deliver enough to pay for the private merge.
Preflight(f) ==
  /\ pc[f] = "preflight"
  /\ Goto(f, "burning")
  /\ UNCHANGED <<want, req, storage, chain, orphans>>

\* Circle's fee eats the amount, Relay refuses a route, the reverse route is
\* too small: the call throws before any funds move.
QuoteRefused(f) ==
  /\ pc[f] \in {"quoting", "preflight"}
  /\ Goto(f, "idle")
  /\ req' = [req EXCEPT ![f] = None]
  /\ UNCHANGED <<want, storage, chain, orphans>>

\* bridgeOutToDeposit has its proof and sends the burn.
Submit(f) ==
  /\ pc[f] = "burning"
  /\ burn[req[f]] = "none"
  /\ burn' = [burn EXCEPT ![req[f]] = "submitted"]
  /\ UNCHANGED <<local, storage, target, relay, orphans>>

Record(f) == [request |-> req[f], account |-> want[f]]

\* Mutant: waitForSuccess starts without a record in storage.
ForgetfulBurnReturns(f) ==
  /\ pc[f] = "burning"
  /\ burn[req[f]] = "burned"
  /\ Goto(f, "polling")
  /\ UNCHANGED <<want, req, storage, chain, orphans>>

\* The burn is final: writeCursor, then the first status poll.
BurnReturns(f) ==
  /\ pc[f] = "burning"
  /\ burn[req[f]] = "burned"
  /\ cursor' = Record(f)
  /\ Goto(f, "polling")
  /\ UNCHANGED <<want, req, legacy, chain, orphans>>

\* The flow ends while burning: bridgeOutToDeposit or writeCursor throws, or
\* the tab is closed.  A burn that was sent has no record then.
BurnInterrupted(f) ==
  /\ pc[f] = "burning"
  /\ orphans' = IF Sent(req[f]) THEN orphans \cup {req[f]} ELSE orphans
  /\ Goto(f, "idle")
  /\ req' = [req EXCEPT ![f] = None]
  /\ UNCHANGED <<want, storage, chain>>

(***************************************************************************)
(* waitForSuccess and clearCursor.                                         *)
(***************************************************************************)
\* Mutant: the record outlives the transfer.
KeepingPollSuccess(f) ==
  /\ pc[f] = "polling"
  /\ relay[req[f]] = "success"
  /\ Goto(f, "idle")
  /\ req' = [req EXCEPT ![f] = None]
  /\ UNCHANGED <<want, storage, chain, orphans>>

PollSuccess(f) ==
  /\ pc[f] = "polling"
  /\ relay[req[f]] = "success"
  /\ cursor' = None
  /\ Goto(f, "idle")
  /\ req' = [req EXCEPT ![f] = None]
  /\ UNCHANGED <<want, legacy, chain, orphans>>

\* Mutant: the record is cleared on every way out of the loop.
ClearingPollEnds(f) ==
  /\ pc[f] = "polling"
  /\ cursor' = None
  /\ Goto(f, "idle")
  /\ req' = [req EXCEPT ![f] = None]
  /\ UNCHANGED <<want, legacy, chain, orphans>>

\* Terminal failure, a status error that is not retried, the deadline, or the
\* tab is closed: the record stays.
PollEnds(f) ==
  /\ pc[f] = "polling"
  /\ Goto(f, "idle")
  /\ req' = [req EXCEPT ![f] = None]
  /\ UNCHANGED <<want, storage, chain, orphans>>

(***************************************************************************)
(* Starknet, Circle and Relay.                                             *)
(***************************************************************************)
Land(r) ==
  /\ burn[r] = "submitted"
  /\ burn' = [burn EXCEPT ![r] = "burned"]
  /\ UNCHANGED <<local, storage, target, relay, orphans>>

Reject(r) ==
  /\ burn[r] = "submitted"
  /\ burn' = [burn EXCEPT ![r] = "rejected"]
  /\ UNCHANGED <<local, storage, target, relay, orphans>>

Fill(r) ==
  /\ burn[r] = "burned"
  /\ relay[r] = "waiting"
  /\ relay' = [relay EXCEPT ![r] = "success"]
  /\ UNCHANGED <<local, storage, target, burn, orphans>>

\* Refunded, expired or failed: terminal without delivery.
Fail(r) ==
  /\ target[r] # None
  /\ relay[r] = "waiting"
  /\ relay' = [relay EXCEPT ![r] = "failed"]
  /\ UNCHANGED <<local, storage, target, burn, orphans>>

(***************************************************************************)
(* Specification.                                                          *)
(***************************************************************************)
\* An older build may have left the record of an unfinished transfer.
Init ==
  /\ pc = [f \in Flows |-> "idle"]
  /\ want = [f \in Flows |-> None]
  /\ req = [f \in Flows |-> None]
  /\ cursor = None
  /\ relay = [r \in Requests |-> "waiting"]
  /\ orphans = {}
  /\ \/ /\ legacy \in {None, Garbled}
        /\ target = [r \in Requests |-> None]
        /\ burn = [r \in Requests |-> "none"]
     \/ \E old \in Cursor :
          /\ legacy \in {old, Corrupt}
          /\ target = [r \in Requests |-> IF r = old.request THEN old.account
                                                             ELSE None]
          /\ burn = [r \in Requests |-> IF r = old.request THEN "burned"
                                                           ELSE "none"]

Call(f, a) == Resume(f, a) \/ RefuseOther(f, a) \/ Begin(f, a)

Run(f) ==
  \/ \E r \in Requests : Quote(f, r)
  \/ Preflight(f)
  \/ QuoteRefused(f)
  \/ Submit(f)
  \/ BurnReturns(f)
  \/ BurnInterrupted(f)
  \/ PollSuccess(f)
  \/ PollEnds(f)

Environment(r) == Land(r) \/ Reject(r) \/ Fill(r) \/ Fail(r)

Next ==
  \/ \E f \in Flows, a \in Accounts : Call(f, a)
  \/ \E f \in Flows : DropCorrupt(f)
  \/ \E f \in Flows : Run(f)
  \/ \E r \in Requests : Environment(r)

Spec == Init /\ [][Next]_vars

\* A profile without the record of an older build.
FreshSpec == Init /\ legacy = None /\ [][Next]_vars

(***************************************************************************)
(* Fairness.  An await settles: fetches and wallet calls answer or fail,   *)
(* and the polling loop has a deadline, so a running call moves on.  The   *)
(* user is not fair.  UserRetries adds the user who keeps asking for the   *)
(* account of the record, and a tab that is not closed at every attempt.   *)
(***************************************************************************)
FairSpec == Spec /\ \A f \in Flows : WF_vars(Run(f))

RetryPrior(f) == \E a \in Accounts : Resume(f, a)

UserRetries == \A f \in Flows : WF_vars(RetryPrior(f)) /\ SF_vars(PollSuccess(f))

RetrySpec == FairSpec /\ UserRetries

(***************************************************************************)
(* Properties of any number of flows.                                      *)
(***************************************************************************)
TypeOK ==
  /\ pc \in [Flows -> {"idle", "quoting", "preflight", "burning", "polling"}]
  /\ want \in [Flows -> Accounts \cup {None}]
  /\ req \in [Flows -> Requests \cup {None}]
  /\ cursor \in Cursor \cup {None}
  /\ legacy \in Cursor \cup NotCursors
  /\ target \in [Requests -> Accounts \cup {None}]
  /\ burn \in [Requests -> {"none", "submitted", "burned", "rejected"}]
  /\ relay \in [Requests -> {"waiting", "success", "failed"}]
  /\ orphans \subseteq Requests

\* A recovery record never names a transfer that was not paid for: waiting for
\* it would block the account without any money on its way.
RecordNamesABurn ==
  \A c \in {cursor, legacy} \cap Cursor :
    burn[c.request] = "burned" /\ target[c.request] = c.account

\* A caller only ever waits for, and is told of, a delivery to the account it
\* asked for, whoever quoted it and whichever tab wrote the record.
PollsItsOwnTransfer ==
  \A f \in Flows : pc[f] = "polling" =>
    burn[req[f]] = "burned" /\ target[req[f]] = want[f]

\* Every call ends, even if Relay never reports a terminal status: the polling
\* loop has a deadline.
CallsSettle == \A f \in Flows : pc[f] # "idle" ~> pc[f] = "idle"

(***************************************************************************)
(* Properties of a single flow: one tab, reloaded as often as one likes.   *)
(***************************************************************************)
Recorded(r) == \E c \in {cursor, legacy} \cap Cursor : c.request = r

\* Money on its way is always in sight: the storage has a record of it or the
\* running call has, except in the window between the burn and writeCursor.
BurnsInSight ==
  \A r \in Requests : Sent(r) /\ relay[r] # "success" =>
    \/ Recorded(r)
    \/ legacy = Corrupt
    \/ \E f \in Flows : pc[f] = "burning" /\ req[f] = r
    \/ r \in orphans

\* As long as a record exists, no retry, reload or other account burns again.
NoBurnOverRecord ==
  [][\A r \in Requests :
       burn[r] = "none" /\ burn'[r] = "submitted" => Prior = None]_vars

\* A record is given up for a delivery, never for a timeout or a failure.
RecordClosedByDelivery ==
  [][\A r \in Requests :
       Recorded(r) /\ ~Recorded(r)' => relay[r] = "success"]_vars

\* A user who retries with the account of the record gets it closed once Relay
\* has delivered, and may fund again.
RetryRecovers ==
  \A r \in Requests : Recorded(r) /\ relay[r] = "success" ~> ~Recorded(r)

OpenBurn(r) ==
  \/ Recorded(r)
  \/ legacy = Corrupt /\ Sent(r)
  \/ \E f \in Flows : pc[f] = "burning" /\ req[f] = r /\ burn[r] = "burned"

\* The transport keeps the FundingPromise.
Promise == INSTANCE FundingPromise WITH
  open <- {r \in Requests \ orphans : OpenBurn(r)},
  delivered <- {r \in Requests : relay[r] = "success"},
  lost <- orphans

KeepsPromise == Promise!Spec

(***************************************************************************)
(* What the documentation says of a reload.                                *)
(***************************************************************************)
\* docs/integration.md: refreshes resume rather than burn twice.
NeverBurnsTwice ==
  [][\A r, s \in Requests :
       /\ r # s
       /\ burn[r] = "none" /\ burn'[r] = "submitted"
       => ~(burn[s] = "burned" /\ relay[s] = "waiting")]_vars
=============================================================================
