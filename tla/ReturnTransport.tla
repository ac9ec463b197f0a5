--------------------------- MODULE ReturnTransport ---------------------------
(***************************************************************************)
(* The way back of the money: createRelayReturnTransport (one position,    *)
(* through an Arbitrum account and a STRK20 identity of its own),          *)
(* createRelayBatchReturnTransport (several positions through a shared     *)
(* one) and returnSessionsToWallet (the public emergency exit), with the   *)
(* reads of the SDK client that decide what they move and the application  *)
(* code that closes a position after them or starts them again.            *)
(*                                                                         *)
(* A flow is one call.  The application runs several at a time: returns    *)
(* started by a connect, by timers and by the user share the accounts, and *)
(* the batches share one staging account.  The transports keep no record:  *)
(* all a retry has is what the balances say.  A flow that throws, or a     *)
(* reload, leaves the money where it is.  Nothing arrives at an account    *)
(* while it is returned (what may is PositionLifecycle's), so an account   *)
(* holds all of its worth or nothing.                                      *)
(***************************************************************************)
EXTENDS Integers, FiniteSets

CONSTANTS
  Positions, \* position accounts, one per account index
  Flows,     \* calls that run at a time
  Requests,  \* Relay requests and recovery transfers that can be open at a time
  Shared,    \* the lane of every batch return
  Wallet,    \* the lane of the emergency exit
  None,      \* no request
  Small,     \* positions that are worth no more than FeeBuffer
  FeeBuffer, \* privateTransferFeeBuffer
  GasTopup,  \* what a topped-up transfer leaves on a staging account
  GasCost    \* what a deposit burns of it

ASSUME ReturnAssumption ==
  /\ IsFiniteSet(Positions) /\ Small \subseteq Positions
  /\ Shared \notin Positions /\ Wallet \notin Positions /\ Shared # Wallet
  /\ None \notin Requests
  /\ FeeBuffer \in Nat \ {0}
  /\ GasCost \in Nat /\ GasTopup \in Nat /\ GasCost <= GasTopup

Lanes == Positions \cup {Shared}

VARIABLES
  at,       \* where each flow waits
  job,      \* what each flow works on, see NoJob
  req,      \* open Relay requests and transfers, a finished one is Fresh again
  held,     \* positions whose account still has its USDG
  staging,  \* USDC of each lane's Arbitrum account
  gas,      \* its native balance
  closed,   \* positions the application has closed
  dropped   \* history: positions whose return broke off with their money on the way

money == <<held, staging, gas>>
vars  == <<at, job, req, held, staging, gas, closed, dropped>>

Worth(p) == IF p \in Small THEN FeeBuffer ELSE FeeBuffer + 1

\* A flow's locals: its lane, the positions it was called for, those whose
\* balance it has still to read, those it has seen one of and not sent, the
\* request it waits for, the staging balance it counts on, and whether it still
\* asks for gas.
NoJob == [lane |-> None, of |-> {}, unread |-> {}, todo |-> {},
          cur |-> None, seen |-> 0, topup |-> TRUE]

Fresh == [st |-> "fresh", src |-> None, lane |-> None, topup |-> FALSE]

Followed(r) == \E f \in Flows : job[f].cur = r

\* A request reaches its end; one that no flow waits for is forgotten.
Outcome(r, st) == IF Followed(r) THEN [req[r] EXCEPT !.st = st] ELSE Fresh

\* A transfer to the wallet is at its end when it is executed.
Pending(r) == req[r].st = "sent" \/ (req[r].st = "paid" /\ req[r].lane # Wallet)

Goto(f, label) == at' = [at EXCEPT ![f] = label]

\* The flows of ended are over.  Their open requests are nobody's from now on,
\* their finished ones are forgotten.
EndAll(ended) ==
  /\ at' = [f \in Flows |-> IF f \in ended THEN "idle" ELSE at[f]]
  /\ job' = [f \in Flows |-> IF f \in ended THEN NoJob ELSE job[f]]
  /\ req' = [r \in Requests |->
               IF ~Pending(r) /\ \E f \in ended : job[f].cur = r THEN Fresh ELSE req[r]]

\* A break-off that leaves money on the way: a request that was posted, or USDC
\* of the position that waits to be deposited.
Drop(ended) ==
  dropped' = dropped \cup
    UNION {job[f].of : f \in {g \in ended : at[g] \in {"posted", "polling", "checking",
                                                       "depositing", "merging"}}}

(***************************************************************************)
(* returnSession, returnSessions and returnSessionsToWallet: reads.        *)
(***************************************************************************)
\* One position returns through its own lane, several through the shared one or
\* to the wallet.  The status of the positions becomes "returning"; a timer does
\* not look whether another return has closed them.
Start(f, lane, of) ==
  /\ at[f] = "idle"
  /\ of # {}
  /\ lane \in Positions => of = {lane}
  /\ Goto(f, "reading")
  /\ job' = [job EXCEPT ![f] = [NoJob EXCEPT !.lane = lane, !.of = of, !.unread = of]]
  /\ closed' = IF lane = Wallet THEN closed ELSE closed \ of
  /\ UNCHANGED <<req, money, dropped>>

\* deriveSession and balanceOf, one account after the other.
ReadSource(f) ==
  /\ at[f] = "reading"
  /\ \E p \in job[f].unread :
       job' = [job EXCEPT ![f].unread = @ \ {p}, ![f].todo = @ \cup ({p} \cap held)]
  /\ Goto(f, IF Cardinality(job[f].unread) > 1 THEN "reading" ELSE "looking")
  /\ UNCHANGED <<req, money, closed, dropped>>

\* A call that returns: the application closes the positions it was called for.
\* It does not use the emergency exit.
Succeed(f) ==
  /\ closed' = IF job[f].lane = Wallet THEN closed ELSE closed \cup job[f].of
  /\ EndAll({f})
  /\ UNCHANGED dropped

(***************************************************************************)
(* What the balances say.                                                  *)
(***************************************************************************)
\* Mutant: a return resumes from its source only.
ForgetfulLookSingle(f) ==
  /\ at[f] = "looking"
  /\ job[f].lane \in Positions
  /\ job[f].todo \ Small # {}
  /\ Goto(f, "quoting")
  /\ UNCHANGED <<job, req, money, closed, dropped>>

\* A single return sends what is worth sending, and otherwise looks for USDC a
\* previous one has left on the staging account.
LookSingle(f) ==
  /\ at[f] = "looking"
  /\ job[f].lane \in Positions
  /\ \/ /\ job[f].todo \ Small # {}
        /\ Goto(f, "quoting")
        /\ UNCHANGED job
     \/ /\ job[f].todo \ Small = {}
        /\ staging[job[f].lane] > FeeBuffer
        /\ job' = [job EXCEPT ![f].todo = {}, ![f].seen = staging[job[f].lane]]
        /\ Goto(f, "depositing")
  /\ UNCHANGED <<req, money, closed, dropped>>

\* Mutant: what the source holds is no part of it.
BlindNothingLeft(f) ==
  /\ at[f] = "looking"
  /\ job[f].lane \in Positions
  /\ staging[job[f].lane] = 0
  /\ Succeed(f)
  /\ UNCHANGED money

\* "No recoverable return was found": automaticallyReturnSellPosition takes a
\* source and a staging account of zero for the end of it, and closes.
NothingLeft(f) ==
  /\ at[f] = "looking"
  /\ job[f].lane \in Positions
  /\ job[f].todo = {}
  /\ staging[job[f].lane] = 0
  /\ Succeed(f)
  /\ UNCHANGED money

\* A batch first looks at the shared account: its USDC and whether it has any
\* gas.  Nothing anywhere is a return that was made before.
LookBatch(f) ==
  /\ at[f] = "looking"
  /\ job[f].lane = Shared
  /\ \/ /\ job[f].todo = {} /\ staging[Shared] = 0
        /\ Succeed(f)
     \/ /\ job[f].todo # {} \/ staging[Shared] > FeeBuffer
        /\ job' = [job EXCEPT ![f].seen = staging[Shared],
                              ![f].topup = gas[Shared] = 0]
        /\ Goto(f, IF job[f].todo = {} THEN "depositing" ELSE "quoting")
        /\ UNCHANGED <<req, closed, dropped>>
  /\ UNCHANGED money

\* The root wallet authorizes the list of accounts and amounts once.  No funds
\* at all is a recovery that was made before.
LookWallet(f) ==
  /\ at[f] = "looking"
  /\ job[f].lane = Wallet
  /\ IF job[f].todo = {} THEN Succeed(f)
                         ELSE /\ Goto(f, "quoting")
                              /\ UNCHANGED <<job, req, closed, dropped>>
  /\ UNCHANGED money

(***************************************************************************)
(* Out of the position account.                                            *)
(***************************************************************************)
\* Mutant: gas is asked for only when the shared account needs it.
ThriftySend(f, r) ==
  /\ at[f] = "quoting"
  /\ req[r] = Fresh
  /\ \E p \in job[f].todo :
       /\ \A q \in job[f].todo : Worth(q) <= Worth(p)
       /\ req' = [req EXCEPT ![r] = [st |-> "sent", src |-> p, lane |-> job[f].lane,
                                     topup |-> job[f].lane = Shared /\ job[f].topup]]
       /\ job' = [job EXCEPT ![f].cur = r, ![f].todo = @ \ {p}]
  /\ Goto(f, "posted")
  /\ UNCHANGED <<money, closed, dropped>>

\* Relay quotes a strict deposit, and prepareRelayRequest reads the nonce, signs
\* and posts the batch.  A batch return sends its largest balance first, and asks
\* for gas only until the shared account has some.  A wallet recovery has no
\* quote: its transfer stands under the same record.
Send(f, r) ==
  /\ at[f] = "quoting"
  /\ req[r] = Fresh
  /\ \E p \in job[f].todo :
       /\ \A q \in job[f].todo : Worth(q) <= Worth(p)
       /\ req' = [req EXCEPT ![r] = [st |-> "sent", src |-> p, lane |-> job[f].lane,
                                     topup |-> job[f].topup]]
       /\ job' = [job EXCEPT ![f].cur = r, ![f].todo = @ \ {p}]
  /\ Goto(f, "posted")
  /\ UNCHANGED <<money, closed, dropped>>

\* The chain executes a batch.  What else was signed for the same nonce can only
\* revert now.
Execute(r) ==
  /\ req[r].st = "sent"
  /\ req[r].src \in held
  /\ held' = held \ {req[r].src}
  /\ req' = [q \in Requests |->
               IF q = r THEN IF req[r].lane = Wallet THEN Outcome(r, "paid")
                                                     ELSE [req[r] EXCEPT !.st = "paid"]
               ELSE IF req[q].st = "sent" /\ req[q].src = req[r].src
                    THEN Outcome(q, "reverted")
               ELSE req[q]]
  /\ UNCHANGED <<at, job, staging, gas, closed, dropped>>

\* It reverts, or the relayer has refused it, or it never arrived there.
Fails(r) ==
  /\ req[r].st = "sent"
  /\ req' = [req EXCEPT ![r] = Outcome(r, "reverted")]
  /\ UNCHANGED <<at, job, money, closed, dropped>>

\* A receipt that says success: a return polls Relay now, a wallet recovery
\* goes on to its next account.
Confirm(f) ==
  /\ at[f] = "posted"
  /\ req[job[f].cur].st \in {"paid", "filled", "refunded"}
  /\ \/ /\ job[f].lane # Wallet
        /\ Goto(f, "polling")
        /\ UNCHANGED <<job, req, closed, dropped>>
     \/ /\ job[f].lane = Wallet
        /\ job[f].todo # {}
        /\ job' = [job EXCEPT ![f].cur = None]
        /\ req' = [req EXCEPT ![job[f].cur] = Fresh]
        /\ Goto(f, "quoting")
        /\ UNCHANGED <<closed, dropped>>
     \/ /\ job[f].lane = Wallet
        /\ job[f].todo = {}
        /\ Succeed(f)
  /\ UNCHANGED money

(***************************************************************************)
(* Relay.                                                                  *)
(***************************************************************************)
Fill(r) ==
  /\ req[r].st = "paid"
  /\ req[r].lane # Wallet
  /\ req' = [req EXCEPT ![r] = Outcome(r, "filled")]
  /\ staging' = [staging EXCEPT ![req[r].lane] = @ + Worth(req[r].src)]
  /\ gas' = [gas EXCEPT ![req[r].lane] = @ + IF req[r].topup THEN GasTopup ELSE 0]
  /\ UNCHANGED <<at, job, held, closed, dropped>>

\* Relay pays back to refundTo, the owner key of the position account.
Refund(r) ==
  /\ req[r].st = "paid"
  /\ req[r].lane # Wallet
  /\ req' = [req EXCEPT ![r] = Outcome(r, "refunded")]
  /\ UNCHANGED <<at, job, money, closed, dropped>>

\* waitForSuccess sees the request filled.
PollSuccess(f) ==
  /\ at[f] = "polling"
  /\ req[job[f].cur].st = "filled"
  /\ Goto(f, "checking")
  /\ UNCHANGED <<job, req, money, closed, dropped>>

\* The staging balance must have what was quoted, on top of what a batch has
\* counted before.  The batch then sends its next source.
Check(f) ==
  LET r    == job[f].cur
      lane == job[f].lane
      had  == IF lane = Shared THEN job[f].seen ELSE 0
  IN /\ at[f] = "checking"
     /\ staging[lane] >= had + Worth(req[r].src)
     /\ job' = [job EXCEPT ![f].cur = None, ![f].seen = staging[lane],
                           ![f].topup = FALSE]
     /\ req' = [req EXCEPT ![r] = Fresh]
     /\ \/ /\ job[f].todo # {}
           /\ Goto(f, "quoting")
        \/ /\ job[f].todo = {}
           /\ lane = Shared => staging[lane] > FeeBuffer
           /\ Goto(f, "depositing")
     /\ UNCHANGED <<money, closed, dropped>>

(***************************************************************************)
(* Into the pool and to the main balance.                                  *)
(***************************************************************************)
\* Mutant: the balance the flow counts on is not looked at again.
StaleDeposit(f) ==
  LET lane == job[f].lane IN
  /\ at[f] = "depositing"
  /\ staging' = [staging EXCEPT ![lane] = @ - job[f].seen]
  /\ Goto(f, "merging")
  /\ UNCHANGED <<job, req, held, gas, closed, dropped>>

\* moveIntoPool burns what the flow counts on, if the account still has it, and
\* returns what S2 received, which must leave something to merge.
Deposit(f) ==
  LET lane == job[f].lane IN
  /\ at[f] = "depositing"
  /\ job[f].seen > FeeBuffer
  /\ staging[lane] >= job[f].seen
  /\ gas[lane] >= GasCost
  /\ staging' = [staging EXCEPT ![lane] = @ - job[f].seen]
  /\ gas' = [gas EXCEPT ![lane] = @ - GasCost]
  /\ Goto(f, "merging")
  /\ UNCHANGED <<job, req, held, closed, dropped>>

\* sendPrivateToStarknet is confirmed.
Merge(f) ==
  /\ at[f] = "merging"
  /\ Succeed(f)
  /\ UNCHANGED money

(***************************************************************************)
(* Failures.                                                               *)
(***************************************************************************)
\* Any await may throw: a read, a quote that is refused or too small, a POST or
\* a receipt that is not answered, a poll that ends, a balance below what was
\* quoted, a deposit that fails, a merge that is not confirmed.  The positions
\* become "return-failed", whatever another flow has made of them.
Throw(f) ==
  /\ at[f] # "idle"
  /\ EndAll({f})
  /\ closed' = IF job[f].lane = Wallet THEN closed ELSE closed \ job[f].of
  /\ Drop({f})
  /\ UNCHANGED money

\* The tab ends, and every flow with it.  A position that was returned stays as
\* it was saved.
Reload ==
  LET running == {f \in Flows : at[f] # "idle"} IN
  /\ running # {}
  /\ EndAll(running)
  /\ Drop(running)
  /\ UNCHANGED <<money, closed>>

(***************************************************************************)
(* Specification.                                                          *)
(***************************************************************************)
Init ==
  /\ at = [f \in Flows |-> "idle"]
  /\ job = [f \in Flows |-> NoJob]
  /\ req = [r \in Requests |-> Fresh]
  /\ held = Positions
  /\ staging = [l \in Lanes |-> 0]
  /\ gas = [l \in Lanes |-> 0]
  /\ closed = {}
  /\ dropped = {}

Look(f) == LookSingle(f) \/ NothingLeft(f) \/ LookBatch(f) \/ LookWallet(f)

Advance(f) ==
  \/ ReadSource(f) \/ Look(f)
  \/ \E r \in Requests : Send(f, r)
  \/ Confirm(f) \/ PollSuccess(f) \/ Check(f)
  \/ Deposit(f) \/ Merge(f)

Outside(r) == Execute(r) \/ Fails(r) \/ Fill(r) \/ Refund(r)

Next ==
  \/ \E f \in Flows :
       \/ \E p \in Positions : Start(f, p, {p})
       \/ \E of \in SUBSET Positions, lane \in {Shared, Wallet} : Start(f, lane, of)
       \/ Advance(f) \/ Throw(f)
  \/ \E r \in Requests : Outside(r)
  \/ Reload

Spec == Init /\ [][Next]_vars

\* What the application's retries are: a position that is not closed is returned
\* again, and no step of a return that is tried forever fails forever.  The chain,
\* Relay and the user owe nothing.
Fairness ==
  /\ \A f \in Flows : WF_vars(Throw(f))
  /\ \A p \in Positions :
       /\ SF_vars(p \notin closed /\ \E f \in Flows : Start(f, p, {p}))
       /\ SF_vars(\E f \in Flows : job[f].lane = p /\ ReadSource(f))
       /\ SF_vars(\E f \in Flows : job[f].lane = p /\ Look(f))
       /\ SF_vars(\E f \in Flows : job[f].lane = p /\ Deposit(f))

FairSpec == Spec /\ Fairness

(***************************************************************************)
(* Properties.                                                             *)
(***************************************************************************)
TypeOK ==
  /\ at \in [Flows -> {"idle", "reading", "looking", "quoting", "posted", "polling",
                       "checking", "depositing", "merging"}]
  /\ job \in [Flows -> [lane : Lanes \cup {Wallet, None}, of : SUBSET Positions,
                        unread : SUBSET Positions, todo : SUBSET Positions,
                        cur : Requests \cup {None}, seen : Nat, topup : BOOLEAN]]
  /\ req \in [Requests -> [st : {"fresh", "sent", "paid", "filled", "refunded", "reverted"},
                           src : Positions \cup {None},
                           lane : Lanes \cup {Wallet, None}, topup : BOOLEAN]]
  /\ held \in SUBSET Positions
  /\ staging \in [Lanes -> Nat]
  /\ gas \in [Lanes -> Nat]
  /\ closed \in SUBSET Positions
  /\ dropped \in SUBSET Positions

\* A position that the application has closed has nothing left to return: its
\* account has no more than a merge costs, no request carries its money unseen,
\* and its staging account is empty or a return works on it.  Returns of the same
\* position may run, fail and be started again beside each other; only where one
\* has broken off with the money on the way may the next one close too early.
ClosedIsEmpty ==
  \A p \in closed \ dropped :
    /\ p \in held => p \in Small
    /\ \A r \in Requests : Pending(r) /\ req[r].src = p => Followed(r)
    /\ staging[p] > FeeBuffer => \E f \in Flows : job[f].lane = p

\* The staging account of a position has the gas to deposit what has reached it,
\* although nothing but the transfer itself ever brings gas there.
StagedHasGas ==
  \A p \in Positions : staging[p] > FeeBuffer => gas[p] >= GasCost

\* USDC that a return has left on the staging account of a position does not stay
\* there: the next return finds and deposits it, or the position was closed.
StagedComesHome ==
  \A p \in Positions :
    staging[p] > FeeBuffer /\ p \notin closed
      ~> staging[p] <= FeeBuffer \/ p \in closed
=============================================================================
