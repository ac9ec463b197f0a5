--------------------------- MODULE DepositTransport ---------------------------
(***************************************************************************)
(* The public edges of the private balance: deposit, finishPendingDeposit, *)
(* withdraw and the funding of a position in the application, with         *)
(* createRelayDepositTransport below them, and the figures the page shows: *)
(* the balance, the deposit that is still pending and the part of the      *)
(* balance that rests before it may be used.                               *)
(*                                                                         *)
(* A deposit is one unit of USDG.  It leaves the wallet as a Robinhood     *)
(* transaction, Relay pays it out to the Arbitrum account A1, A1 burns it, *)
(* Circle mints it to the Starknet account and a paymaster transaction     *)
(* moves what that account holds into the pool.  The stage of the page     *)
(* keeps a second call out only while the identity is prepared: a call     *)
(* that finds it prepared runs with the stage "idle".                      *)
(***************************************************************************)
EXTENDS Integers, FiniteSets

CONSTANTS
  Calls,      \* calls that run at a time
  Transfers,  \* Robinhood transactions the wallet sends
  NoTransfer, \* no transfer
  Balance     \* what the pool holds at first

ASSUME DepositAssumption ==
  IsFiniteSet(Transfers) /\ NoTransfer \notin Transfers /\ Balance \in Nat

VARIABLES
  at,       \* where each call waits
  job,      \* each call: its kind, the balance shown when it began, its transfer
  tx,       \* state of each Robinhood transaction
  a1,       \* USDC on A1
  cctp,     \* burned there and not minted
  residual, \* minted on Starknet and not in the pool
  paying,   \* a paymaster transaction has been sent and is not settled
  pool,     \* the private balance
  stage,    \* OperationStage
  known,    \* the identity is prepared
  shown,    \* privateBalance
  pending,  \* pendingDepositBalance
  resting,  \* restingPrivateBalance
  saved,    \* the rest in localStorage
  tracked   \* trackedDepositHash, kept in localStorage

money == <<tx, a1, cctp, residual, paying, pool>>
shows == <<shown, pending, resting, saved>>
depositVars == <<at, job, money, stage, known, shows, tracked>>

NoJob == [kind |-> NoTransfer, before |-> 0, tx |-> NoTransfer]

Waits(c, label) == at' = [at EXCEPT ![c] = label]

\* A call ends: the stage is "idle" again, whatever else runs.
End(c) ==
  /\ Waits(c, "idle")
  /\ job' = [job EXCEPT ![c] = NoJob]
  /\ stage' = "idle"

Available == IF shown > resting THEN shown - resting ELSE 0

(***************************************************************************)
(* The start of a call.                                                    *)
(***************************************************************************)
Kinds == {"deposit", "finish", "withdraw", "fund"}

\* The buttons: a deposit becomes a finish while one is pending, a withdrawal
\* needs the balance, a position needs what does not rest of it.
Offered(kind) ==
  CASE kind = "deposit"  -> pending = 0
    [] kind = "finish"   -> pending > 0
    [] kind = "withdraw" -> shown >= 1
    [] kind = "fund"     -> Available >= 1

First(kind) ==
  CASE kind = "deposit"  -> "quoting"
    [] kind = "finish"   -> "rereading"
    [] OTHER             -> "spending"

\* An identity that is prepared already is used without a change of the stage; a
\* position always prepares one of its own.
Click(c, kind) ==
  /\ at[c] = "idle"
  /\ stage = "idle"
  /\ Offered(kind)
  /\ job' = [job EXCEPT ![c] = [NoJob EXCEPT !.kind = kind, !.before = shown]]
  /\ IF known /\ kind # "fund" THEN Waits(c, First(kind)) /\ UNCHANGED stage
                               ELSE Waits(c, "preparing") /\ stage' = "identity"
  /\ UNCHANGED <<money, known, shows, tracked>>

Prepare(c) ==
  /\ at[c] = "preparing"
  /\ known' = TRUE
  /\ Waits(c, First(job[c].kind))
  /\ UNCHANGED <<job, money, stage, shows, tracked>>

(***************************************************************************)
(* createRelayDepositTransport.                                            *)
(***************************************************************************)
\* Quote, eth_sendTransaction, and the hash the page tracks from then on.
Send(c, t) ==
  /\ at[c] = "quoting"
  /\ tx[t] = "unused"
  /\ tx' = [tx EXCEPT ![t] = "sent"]
  /\ job' = [job EXCEPT ![c].tx = t]
  /\ tracked' = t
  /\ Waits(c, "looking")
  /\ UNCHANGED <<a1, cctp, residual, paying, pool, stage, known, shows>>

\* waitForRobinhoodBroadcast: some lookup finds it, in a block or not.
Broadcasted(c) ==
  /\ at[c] = "looking"
  /\ tx[job[c].tx] # "dropped"
  /\ Waits(c, "polling")
  /\ UNCHANGED <<job, money, stage, known, shows, tracked>>

\* What is forgotten with a transaction that no lookup finds.
Forget ==
  /\ tracked' = NoTransfer
  /\ stage' = "idle"
  /\ known' = FALSE

\* Every lookup finds nothing: RobinhoodTransactionNotFoundError.  The
\* transaction may be on its way all the same.
NotFound(c) ==
  /\ at[c] = "looking"
  /\ tx[job[c].tx] \in {"sent", "dropped"}
  /\ Forget
  /\ Waits(c, "idle")
  /\ job' = [job EXCEPT ![c] = NoJob]
  /\ UNCHANGED <<money, shows>>

\* The page looks for the receipt of the hash it tracks by itself, after a
\* reload too, and forgets as much: beside whatever call runs.
TrackerGivesUp ==
  /\ tracked # NoTransfer
  /\ tx[tracked] \in {"sent", "dropped"}
  /\ Forget
  /\ UNCHANGED <<at, job, money, shows>>

\* Relay has paid: the transport counts on all that A1 has.
Collect(c) ==
  /\ at[c] = "polling"
  /\ tx[job[c].tx] = "filled"
  /\ a1 > 0
  /\ Waits(c, "moving")
  /\ UNCHANGED <<job, money, stage, known, shows, tracked>>

\* moveIntoPool burns it.
Burn(c) ==
  /\ at[c] = "moving"
  /\ a1 > 0
  /\ a1' = 0
  /\ cctp' = cctp + a1
  /\ Waits(c, "minting")
  /\ UNCHANGED <<job, tx, residual, paying, pool, stage, known, shows, tracked>>

\* It sends the paymaster transaction, once something is minted; a resumed one
\* does only that.
SubmitToPool(c) ==
  /\ at[c] = "minting"
  /\ residual > 0
  /\ ~paying
  /\ paying' = TRUE
  /\ Waits(c, "paying")
  /\ UNCHANGED <<job, tx, a1, cctp, residual, pool, stage, known, shows, tracked>>

\* It returns when the note is there.
Moved(c) ==
  /\ at[c] = "paying"
  /\ ~paying /\ residual = 0
  /\ Waits(c, IF job[c].kind = "deposit" THEN "reconciling" ELSE "checking")
  /\ UNCHANGED <<job, money, stage, known, shows, tracked>>

(***************************************************************************)
(* The page makes up its balance.                                          *)
(***************************************************************************)
\* Mutant: the rest that is not over is replaced.
ShortReconcile(c) ==
  LET new == pool - job[c].before IN
  /\ shown' = pool
  /\ IF new > 0 THEN resting' = new /\ saved' = new ELSE UNCHANGED <<resting, saved>>

\* Mutant: only what is new is saved.
UnsavedReconcile(c) ==
  LET new == pool - job[c].before IN
  /\ shown' = pool
  /\ IF new > 0 THEN resting' = saved + new /\ saved' = new
                ELSE UNCHANGED <<resting, saved>>

\* reconcileCompletedDeposit: what is new since the call began rests, together
\* with what rests already.
Reconcile(c) ==
  LET new == pool - job[c].before IN
  /\ shown' = pool
  /\ IF new > 0 THEN resting' = saved + new /\ saved' = saved + new
                ELSE UNCHANGED <<resting, saved>>

\* A deposit is done: the runtime forgets the identity.
DepositDone(c) ==
  /\ at[c] = "reconciling"
  /\ known
  /\ Reconcile(c)
  /\ End(c)
  /\ known' = FALSE
  /\ UNCHANGED <<money, pending, tracked>>

\* The paymaster's answer was ambiguous: the page looks at both balances before
\* it says anything, and offers to finish what is still pending.
Ambiguous(c) ==
  /\ at[c] \in {"minting", "paying"}
  /\ job[c].kind = "deposit"
  /\ known
  /\ pending' = residual
  /\ IF pool > job[c].before THEN Reconcile(c) ELSE UNCHANGED <<shown, resting, saved>>
  /\ End(c)
  /\ UNCHANGED <<money, known, tracked>>

\* finishPendingDeposit reads the pending amount again: nothing is left to do, or
\* the transport resumes.
Reread(c) ==
  /\ at[c] = "rereading"
  /\ known
  /\ pending' = residual
  /\ \/ residual = 0 /\ shown' = pool /\ End(c)
     \/ residual > 0 /\ Waits(c, "minting") /\ UNCHANGED <<job, stage, shown>>
  /\ UNCHANGED <<money, known, resting, saved, tracked>>

\* After a resume, and after a failure of it: what is not pending any more has
\* become private.
Finished(c) ==
  /\ \/ at[c] = "checking"
     \/ job[c].kind = "finish" /\ at[c] \in {"minting", "paying"}
  /\ known
  /\ pending' = residual
  /\ IF residual = 0 THEN Reconcile(c) ELSE UNCHANGED <<shown, resting, saved>>
  /\ End(c)
  /\ UNCHANGED <<money, known, tracked>>

\* Mutant: the pool is not asked for the note.
LooseSpend(c) ==
  /\ at[c] = "spending"
  /\ pool' = pool - 1
  /\ Waits(c, "spent")
  /\ UNCHANGED <<job, tx, a1, cctp, residual, paying, stage, known, shows, tracked>>

\* cashOut of a withdrawal, fundSession of a position.
Spend(c) ==
  /\ at[c] = "spending"
  /\ pool >= 1
  /\ pool' = pool - 1
  /\ Waits(c, "spent")
  /\ UNCHANGED <<job, tx, a1, cctp, residual, paying, stage, known, shows, tracked>>

\* The page subtracts it.  A withdrawal forgets the identity.
Spent(c) ==
  /\ at[c] = "spent"
  /\ shown' = shown - 1
  /\ known' = (known /\ job[c].kind = "fund")
  /\ End(c)
  /\ UNCHANGED <<money, pending, resting, saved, tracked>>

\* Any await may throw, and a call whose identity was forgotten does.
Throw(c) ==
  /\ at[c] # "idle"
  /\ End(c)
  /\ UNCHANGED <<money, known, shows, tracked>>

(***************************************************************************)
(* The page.                                                               *)
(***************************************************************************)
\* Mutant: the pending deposit is looked up by the call that made it only.
HastyConnect ==
  /\ stage = "idle"
  /\ known' = TRUE
  /\ shown' = pool
  /\ resting' = IF saved <= pool THEN saved ELSE 0
  /\ saved' = resting'
  /\ UNCHANGED <<at, job, money, stage, pending, tracked>>

\* connectEvmWallet: both balances, and the saved rest if the balance covers it.
Connect ==
  /\ stage = "idle"
  /\ known' = TRUE
  /\ shown' = pool
  /\ pending' = residual
  /\ resting' = IF saved <= pool THEN saved ELSE 0
  /\ saved' = resting'
  /\ UNCHANGED <<at, job, money, stage, tracked>>

\* The interval that ends a rest, and its end while no page is open.
RestEnds ==
  /\ saved + resting > 0
  /\ resting' = 0
  /\ saved' = 0
  /\ UNCHANGED <<at, job, money, stage, known, shown, pending, tracked>>

Reload ==
  /\ at' = [c \in Calls |-> "idle"]
  /\ job' = [c \in Calls |-> NoJob]
  /\ stage' = "idle"
  /\ known' = FALSE
  /\ shown' = 0 /\ pending' = 0 /\ resting' = 0
  /\ UNCHANGED <<money, saved, tracked>>

(***************************************************************************)
(* Robinhood, Relay, Circle and the paymaster.                             *)
(***************************************************************************)
Mine(t) ==
  /\ tx[t] = "sent"
  /\ tx' = [tx EXCEPT ![t] = "mined"]
  /\ UNCHANGED <<at, job, a1, cctp, residual, paying, pool, stage, known, shows, tracked>>

DropTx(t) ==
  /\ tx[t] = "sent"
  /\ tx' = [tx EXCEPT ![t] = "dropped"]
  /\ UNCHANGED <<at, job, a1, cctp, residual, paying, pool, stage, known, shows, tracked>>

RelayPays(t) ==
  /\ tx[t] = "mined"
  /\ tx' = [tx EXCEPT ![t] = "filled"]
  /\ a1' = a1 + 1
  /\ UNCHANGED <<at, job, cctp, residual, paying, pool, stage, known, shows, tracked>>

Mint ==
  /\ cctp > 0
  /\ cctp' = 0
  /\ residual' = residual + cctp
  /\ UNCHANGED <<at, job, tx, a1, paying, pool, stage, known, shows, tracked>>

Settle ==
  /\ paying
  /\ paying' = FALSE
  /\ \/ pool' = pool + residual /\ residual' = 0
     \/ UNCHANGED <<pool, residual>>
  /\ UNCHANGED <<at, job, tx, a1, cctp, stage, known, shows, tracked>>

(***************************************************************************)
(* Specification.                                                          *)
(***************************************************************************)
DepositInit ==
  /\ at = [c \in Calls |-> "idle"]
  /\ job = [c \in Calls |-> NoJob]
  /\ tx = [t \in Transfers |-> "unused"]
  /\ a1 = 0 /\ cctp = 0 /\ residual = 0 /\ paying = FALSE
  /\ pool = Balance
  /\ stage = "idle" /\ known = FALSE
  /\ shown = 0 /\ pending = 0 /\ resting = 0 /\ saved \in 0..Balance
  /\ tracked = NoTransfer

Step(c) ==
  \/ \E kind \in Kinds : Click(c, kind)
  \/ Prepare(c)
  \/ \E t \in Transfers : Send(c, t)
  \/ Broadcasted(c) \/ NotFound(c) \/ Collect(c) \/ Burn(c) \/ SubmitToPool(c) \/ Moved(c)
  \/ DepositDone(c) \/ Ambiguous(c) \/ Reread(c) \/ Finished(c)
  \/ Spend(c) \/ Spent(c) \/ Throw(c)

Outside(t) == Mine(t) \/ DropTx(t) \/ RelayPays(t)

DepositNext ==
  \/ \E c \in Calls : Step(c)
  \/ \E t \in Transfers : Outside(t)
  \/ Mint \/ Settle
  \/ TrackerGivesUp \/ Connect \/ RestEnds \/ Reload

DepositSpec == DepositInit /\ [][DepositNext]_depositVars

\* The user reconnects while a further call could run and finishes what is pending,
\* every await ends, and no step that is tried forever fails forever.
Fairness ==
  /\ SF_depositVars((\E c \in Calls : at[c] = "idle") /\ Connect)
  /\ SF_depositVars(\E c \in Calls : Click(c, "finish"))
  /\ SF_depositVars(\E c \in Calls : job[c].kind = "finish" /\ Prepare(c))
  /\ SF_depositVars(\E c \in Calls : Reread(c))
  /\ SF_depositVars(\E c \in Calls : job[c].kind = "finish" /\ SubmitToPool(c))
  /\ SF_depositVars(Settle /\ residual' = 0)
  /\ \A c \in Calls : WF_depositVars(Throw(c))

FairDeposits == DepositSpec /\ Fairness

(***************************************************************************)
(* Properties.                                                             *)
(***************************************************************************)
DepositTypeOK ==
  /\ at \in [Calls -> {"idle", "preparing", "quoting", "looking", "polling", "moving",
                       "minting", "paying", "reconciling", "rereading", "checking",
                       "spending", "spent"}]
  /\ job \in [Calls -> [kind : Kinds \cup {NoTransfer}, before : Int,
                        tx : Transfers \cup {NoTransfer}]]
  /\ tx \in [Transfers -> {"unused", "sent", "mined", "filled", "dropped"}]
  /\ a1 \in Nat /\ cctp \in Nat /\ residual \in Nat /\ pool \in Nat
  /\ paying \in BOOLEAN /\ known \in BOOLEAN
  /\ stage \in {"idle", "identity"}
  /\ shown \in Int /\ pending \in Nat /\ resting \in Nat /\ saved \in Nat
  /\ tracked \in Transfers \cup {NoTransfer}

\* A deposit that has been made up never adds to what may be used at once: what it
\* brought rests, and what rested before it rests on, whatever other calls, reloads
\* and ambiguous answers came between.  The figure it compares with is the one shown
\* when the call began, so this holds for calls beside which nothing was spent.
RestCoversDeposit ==
  [][\A c \in Calls :
       /\ at[c] \in {"reconciling", "checking", "minting", "paying"}
       /\ at'[c] = "idle"
       /\ known
       /\ shown >= job[c].before
       => Available' <= Available]_depositVars

\* The page's rest and the one it saves are never two different amounts: a rest
\* that is shown survives a reload.
RestIsSaved == resting \in {0, saved}

\* What Circle has minted does not stay on the Starknet account: the page finds it
\* when it connects, offers to finish, and never sends a transfer for that.
MintedBecomesPrivate == residual > 0 ~> residual = 0
=============================================================================
