--------------------------- MODULE PolicyRelayer ---------------------------
(***************************************************************************)
(* A signed batch on its way to the chain: the client signs and posts it   *)
(* (client.ts, relay-http.ts), a handler of the policy relayer checks,     *)
(* simulates and broadcasts it (server.ts, relayer.ts), and the account of *)
(* AccountAuthority executes it or reverts.                                *)
(*                                                                         *)
(* One execution account, any number of batches in flight: every POST is   *)
(* served by a handler of its own and the relayer takes no lock, so the    *)
(* handlers interleave at every await.  A handler that throws answers 400  *)
(* with broadcasted: false, whatever it had done before.                   *)
(***************************************************************************)
EXTENDS Integers, FiniteSets

CONSTANTS
  Auths,              \* the batches the owner may sign
  Signed,             \* what each signature binds: [nonce, deadline, calls, fee]
  MaxTime,            \* bound on block.timestamp
  Spends,             \* batches whose first call spends the bridged funding
  BalanceAttempts,    \* EXECUTION_STATE_ATTEMPTS
  SimulationAttempts  \* SIMULATION_ATTEMPTS

VARIABLES
  now, code, nonce, executed, performed, paid, \* the chain: AccountAuthority
  funded,  \* the bridged funding has reached the account
  mempool, \* broadcast batches that are not included yet
  receipt, \* receipt of a batch's transaction
  job,     \* stage of the handler that serves a batch
  fresh,   \* what the handler read: the account has no code yet
  tries,   \* attempts of the handler's present loop
  answer,  \* what the handler answered
  call     \* what the client knows of a batch

chain  == <<now, code, nonce, executed, performed, paid>>
server == <<job, fresh, tries, answer>>
vars   == <<chain, funded, mempool, receipt, server, call>>

Account == INSTANCE AccountAuthority

ASSUME RelayerAssumption ==
  /\ Signed \in [Auths -> [nonce: Nat, deadline: Nat, calls: Nat,
                           fee: Account!FeeShape]]
  /\ MaxTime \in Nat
  /\ Spends \subseteq Auths
  /\ {BalanceAttempts, SimulationAttempts} \subseteq Nat \ {0}

Init ==
  /\ Account!Init
  /\ funded = FALSE
  /\ mempool = {}
  /\ receipt = [a \in Auths |-> "none"]
  /\ job = [a \in Auths |-> "none"]
  /\ fresh = [a \in Auths |-> FALSE]
  /\ tries = [a \in Auths |-> 0]
  /\ answer = [a \in Auths |-> "none"]
  /\ call = [a \in Auths |-> "unused"]

(***************************************************************************)
(* The client.                                                             *)
(***************************************************************************)
\* prepareRelayRequest signs for the nonce and the time it sees, and the relay
\* function posts the batch, once.
Post(a) ==
  /\ call[a] = "unused"
  /\ Signed[a].nonce = nonce
  /\ now <= Signed[a].deadline
  /\ call' = [call EXCEPT ![a] = "posted"]
  /\ UNCHANGED <<chain, funded, mempool, receipt, server>>

\* 202 with a hash, or RelayerRejectedError.
Hear(a) ==
  /\ call[a] = "posted"
  /\ answer[a] # "none"
  /\ call' = [call EXCEPT ![a] = answer[a]]
  /\ UNCHANGED <<chain, funded, mempool, receipt, server>>

\* The 30 s of the POST are over, the connection is lost, or a gateway answers
\* with something that is not JSON.
GiveUp(a) ==
  /\ call[a] = "posted"
  /\ call' = [call EXCEPT ![a] = "unknown"]
  /\ UNCHANGED <<chain, funded, mempool, receipt, server>>

\* waitForExecution: the receipt of the hash.
Confirm(a) ==
  /\ call[a] = "hash"
  /\ receipt[a] # "none"
  /\ call' = [call EXCEPT ![a] = receipt[a]]
  /\ UNCHANGED <<chain, funded, mempool, receipt, server>>

\* waitForExecution: 120 s without a receipt.
ConfirmTimesOut(a) ==
  /\ call[a] = "hash"
  /\ call' = [call EXCEPT ![a] = "unknown"]
  /\ UNCHANGED <<chain, funded, mempool, receipt, server>>

(***************************************************************************)
(* The handler of POST /v1/relay and PrivateLaunchpadRelayer.relay.        *)
(***************************************************************************)
InProgress(a) == job[a] \notin {"none", "answered", "dead"}

Stage(a, s) ==
  /\ job' = [job EXCEPT ![a] = s]
  /\ tries' = [tries EXCEPT ![a] = 0]

Answer(a, result) ==
  /\ job' = [job EXCEPT ![a] = "answered"]
  /\ answer' = [answer EXCEPT ![a] = result]
  /\ UNCHANGED <<fresh, tries>>

Receive(a) ==
  /\ call[a] \in {"posted", "unknown"}
  /\ job[a] = "none"
  /\ Stage(a, "verifying")
  /\ UNCHANGED <<chain, funded, mempool, receipt, fresh, answer, call>>

\* validateStaticPolicy, the factory derivation, the owner's signature and the
\* semantic validator let the batch through.
Verify(a) ==
  /\ job[a] = "verifying"
  /\ now <= Signed[a].deadline
  /\ Stage(a, "checking")
  /\ UNCHANGED <<chain, funded, mempool, receipt, fresh, answer, call>>

\* The account's bytecode and nonce; a nonce that differs is refused.
CheckNonce(a) ==
  /\ job[a] = "checking"
  /\ Signed[a].nonce = nonce
  /\ fresh' = [fresh EXCEPT ![a] = ~code]
  /\ Stage(a, IF ~code /\ a \in Spends THEN "funds" ELSE "gas")
  /\ UNCHANGED <<chain, funded, mempool, receipt, answer, call>>

SeeFunds(a) ==
  /\ job[a] = "funds"
  /\ funded
  /\ Stage(a, "gas")
  /\ UNCHANGED <<chain, funded, mempool, receipt, fresh, answer, call>>

Again(a, attempts) ==
  /\ tries[a] + 1 < attempts
  /\ tries' = [tries EXCEPT ![a] = @ + 1]
  /\ UNCHANGED <<chain, funded, mempool, receipt, job, fresh, answer, call>>

\* Mutant: the attempts are not counted.
PatientMissFunds(a) ==
  /\ job[a] = "funds"
  /\ UNCHANGED vars

\* The balance is not there, or the RPC does not show it.
MissFunds(a) ==
  /\ job[a] = "funds"
  /\ Again(a, BalanceAttempts)

HaveGas(a) ==
  /\ job[a] = "gas"
  /\ Stage(a, "simulating")
  /\ UNCHANGED <<chain, funded, mempool, receipt, fresh, answer, call>>

\* deployAndExecute would go through now.
Executable(a) ==
  /\ Signed[a].nonce = nonce
  /\ now <= Signed[a].deadline
  /\ Signed[a].fee # "malformed"
  /\ a \in Spends => funded

\* Mutant: a simulation that reverts does not stop the broadcast.
LenientSimulate(a) ==
  /\ job[a] = "simulating"
  /\ Stage(a, "broadcasting")
  /\ UNCHANGED <<chain, funded, mempool, receipt, fresh, answer, call>>

Simulate(a) ==
  /\ job[a] = "simulating"
  /\ Executable(a)
  /\ Stage(a, "broadcasting")
  /\ UNCHANGED <<chain, funded, mempool, receipt, fresh, answer, call>>

\* A simulation that fails is repeated on a fresh account only.
SimulateAgain(a) ==
  /\ job[a] = "simulating"
  /\ fresh[a] /\ a \in Spends
  /\ Again(a, SimulationAttempts)

\* Mutant: the hash is answered before the node has accepted the transaction.
EarlyBroadcast(a) ==
  /\ job[a] = "broadcasting"
  /\ \/ mempool' = mempool \cup {a}
     \/ mempool' = mempool
  /\ Answer(a, "hash")
  /\ UNCHANGED <<chain, funded, receipt, call>>

\* writeContract: the node takes the transaction and returns its hash.
Broadcast(a) ==
  /\ job[a] = "broadcasting"
  /\ mempool' = mempool \cup {a}
  /\ Answer(a, "hash")
  /\ UNCHANGED <<chain, funded, receipt, call>>

\* Mutant: writeContract is tried again when it throws.
InsistentBroadcastLost(a) ==
  /\ job[a] = "broadcasting"
  /\ mempool' = mempool \cup {a}
  /\ UNCHANGED <<chain, funded, receipt, server, call>>

\* writeContract: the node takes the transaction and its reply is lost.
BroadcastLost(a) ==
  /\ job[a] = "broadcasting"
  /\ mempool' = mempool \cup {a}
  /\ Answer(a, "rejected")
  /\ UNCHANGED <<chain, funded, receipt, call>>

\* A check fails or an RPC call throws.  While it waits for the funds the
\* handler swallows what the RPC throws, and only its last attempt throws.
Throw(a) ==
  /\ InProgress(a)
  /\ job[a] = "funds" => tries[a] + 1 = BalanceAttempts
  /\ Answer(a, "rejected")
  /\ UNCHANGED <<chain, funded, mempool, receipt, call>>

\* The serverless function is killed, before the broadcast or after it.
Killed(a) ==
  /\ InProgress(a)
  /\ job' = [job EXCEPT ![a] = "dead"]
  /\ mempool' \in IF job[a] = "broadcasting" THEN {mempool, mempool \cup {a}}
                                             ELSE {mempool}
  /\ UNCHANGED <<chain, funded, receipt, fresh, tries, answer, call>>

(***************************************************************************)
(* The chain and the cross-chain funding.                                  *)
(***************************************************************************)
Fund ==
  /\ ~funded
  /\ funded' = TRUE
  /\ UNCHANGED <<chain, mempool, receipt, server, call>>

Tick == Account!Tick /\ UNCHANGED <<funded, mempool, receipt, server, call>>

\* Anybody may have the factory deploy the account.
Deploy == Account!Deploy /\ UNCHANGED <<funded, mempool, receipt, server, call>>

Include(a) ==
  /\ a \in mempool
  /\ a \in Spends => funded
  /\ Account!Execute(a)
  /\ mempool' = mempool \ {a}
  /\ receipt' = [receipt EXCEPT ![a] = "success"]
  /\ UNCHANGED <<funded, server, call>>

\* The nonce is spent, the deadline is over, or a target reverts.
IncludeReverted(a) ==
  /\ a \in mempool
  /\ mempool' = mempool \ {a}
  /\ receipt' = [receipt EXCEPT ![a] = "reverted"]
  /\ UNCHANGED <<chain, funded, server, call>>

Client(a) == Post(a) \/ Hear(a) \/ GiveUp(a) \/ Confirm(a) \/ ConfirmTimesOut(a)

Serve(a) ==
  \/ Verify(a) \/ CheckNonce(a) \/ SeeFunds(a) \/ MissFunds(a) \/ HaveGas(a)
  \/ Simulate(a) \/ SimulateAgain(a) \/ Broadcast(a) \/ BroadcastLost(a)
  \/ Throw(a)

Next ==
  \/ Fund \/ Tick \/ Deploy
  \/ \E a \in Auths : \/ Client(a) \/ Receive(a) \/ Serve(a) \/ Killed(a)
                      \/ Include(a) \/ IncludeReverted(a)

Spec == Init /\ [][Next]_vars

\* Awaits settle: the handler moves on, and the client's timers run out.  The
\* network, the chain and the user are not fair.
FairSpec ==
  /\ Spec
  /\ \A a \in Auths : WF_vars(Serve(a)) /\ WF_vars(Hear(a) \/ GiveUp(a))

(***************************************************************************)
(* Properties.                                                             *)
(***************************************************************************)
TypeOK ==
  /\ now \in Nat /\ nonce \in Nat /\ code \in BOOLEAN /\ funded \in BOOLEAN
  /\ executed \subseteq Auths /\ paid \subseteq Auths /\ mempool \subseteq Auths
  /\ performed \in [Auths -> Nat]
  /\ receipt \in [Auths -> {"none", "success", "reverted"}]
  /\ job \in [Auths -> {"none", "verifying", "checking", "funds", "gas",
                        "simulating", "broadcasting", "answered", "dead"}]
  /\ fresh \in [Auths -> BOOLEAN]
  /\ tries \in [Auths -> Nat]
  /\ \A a \in Auths :
       /\ job[a] = "funds" => tries[a] < BalanceAttempts
       /\ job[a] = "simulating" => tries[a] < SimulationAttempts
  /\ answer \in [Auths -> {"none", "hash", "rejected"}]
  /\ call \in [Auths -> {"unused", "posted", "hash", "rejected", "unknown",
                         "success", "reverted"}]

\* What waitForExecution reports is final: a batch reported as reverted has not
\* taken effect and never will, one reported as successful has.
ReportIsFinal ==
  \A a \in Auths :
    /\ call[a] = "success" => a \in executed
    /\ call[a] = "reverted" => a \notin executed \cup mempool

\* A hash is only ever answered for a transaction that the node has.
HashIsBroadcast ==
  \A a \in Auths : answer[a] = "hash" => a \in mempool \/ receipt[a] # "none"

\* The relayer pays no gas for a batch that could not have gone through: what
\* is broadcast had its funds, and its nonce was the account's, in the past.
NothingFutileIsBroadcast ==
  \A a \in Auths : a \in mempool \/ receipt[a] # "none" =>
    /\ a \in Spends => funded
    /\ Signed[a].nonce <= nonce
    /\ Signed[a].fee # "malformed"

\* Every request the relayer has received is finished with: no loop of the
\* handler goes on for ever while the funding does not arrive.
HandlersEnd == \A a \in Auths : InProgress(a) ~> ~InProgress(a)

\* Every posted batch is answered or given up, whatever became of the handler.
PostsSettle == \A a \in Auths : call[a] = "posted" ~> call[a] # "posted"

\* RelayerRejectedError: broadcasted is false.
RejectedNeverExecutes ==
  \A a \in Auths : call[a] = "rejected" => a \notin executed
=============================================================================
