------------------------ MODULE PolicyRelayerProofs ------------------------
(***************************************************************************)
(* What the policy relayer and the client's report guarantee, for any      *)
(* number of batches, any rivals for a nonce, and any attempts.            *)
(*                                                                         *)
(* The argument: a handler broadcasts at most once, because every step     *)
(* that broadcasts ends it; so a batch has at most one transaction, which  *)
(* is in the mempool or has a receipt, and its receipt says whether the    *)
(* account has executed it.                                                *)
(***************************************************************************)
EXTENDS PolicyRelayer, TLAPS

Over(a) == job[a] \in {"answered", "dead"}

\* A batch has at most one transaction, and only once its handler is over.
OneTransaction ==
  \A a \in Auths :
    /\ a \in mempool => receipt[a] = "none"
    /\ a \in mempool \/ receipt[a] # "none" => Over(a)

\* A receipt says what the account did.
ReceiptIsTrue == \A a \in Auths : receipt[a] = "success" <=> a \in executed

\* The client reports what a receipt said.
ReportIsReceipt ==
  \A a \in Auths : call[a] \in {"success", "reverted"} => receipt[a] = call[a]

\* What a handler has simulated stays true of the funds and the nonce.
HadAChance(a) ==
  /\ a \in Spends => funded
  /\ Signed[a].nonce <= nonce
  /\ Signed[a].fee # "malformed"

BroadcastsHadAChance ==
  \A a \in Auths :
    job[a] = "broadcasting" \/ a \in mempool \/ receipt[a] # "none" => HadAChance(a)

IInv ==
  /\ TypeOK
  /\ OneTransaction
  /\ ReceiptIsTrue
  /\ ReportIsReceipt
  /\ HashIsBroadcast
  /\ BroadcastsHadAChance

LEMMA SignedFields ==
  ASSUME NEW a \in Auths
  PROVE  Signed[a].nonce \in Nat /\ Signed[a].calls \in Nat
  BY RelayerAssumption

LEMMA InitIInv == Init => IInv
<1> SUFFICES ASSUME Init PROVE IInv
  OBVIOUS
<1> USE DEF Init, Account!Init
<1>1. TypeOK
  BY DEF TypeOK
<1>2. OneTransaction /\ ReceiptIsTrue /\ ReportIsReceipt /\ HashIsBroadcast
  BY DEF OneTransaction, ReceiptIsTrue, ReportIsReceipt, HashIsBroadcast
<1>3. BroadcastsHadAChance
  BY DEF BroadcastsHadAChance
<1> QED BY <1>1, <1>2, <1>3 DEF IInv

\* Steps of the client touch nothing but what the client knows.
LEMMA ClientKeepsIInv ==
  ASSUME IInv, NEW a \in Auths, Client(a)
  PROVE  IInv'
<1>1. UNCHANGED <<chain, funded, mempool, receipt, server>>
  BY DEF Client, Post, Hear, GiveUp, Confirm, ConfirmTimesOut
<1>2. PICK c \in {"posted", "hash", "rejected", "unknown", "success", "reverted"} :
        /\ call' = [call EXCEPT ![a] = c]
        /\ c \in {"success", "reverted"} => c = receipt[a]
  BY DEF Client, Post, Hear, GiveUp, Confirm, ConfirmTimesOut, IInv, TypeOK
<1> USE DEF IInv, chain, server
<1>3. TypeOK'
  BY <1>1, <1>2 DEF TypeOK
<1>4. ReportIsReceipt'
  BY <1>1, <1>2 DEF ReportIsReceipt, TypeOK
<1>5. /\ OneTransaction' /\ ReceiptIsTrue' /\ HashIsBroadcast'
      /\ BroadcastsHadAChance'
  BY <1>1 DEF OneTransaction, ReceiptIsTrue, HashIsBroadcast, BroadcastsHadAChance,
              HadAChance, Over
<1> QED BY <1>3, <1>4, <1>5

\* The handler's way to the broadcast: only its own stage moves.
Advance(a) ==
  \/ Receive(a) \/ Verify(a) \/ CheckNonce(a) \/ SeeFunds(a) \/ MissFunds(a)
  \/ HaveGas(a) \/ Simulate(a) \/ SimulateAgain(a)

LEMMA AdvanceKeepsIInv ==
  ASSUME IInv, NEW a \in Auths, Advance(a)
  PROVE  IInv'
<1> USE DEF IInv
<1>1. UNCHANGED <<chain, funded, mempool, receipt, answer, call>>
  BY DEF Advance, Receive, Verify, CheckNonce, SeeFunds, MissFunds, HaveGas,
         Simulate, SimulateAgain, Again
<1>2. PICK s \in {"verifying", "checking", "funds", "gas", "simulating",
                  "broadcasting"}, n \in Nat :
        /\ job' = [job EXCEPT ![a] = s]
        /\ tries' = [tries EXCEPT ![a] = n]
        /\ s = "funds" => n < BalanceAttempts
        /\ s = "simulating" => n < SimulationAttempts
        /\ s = "broadcasting" => Executable(a)
  <2>1. ASSUME NEW attempts, Again(a, attempts), job[a] \in {"funds", "simulating"}
        PROVE  /\ job' = [job EXCEPT ![a] = job[a]]
               /\ tries' = [tries EXCEPT ![a] = tries[a] + 1]
               /\ tries[a] + 1 \in Nat /\ tries[a] + 1 < attempts
    BY <2>1 DEF Again, TypeOK
  <2>2. CASE MissFunds(a)
    BY <2>2, <2>1 DEF MissFunds
  <2>4. CASE SimulateAgain(a)
    BY <2>4, <2>1 DEF SimulateAgain
  <2>3. CASE Receive(a) \/ Verify(a) \/ CheckNonce(a) \/ SeeFunds(a) \/ HaveGas(a)
             \/ Simulate(a)
    BY <2>3, RelayerAssumption
       DEF Receive, Verify, CheckNonce, SeeFunds, HaveGas, Simulate, Stage, TypeOK
  <2> QED BY <2>2, <2>3, <2>4 DEF Advance
<1>3. ~Over(a)
  BY DEF Advance, Receive, Verify, CheckNonce, SeeFunds, MissFunds, HaveGas,
         Simulate, SimulateAgain, Over
<1>4. fresh' \in [Auths -> BOOLEAN]
  BY DEF Advance, Receive, Verify, CheckNonce, SeeFunds, MissFunds, HaveGas,
         Simulate, SimulateAgain, Again, TypeOK
<1>5. TypeOK'
  BY <1>1, <1>2, <1>4 DEF TypeOK, chain
<1>6. OneTransaction'
  BY <1>1, <1>2, <1>3 DEF OneTransaction, Over, TypeOK
<1>7. ReceiptIsTrue' /\ ReportIsReceipt' /\ HashIsBroadcast'
  BY <1>1 DEF ReceiptIsTrue, ReportIsReceipt, HashIsBroadcast, chain
<1>8. BroadcastsHadAChance'
  BY <1>1, <1>2, SignedFields
     DEF BroadcastsHadAChance, HadAChance, Executable, TypeOK, chain
<1> QED BY <1>5, <1>6, <1>7, <1>8

\* The handler's end, with or without a transaction.
Finish(a) == Broadcast(a) \/ BroadcastLost(a) \/ Throw(a) \/ Killed(a)

LEMMA FinishKeepsIInv ==
  ASSUME IInv, NEW a \in Auths, Finish(a)
  PROVE  IInv'
<1> USE DEF IInv
<1>1. UNCHANGED <<chain, funded, receipt, call, fresh, tries>>
  BY DEF Finish, Broadcast, BroadcastLost, Throw, Killed, Answer
<1>2. PICK s \in {"answered", "dead"} : job' = [job EXCEPT ![a] = s]
  BY DEF Finish, Broadcast, BroadcastLost, Throw, Killed, Answer
<1>3. PICK r \in {"none", "hash", "rejected"} : answer' = [answer EXCEPT ![a] = r]
  <2>1. CASE Killed(a)
    BY <2>1 DEF Killed, TypeOK
  <2>2. CASE Broadcast(a) \/ BroadcastLost(a) \/ Throw(a)
    BY <2>2 DEF Broadcast, BroadcastLost, Throw, Answer
  <2> QED BY <2>1, <2>2 DEF Finish
<1>4. \/ mempool' = mempool
      \/ mempool' = mempool \cup {a} /\ job[a] = "broadcasting"
  BY DEF Finish, Broadcast, BroadcastLost, Throw, Killed
<1>5. ~Over(a)
  BY DEF Finish, Broadcast, BroadcastLost, Throw, Killed, InProgress, Over
<1>6. TypeOK'
  BY <1>1, <1>2, <1>3, <1>4 DEF TypeOK, chain
<1>7. OneTransaction'
  BY <1>1, <1>2, <1>4, <1>5 DEF OneTransaction, Over, TypeOK
<1>8. ReceiptIsTrue' /\ ReportIsReceipt'
  BY <1>1 DEF ReceiptIsTrue, ReportIsReceipt, chain
<1>9. HashIsBroadcast'
  <2>1. mempool \subseteq mempool'
    BY <1>4
  <2>2. answer'[a] = "hash" => a \in mempool' \/ receipt[a] # "none"
    BY <2>1 DEF Finish, Broadcast, BroadcastLost, Throw, Killed, Answer, TypeOK,
                HashIsBroadcast
  <2> QED BY <2>1, <2>2, <1>1, <1>3 DEF HashIsBroadcast, TypeOK
<1>10. BroadcastsHadAChance'
  BY <1>1, <1>2, <1>4 DEF BroadcastsHadAChance, HadAChance, TypeOK, chain
<1> QED BY <1>6, <1>7, <1>8, <1>9, <1>10

LEMMA InclusionKeepsIInv ==
  ASSUME IInv, NEW a \in Auths, Include(a) \/ IncludeReverted(a)
  PROVE  IInv'
<1> USE DEF IInv
<1>1. /\ UNCHANGED <<funded, server, call>>
      /\ a \in mempool
      /\ mempool' = mempool \ {a}
  BY DEF Include, IncludeReverted
<1>2. PICK s \in {"success", "reverted"} :
        /\ receipt' = [receipt EXCEPT ![a] = s]
        /\ executed' = IF s = "success" THEN executed \cup {a} ELSE executed
  BY DEF Include, IncludeReverted, Account!Execute, chain
<1>3. nonce' \in Nat /\ nonce' >= nonce
  BY DEF Include, IncludeReverted, Account!Execute, chain, TypeOK
<1>4. receipt[a] = "none" /\ Over(a)
  BY <1>1 DEF OneTransaction
<1>5. TypeOK'
  <2>1. /\ now' \in Nat /\ code' \in BOOLEAN /\ paid' \subseteq Auths
        /\ performed' \in [Auths -> Nat]
    BY SignedFields DEF Include, IncludeReverted, Account!Execute, chain, TypeOK
  <2> QED BY <2>1, <1>1, <1>2, <1>3 DEF TypeOK, server
<1>6. OneTransaction'
  BY <1>1, <1>2, <1>4 DEF OneTransaction, Over, TypeOK, server
<1>7. ReceiptIsTrue'
  BY <1>2, <1>4 DEF ReceiptIsTrue, TypeOK
<1>8. ReportIsReceipt'
  BY <1>1, <1>2, <1>4 DEF ReportIsReceipt, TypeOK
<1>9. HashIsBroadcast'
  BY <1>1, <1>2 DEF HashIsBroadcast, TypeOK, server
<1>10. BroadcastsHadAChance'
  BY <1>1, <1>2, <1>3, SignedFields
     DEF BroadcastsHadAChance, HadAChance, TypeOK, server
<1> QED BY <1>5, <1>6, <1>7, <1>8, <1>9, <1>10

\* The funding, the clock and a deployment by somebody else.
LEMMA WorldKeepsIInv ==
  ASSUME IInv, Fund \/ Tick \/ Deploy
  PROVE  IInv'
<1> USE DEF IInv
<1>1. /\ UNCHANGED <<mempool, receipt, server, call>>
      /\ UNCHANGED <<nonce, executed, performed, paid>>
      /\ funded => funded'
  BY DEF Fund, Tick, Deploy, Account!Tick, Account!Deploy, chain
<1>2. now' \in Nat /\ code' \in BOOLEAN /\ funded' \in BOOLEAN
  <2>1. CASE Fund
    BY <2>1 DEF Fund, chain, TypeOK
  <2>2. CASE Tick
    BY <2>2 DEF Tick, Account!Tick, TypeOK
  <2>3. CASE Deploy
    BY <2>3 DEF Deploy, Account!Deploy, TypeOK
  <2> QED BY <2>1, <2>2, <2>3
<1>3. TypeOK'
  BY <1>1, <1>2 DEF TypeOK, server
<1>4. OneTransaction' /\ ReceiptIsTrue' /\ ReportIsReceipt' /\ HashIsBroadcast'
  BY <1>1 DEF OneTransaction, ReceiptIsTrue, ReportIsReceipt, HashIsBroadcast, Over,
              server
<1>5. BroadcastsHadAChance'
  BY <1>1 DEF BroadcastsHadAChance, HadAChance, server
<1> QED BY <1>3, <1>4, <1>5

LEMMA StepIInv == IInv /\ [Next]_vars => IInv'
<1> SUFFICES ASSUME IInv, [Next]_vars PROVE IInv'
  OBVIOUS
<1>1. CASE Fund \/ Tick \/ Deploy
  BY <1>1, WorldKeepsIInv
<1>2. ASSUME NEW a \in Auths,
             Client(a) \/ Receive(a) \/ Serve(a) \/ Killed(a) \/ Include(a)
             \/ IncludeReverted(a)
      PROVE  IInv'
  BY <1>2, ClientKeepsIInv, AdvanceKeepsIInv, FinishKeepsIInv, InclusionKeepsIInv
     DEF Serve, Advance, Finish
<1>3. CASE UNCHANGED vars
  BY <1>3 DEF vars, chain, server, IInv, TypeOK, OneTransaction, ReceiptIsTrue,
              ReportIsReceipt, HashIsBroadcast, BroadcastsHadAChance, HadAChance, Over
<1> QED BY <1>1, <1>2, <1>3 DEF Next

\* The inductive invariant.
THEOREM Invariance == Spec => []IInv
  BY InitIInv, StepIInv, PTL DEF Spec

\* Types, and the attempts of a handler's loops stay below their bounds.
THEOREM TypeCorrect == Spec => []TypeOK
<1>1. IInv => TypeOK
  BY DEF IInv
<1> QED BY <1>1, Invariance, PTL

\* waitForExecution never has to be taken back: reverted batches have not been
\* executed and never will be, successful ones have been.
THEOREM FinalReport == Spec => []ReportIsFinal
<1>1. IInv => ReportIsFinal
  BY DEF IInv, ReportIsFinal, ReportIsReceipt, ReceiptIsTrue, OneTransaction
<1> QED BY <1>1, Invariance, PTL

\* A hash the relayer answers belongs to a transaction that the node has.
THEOREM TrueHash == Spec => []HashIsBroadcast
<1>1. IInv => HashIsBroadcast
  BY DEF IInv
<1> QED BY <1>1, Invariance, PTL

\* No gas is paid for a batch that never had its funds or its nonce.
THEOREM NoFutileGas == Spec => []NothingFutileIsBroadcast
<1>1. IInv => NothingFutileIsBroadcast
  BY DEF IInv, NothingFutileIsBroadcast, BroadcastsHadAChance, HadAChance
<1> QED BY <1>1, Invariance, PTL
=============================================================================
