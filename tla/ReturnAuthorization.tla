------------------------ MODULE ReturnAuthorization ------------------------
(***************************************************************************)
(* What authorizes USDG to leave a position account by a plain transfer.   *)
(*                                                                         *)
(* A private return carries an attestation: the proxy seals the quote      *)
(* Relay gave (proxy.ts, relay-quote-attestation.ts), the browser checks   *)
(* the same quote once more (relay-bridge.ts), and the relayer compares    *)
(* the transfer with the sealed claims (relay-requests.ts,                 *)
(* pons-v2-policy.ts).  A direct recovery carries the root wallet's        *)
(* signature over a canonical message (wallet-recovery.ts, schema.ts).     *)
(*                                                                         *)
(* An attestation is its claims; that nobody else can make one, and that   *)
(* nobody else can sign for the wallet, is what cryptography is assumed    *)
(* to give: "issued" and "signed" are the ones that exist.                 *)
(***************************************************************************)
EXTENDS PonsTrades, FiniteSets, SequencesExt

CONSTANTS
  None,           \* stands for what is absent
  Owner,          \* the owner of the account, Relay's refund address
  Staging,        \* the isolated account on Arbitrum a return is sent to
  Wallet,         \* the connected root wallet
  QuoteTtl,       \* RELAY_QUOTE_ATTESTATION_TTL_MS
  MaxSkew,        \* MAX_CLOCK_SKEW_MS
  MaxWindow,      \* the 15 minutes an authorization may last at most
  MaxDeadline,    \* maxDeadlineSeconds of the static policy
  MaxSources      \* the 20 accounts one authorization may list

ASSUME AuthorizationAssumption ==
  /\ {QuoteTtl, MaxSkew, MaxWindow, MaxDeadline, MaxSources} \subseteq Nat
  /\ Staging \notin {Account, Owner}

Transfer(token, to, amount) ==
  [target |-> token, value |-> 0, fn |-> "transfer", to |-> to, amount |-> amount]

(***************************************************************************)
(* A quote of Relay's.  A reply is                                         *)
(*   [id, route, in, out, minimum, items, chain, from, token, value, call, *)
(*    to, amount]                                                          *)
(* where route says whether both currencies are the requested ones, items  *)
(* how many deposit transactions there are and where, and call whether the *)
(* calldata is an exact ERC-20 transfer of amount to to.                   *)
(***************************************************************************)
GoodReply(id, deposit, amount) ==
  [id |-> id, route |-> "strict", in |-> amount, out |-> amount, minimum |-> amount,
   items |-> "one", chain |-> "origin", from |-> Account, token |-> Usdg, value |-> 0,
   call |-> "transfer", to |-> deposit, amount |-> amount]

\* attestRelayReturnQuote: what the proxy asks of a quote before it seals it.
ProxySeals(amount, reply) ==
  /\ reply.route = "strict"
  /\ reply.in = amount
  /\ reply.out > 0
  /\ reply.items = "one"
  /\ reply.chain = "origin"
  /\ reply.from = Account
  /\ reply.token = Usdg
  /\ reply.value = 0
  /\ reply.call = "transfer"
  /\ reply.amount = amount

\* createRelayQuoteAttestation.
Claims(reply, amount, time) ==
  [id |-> reply.id, account |-> Account, owner |-> Owner, recipient |-> Staging,
   deposit |-> reply.to, amount |-> amount, issuedAt |-> time, expiresAt |-> time + QuoteTtl]

\* validateRelayQuote, the transport's check of the native value, and
\* requiredQuoteAttestation.
ClientAccepts(amount, reply, attestation) ==
  /\ amount > 0
  /\ reply.route = "strict"
  /\ reply.in = amount
  /\ reply.out > 0 /\ reply.minimum > 0 /\ reply.minimum <= reply.out
  /\ reply.items \in {"one", "several"}
  /\ reply.chain = "origin"
  /\ reply.token = Usdg
  /\ reply.from = Account
  /\ reply.call = "transfer"
  /\ reply.amount = reply.in
  /\ reply.value = 0
  /\ attestation # None

(***************************************************************************)
(* verifyRelayQuoteAttestation and createRelayReturnVerifier.              *)
(***************************************************************************)
\* Mutant: the skew between the two servers is not allowed for.
ExactVerified(claims, clock) == claims.issuedAt <= clock /\ clock <= claims.expiresAt

Verified(claims, clock) ==
  /\ claims.issuedAt <= clock + MaxSkew
  /\ clock <= claims.expiresAt

ReturnVerified(issued, request, to, amount, clock) ==
  LET claims == request.attestation
  IN  /\ claims \in issued
      /\ Verified(claims, clock)
      /\ claims.id = request.id
      /\ claims.account = Account
      /\ claims.owner = Owner
      /\ claims.deposit = to
      /\ claims.amount = amount
      /\ claims.recipient \notin {Account, Owner}

(***************************************************************************)
(* The direct recovery.  An authorization is [recipient, accounts,         *)
(* deadline], its accounts a sequence of [account, amount].                *)
(***************************************************************************)
\* walletRecoveryMessage: sorted by account, so that the order does not matter.
Message(authorization) ==
  [recipient |-> authorization.recipient, accounts |-> ToSet(authorization.accounts),
   deadline |-> authorization.deadline]

\* The checks of walletRecoveryMessage, which parseRelayRequest makes as well.
WellFormed(authorization) ==
  /\ Len(authorization.accounts) \in 1..MaxSources
  /\ \A i \in 1..Len(authorization.accounts) : authorization.accounts[i].amount > 0
  /\ \A i, j \in 1..Len(authorization.accounts) :
       authorization.accounts[i].account = authorization.accounts[j].account => i = j
  /\ authorization.deadline > 0

\* Mutant: the batch may outlive its authorization.
OutlivingRecoveryVerified(signed, request, to, amount, clock) ==
  LET authorization == request.authorization
  IN  /\ WellFormed(authorization)
      /\ authorization.recipient = to
      /\ clock <= authorization.deadline
      /\ authorization.deadline <= clock + MaxWindow
      /\ \E i \in 1..Len(authorization.accounts) :
           authorization.accounts[i] = [account |-> Account, amount |-> amount]
      /\ Message(authorization) \in signed

\* validateDirectWalletRecovery.
RecoveryVerified(signed, request, to, amount, clock) ==
  /\ OutlivingRecoveryVerified(signed, request, to, amount, clock)
  /\ request.deadline <= request.authorization.deadline

\* validatePrivateReturnTransfer.
TransferAllowed(issued, signed, request, call, clock) ==
  /\ call.value = 0 /\ request.prefund = 0
  /\ call.fn = "transfer"
  /\ call.amount > 0
  /\ call.to # Account
  /\ IF request.id = None
     THEN /\ request.authorization # None
          /\ request.attestation = None
          /\ RecoveryVerified(signed, request, call.to, call.amount, clock)
     ELSE /\ request.authorization = None
          /\ request.attestation # None
          /\ ReturnVerified(issued, request, call.to, call.amount, clock)

(***************************************************************************)
(* createPonsV2SemanticValidator, after the deadlines of                   *)
(* validateStaticPolicy.  clock is the time of the relayer.                *)
(***************************************************************************)
Allowed(market, issued, signed, request, clock) ==
  LET calls == request.calls
  IN  /\ request.deadline >= clock
      /\ request.deadline <= clock + MaxDeadline
      /\ \/ /\ Len(calls) = 1
            /\ calls[1].target = Factory
            /\ calls[1].fn = "launchToken"
            /\ LaunchAllowed(market, calls[1], request.prefund)
         \/ /\ Len(calls) = 1
            /\ calls[1].target = Usdg
            /\ TransferAllowed(issued, signed, request, calls[1], clock)
         \/ /\ Len(calls) = 2
            /\ calls[2].target \in Curves
            /\ TradeAllowed(market, calls[1], calls[2], request.prefund)
=============================================================================
