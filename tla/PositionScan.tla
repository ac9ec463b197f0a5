---------------------------- MODULE PositionScan ----------------------------
(***************************************************************************)
(* The rebuilding of positions from the chain (pons-recovery.ts): the      *)
(* accounts the factory has created, the ones among them that the          *)
(* signature derives, what each has received and launched, and of that     *)
(* what it still holds.  The chain grows while the scan reads it.          *)
(*                                                                         *)
(* Every read waits for a provider that answers, asks to slow down, finds  *)
(* a range of blocks too wide, or fails.  What happens between two reads   *)
(* is one step.                                                            *)
(*                                                                         *)
(* A block holds at most one transaction of interest, a record of          *)
(*   account, token, created (the account is created in it), launched      *)
(*   (the account launches the token in it), logs (transfers of the token  *)
(*   to the account), paid (USDG the account pays in it) and sold (the     *)
(*   account gives away all it has of the token).                          *)
(***************************************************************************)
EXTENDS Naturals, Sequences, FiniteSets, FiniteSetsExt

CONSTANTS
  AllAccounts, Own,    \* execution accounts, and those the signature derives
  Tokens, PonsTokens,  \* tokens, and those Pons has launched against USDG
  MinRange, MaxRange,  \* MIN_LOG_BLOCK_RANGE, MAX_LOG_BLOCK_RANGE
  Attempts,            \* RPC_RATE_LIMIT_ATTEMPTS
  MaxBlocks,           \* bound on the chain
  NoAccount

ASSUME ScanAssumption ==
  /\ Own \subseteq AllAccounts /\ PonsTokens \subseteq Tokens
  /\ MinRange \in Nat \ {0} /\ MaxRange \in Nat /\ MinRange <= MaxRange
  /\ Attempts \in Nat \ {0}
  /\ MaxBlocks \in Nat \ {0}
  /\ NoAccount \notin AllAccounts

VARIABLES
  chain,      \* the blocks
  aborted,    \* the caller has aborted the scan
  pc,         \* the read that is under way
  asleep,     \* the scan waits before it repeats the read
  attempt,    \* repetitions of the read
  latest,     \* the head the scan has read
  start,      \* fromBlock of the logs being read
  cursor,     \* the first block not yet scanned for the logs being read
  range,      \* how many blocks the next query covers
  fetched,    \* how often each block is among the logs read
  candidates, \* accounts that are still to be looked at
  account,    \* the account being looked at
  received,   \* the blocks with transfers to it
  tokens,     \* tokens of it that are still to be looked at
  token,      \* the token being looked at
  held,       \* its balance was not zero
  found,      \* the positions found
  skipped     \* the tokens passed over because their record was not read

query == <<start, cursor, range, fetched>>
reading == <<asleep, attempt, query>>
progress == <<latest, candidates, account, received, tokens, token, held,
              found, skipped>>
scanVars == <<chain, aborted, pc, reading, progress>>

LogReads == {"accounts", "transfers", "launches"}
Reads == {"latest", "balance", "record", "receipts"} \cup LogReads
Ends == {"done", "failed"}

Blocks == 1..MaxBlocks
Nothing == [b \in Blocks |-> 0]

ScanInit ==
  /\ chain = << >>
  /\ aborted = FALSE
  /\ pc = "idle"
  /\ asleep = FALSE /\ attempt = 0
  /\ latest = 0 /\ start = 1 /\ cursor = 1 /\ range = MaxRange /\ fetched = Nothing
  /\ candidates = {} /\ account = NoAccount
  /\ received = {} /\ tokens = {} /\ token = NoAccount /\ held = FALSE
  /\ found = {} /\ skipped = {}

(***************************************************************************)
(* The chain.                                                              *)
(***************************************************************************)
CreatedAt(a) == {i \in DOMAIN chain : chain[i].account = a /\ chain[i].created}

\* The account has had the token in block n, and has not given it away up to m.
Kept(a, t, n, m) ==
  \E i \in 1..n :
    /\ chain[i].account = a /\ chain[i].token = t /\ chain[i].logs > 0
    /\ \A j \in i + 1..m :
         ~(chain[j].account = a /\ chain[j].token = t /\ chain[j].sold)

Holds(a, t) == Kept(a, t, Len(chain), Len(chain))

\* The blocks go on as long as the scan does.
Mine(block) ==
  /\ pc \notin Ends
  /\ Len(chain) < MaxBlocks
  /\ chain' = Append(chain, block)
  /\ UNCHANGED <<aborted, pc, reading, progress>>

Block(a, t, launched, logs, paid, sold) ==
  [account |-> a, token |-> t, created |-> CreatedAt(a) = {},
   launched |-> launched, logs |-> logs, paid |-> paid, sold |-> sold]

\* A buy; the curve may transfer the token in one log or in two.
Buy(a, t, logs) == t \in PonsTokens /\ Mine(Block(a, t, FALSE, logs, 1, FALSE))

\* Somebody sends the account a token it has not bought.
Receive(a, t) == CreatedAt(a) # {} /\ Mine(Block(a, t, FALSE, 1, 0, FALSE))

Launch(a, t) ==
  /\ t \in PonsTokens
  /\ \A i \in DOMAIN chain : chain[i].token # t
  /\ \E logs \in 0..1 : Mine(Block(a, t, TRUE, logs, logs, FALSE))

Sell(a, t) == Holds(a, t) /\ Mine(Block(a, t, FALSE, 0, 0, TRUE))

Abort ==
  /\ pc \in Reads /\ ~aborted
  /\ aborted' = TRUE
  /\ UNCHANGED <<chain, pc, reading, progress>>

(***************************************************************************)
(* Steps from one read to the next.  throwIfRecoveryCancelled precedes     *)
(* every read but those of the token's metadata.                           *)
(***************************************************************************)
Awake == asleep' = FALSE /\ attempt' = 0

AskNext(p) == pc' = IF aborted THEN "failed" ELSE p

\* getLogsInBlockRanges begins; an empty range needs no query.
FreshLogs(from) ==
  /\ start' = from /\ cursor' = from /\ range' = MaxRange
  /\ fetched' = Nothing

\* It has returned.
NoLogs == FreshLogs(1)

ScanThrow ==
  /\ pc' = "failed"
  /\ Awake /\ NoLogs
  /\ UNCHANGED progress

FirstBlock(a) == Min(CreatedAt(a))

\* Accounts in the order of the factory's events.
NextAccount(rest) ==
  /\ token' = NoAccount
  /\ IF rest = {}
     THEN /\ pc' = "done"
          /\ NoLogs
          /\ candidates' = {} /\ UNCHANGED account
     ELSE LET a == CHOOSE x \in rest : \A y \in rest : FirstBlock(x) <= FirstBlock(y)
          IN  /\ AskNext("transfers")
              /\ FreshLogs(FirstBlock(a))
              /\ account' = a /\ candidates' = rest \ {a}

NextToken(rest) ==
  /\ tokens' = rest
  /\ IF rest = {} THEN NextAccount(candidates)
     ELSE /\ AskNext("balance")
          /\ \E t \in rest : token' = t
          /\ NoLogs /\ UNCHANGED <<account, candidates>>

(***************************************************************************)
(* Log queries.                                                            *)
(***************************************************************************)
ChunkEnd == IF cursor + range - 1 < latest THEN cursor + range - 1 ELSE latest

\* Mutant: the block a chunk ends with is asked for once more.
OverlappingCursor == ChunkEnd

NextCursor == ChunkEnd + 1

Fetched ==
  [b \in Blocks |-> IF b \in cursor..ChunkEnd THEN fetched[b] + 1 ELSE fetched[b]]

Widened == IF range * 2 > MaxRange THEN MaxRange ELSE range * 2

Logs == {b \in 1..latest : Fetched[b] > 0}

\* Mutant: every account of the factory is taken for one of the user's.
AnyCandidates == {a \in AllAccounts : CreatedAt(a) \cap Logs # {}}

\* The events of the accounts, owners compared with the derived ones.
Candidates == {a \in Own : CreatedAt(a) \cap Logs # {}}

Transfers(a) == {b \in Logs : chain[b].account = a /\ chain[b].logs > 0}
Launches(a) == {b \in Logs : chain[b].account = a /\ chain[b].launched}

\* Mutant: what has been received is forgotten when nothing has been launched.
LaunchedTokens(transfers, launches) == {chain[b].token : b \in launches}

CandidateTokens(transfers, launches) == {chain[b].token : b \in transfers \cup launches}

\* A query is complete: what the function does with its logs.
Complete ==
  CASE pc = "accounts" ->
         /\ NextAccount(Candidates)
         /\ UNCHANGED <<received, tokens>>
    [] pc = "transfers" ->
         /\ received' = Transfers(account)
         /\ AskNext("launches")
         /\ FreshLogs(FirstBlock(account))
         /\ UNCHANGED <<candidates, account, tokens, token>>
    [] OTHER ->
         /\ NextToken(CandidateTokens(received, Launches(account)))
         /\ UNCHANGED received

AnswerLogs ==
  /\ pc \in LogReads /\ ~asleep
  /\ Awake
  /\ IF NextCursor > latest THEN Complete
     ELSE /\ cursor' = NextCursor
          /\ range' = IF range < MaxRange THEN Widened ELSE range
          /\ fetched' = Fetched
          /\ AskNext(pc)
          /\ UNCHANGED <<start, candidates, account, received, tokens, token>>
  /\ UNCHANGED <<chain, aborted, latest, held, found, skipped>>

Half(attempted) ==
  IF attempted \div 2 < MinRange THEN MinRange ELSE attempted \div 2

\* Mutant: the smallest range is tried for ever.
NeverTooNarrow(attempted) == FALSE

TooNarrow(attempted) == attempted <= MinRange

RangeTimesOut ==
  /\ pc \in LogReads /\ ~asleep
  /\ LET attempted == ChunkEnd - cursor + 1
     IN  IF TooNarrow(attempted) THEN ScanThrow
         ELSE /\ range' = Half(attempted)
              /\ AskNext(pc)
              /\ Awake
              /\ UNCHANGED <<start, cursor, fetched, progress>>
  /\ UNCHANGED <<chain, aborted>>

(***************************************************************************)
(* The other reads.                                                        *)
(***************************************************************************)
Begin ==
  /\ pc = "idle"
  /\ pc' = "latest"
  /\ UNCHANGED <<chain, aborted, reading, progress>>

\* An empty chain holds nothing to scan.
AnswerLatest ==
  /\ pc = "latest" /\ ~asleep
  /\ latest' = Len(chain)
  /\ IF chain = << >> THEN pc' = "done" ELSE AskNext("accounts")
  /\ Awake /\ NoLogs
  /\ UNCHANGED <<chain, aborted, candidates, account, received, tokens, token, held,
                 found, skipped>>

\* The token's record is not read, for whatever reason, and the token passed over.
Skip ==
  /\ skipped' = skipped \cup {<<account, token>>}
  /\ NextToken(tokens \ {token})
  /\ UNCHANGED found

AnswerBalance ==
  /\ pc = "balance" /\ ~asleep
  /\ Awake
  /\ held' = Holds(account, token)
  /\ IF aborted THEN Skip
     ELSE /\ pc' = "record"
          /\ NoLogs
          /\ UNCHANGED <<candidates, account, tokens, token, found, skipped>>
  /\ UNCHANGED <<chain, aborted, latest, received>>

\* The metadata read next never throw and are left out.
AnswerRecord ==
  /\ pc = "record" /\ ~asleep
  /\ Awake
  /\ IF token \in PonsTokens /\ held
     THEN /\ AskNext("receipts")
          /\ NoLogs
          /\ UNCHANGED <<candidates, account, tokens, token>>
     ELSE NextToken(tokens \ {token})
  /\ UNCHANGED <<chain, aborted, latest, received, held, found, skipped>>

PaidIn(blocks, c) == MapThenSumSet(LAMBDA b : c[b].paid, blocks)

\* usdgCommitted: what the account has paid in the transactions it received in.
Committed == PaidIn({b \in received : chain[b].token = token}, chain)

AnswerReceipts ==
  /\ pc = "receipts" /\ ~asleep
  /\ Awake
  /\ found' = found \cup {[account |-> account, token |-> token, committed |-> Committed]}
  /\ NextToken(tokens \ {token})
  /\ UNCHANGED <<chain, aborted, latest, received, held, skipped>>

(***************************************************************************)
(* retryRateLimited.                                                       *)
(***************************************************************************)
\* What a read throws reaches the caller, except the token's record.
Rejects ==
  IF pc = "record"
  THEN Skip /\ Awake /\ UNCHANGED <<latest, received, held>>
  ELSE ScanThrow

RateLimited ==
  /\ pc \in Reads /\ ~asleep
  /\ IF attempt + 1 < Attempts
     THEN attempt' = attempt + 1 /\ asleep' = TRUE /\ UNCHANGED <<pc, query, progress>>
     ELSE Rejects
  /\ UNCHANGED <<chain, aborted>>

Wake ==
  /\ asleep
  /\ IF aborted THEN Rejects
     ELSE asleep' = FALSE /\ UNCHANGED <<pc, attempt, query, progress>>
  /\ UNCHANGED <<chain, aborted>>

ReadFails ==
  /\ pc \in Reads /\ ~asleep
  /\ Rejects
  /\ UNCHANGED <<chain, aborted>>

Scan ==
  \/ AnswerLatest \/ AnswerLogs \/ RangeTimesOut
  \/ AnswerBalance \/ AnswerRecord \/ AnswerReceipts
  \/ RateLimited \/ Wake \/ ReadFails

ScanNext ==
  \/ \E a \in AllAccounts, t \in Tokens :
       \/ \E logs \in 1..2 : Buy(a, t, logs)
       \/ Receive(a, t) \/ Launch(a, t) \/ Sell(a, t)
  \/ Begin \/ Abort \/ Scan

ScanSpec == ScanInit /\ [][ScanNext]_scanVars

\* Every read settles: the provider answers or the connection fails.
FairScan == ScanSpec /\ WF_scanVars(Scan)

(***************************************************************************)
(* Properties.                                                             *)
(***************************************************************************)
\* The adaptive range never falls below its floor nor above its ceiling, and
\* the cursor never leaves the blocks that are to be scanned.
ScanTypeOK ==
  /\ Len(chain) <= MaxBlocks
  /\ pc \in {"idle"} \cup Reads \cup Ends
  /\ asleep \in BOOLEAN /\ aborted \in BOOLEAN /\ held \in BOOLEAN
  /\ attempt \in 0..Attempts - 1
  /\ latest \in 0..Len(chain)
  /\ start \in Blocks /\ cursor \in Blocks /\ start <= cursor
  /\ pc \in LogReads => cursor <= latest
  /\ range \in MinRange..MaxRange
  /\ candidates \subseteq AllAccounts
  /\ received \subseteq 1..latest
  /\ tokens \subseteq Tokens
  /\ skipped \subseteq AllAccounts \X Tokens

\* However often ranges are halved, widened again and repeated, the logs read
\* so far are those of every block from fromBlock to before the cursor, once.
ScannedOnce ==
  pc \in LogReads =>
    \A b \in Blocks : fetched[b] = IF b \in start..cursor - 1 THEN 1 ELSE 0

\* A position the scan has found is one of the user's, of a token Pons has
\* launched, that the account has held since the scan began, and the amount
\* committed to it is what the account has paid for it up to then.
FoundIsReal ==
  \A p \in found :
    /\ p.account \in Own /\ p.token \in PonsTokens
    /\ \E n \in latest..Len(chain) : Kept(p.account, p.token, n, n)
    /\ p.committed =
         PaidIn({b \in 1..latest : /\ chain[b].account = p.account
                                   /\ chain[b].token = p.token}, chain)

\* A scan that returns has found nothing but such positions, and every one the
\* user has held from before it read the head until it ended, except for tokens
\* whose record it could not read.
RecoveryIsExact ==
  pc = "done" =>
    /\ FoundIsReal
    /\ \A a \in Own, t \in PonsTokens :
         Kept(a, t, latest, Len(chain))
         => \/ \E p \in found : p.account = a /\ p.token = t
            \/ <<a, t>> \in skipped

\* A scan ends, with its positions or with an error, however the provider
\* behaves: the repetitions are bounded and a range that times out shrinks.
ScanSettles == (pc \in Reads) ~> (pc \in Ends)
=============================================================================
