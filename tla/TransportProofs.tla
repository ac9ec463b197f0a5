-------------------------- MODULE TransportProofs ---------------------------
(***************************************************************************)
(* What the transports guarantee whatever runs at a time: the funding of an*)
(* execution account (FundingTransport) and the deposits into the private  *)
(* balance (DepositTransport).                                             *)
(***************************************************************************)
EXTENDS FundingTransport, DepositTransport, TLAPS

-----------------------------------------------------------------------------
(***************************************************************************)
(* Funding.  For any number of tabs: a flow that has quoted holds a request*)
(* minted for the account it funds, and a request keeps its account and its*)
(* final burn for good, so a record that is written after the burn, and a  *)
(* flow that polls a record, name a paid transfer to the account they mean.*)
(***************************************************************************)
\* A flow past its quote holds a request minted for the account it funds.
QuotedForItsAccount ==
  \A f \in Flows : pc[f] \in {"preflight", "burning"} =>
    req[f] \in Requests /\ target[req[f]] = want[f]

\* A running flow has been asked for an account.
RunsForAnAccount ==
  \A f \in Flows :
    /\ pc[f] # "idle" => want[f] \in Accounts
    /\ pc[f] = "polling" => req[f] \in Requests

IInv ==
  /\ TypeOK
  /\ RecordNamesABurn
  /\ PollsItsOwnTransfer
  /\ QuotedForItsAccount
  /\ RunsForAnAccount

LEMMA CursorFields ==
  ASSUME NEW c \in Cursor
  PROVE  c.request \in Requests /\ c.account \in Accounts
  BY DEF Cursor

LEMMA InitIInv == Init => IInv
<1> SUFFICES ASSUME Init PROVE IInv
  OBVIOUS
<1>1. TypeOK
  BY DEF Init, TypeOK, Cursor, NotCursors
<1>2. RecordNamesABurn
  <2> SUFFICES ASSUME NEW c \in {cursor, legacy} \cap Cursor
               PROVE  burn[c.request] = "burned" /\ target[c.request] = c.account
    BY DEF RecordNamesABurn
  <2>1. c = legacy /\ legacy \notin NotCursors /\ c.request \in Requests
    BY CursorFields, FundingAssumption DEF Init, NotCursors
  <2>2. /\ target = [r \in Requests |-> IF r = c.request THEN c.account ELSE None]
        /\ burn = [r \in Requests |-> IF r = c.request THEN "burned" ELSE "none"]
    BY <2>1 DEF Init, NotCursors
  <2> QED BY <2>1, <2>2
<1>3. PollsItsOwnTransfer /\ QuotedForItsAccount /\ RunsForAnAccount
  BY DEF Init, PollsItsOwnTransfer, QuotedForItsAccount, RunsForAnAccount
<1> QED BY <1>1, <1>2, <1>3 DEF IInv

\* Migration moves a record that is kept, it never invents one.
LEMMA Migration ==
  ASSUME TypeOK, Migrate, Prior \in Cursor \cup {None}
  PROVE  /\ cursor' \in Cursor \cup {None}
         /\ legacy' = None
         /\ {cursor', legacy'} \cap Cursor \subseteq {cursor, legacy} \cap Cursor
  BY FundingAssumption DEF TypeOK, Migrate, Prior, NotCursors

LEMMA CallKeepsIInv ==
  ASSUME IInv, NEW f \in Flows, NEW a \in Accounts, Call(f, a)
  PROVE  IInv'
<1>1. CASE Resume(f, a)
  <2>1. /\ cursor' \in Cursor \cup {None} /\ legacy' = None
        /\ {cursor', legacy'} \cap Cursor \subseteq {cursor, legacy} \cap Cursor
    BY <1>1, Migration DEF Resume, IInv
  <2>2. /\ Prior \in {cursor, legacy} \cap Cursor
        /\ Prior.request \in Requests /\ Prior.account = a
    BY <1>1, CursorFields DEF Resume, Prior
  <2>3. burn[Prior.request] = "burned" /\ target[Prior.request] = a
    BY <2>2 DEF IInv, RecordNamesABurn
  <2>4. /\ pc' = [pc EXCEPT ![f] = "polling"]
        /\ want' = [want EXCEPT ![f] = a]
        /\ req' = [req EXCEPT ![f] = Prior.request]
        /\ UNCHANGED <<target, burn, relay, orphans>>
    BY <1>1 DEF Resume, Goto
  <2>5. TypeOK'
    BY <2>1, <2>2, <2>4 DEF IInv, TypeOK, NotCursors
  <2>6. RecordNamesABurn'
    BY <2>1, <2>4 DEF IInv, RecordNamesABurn
  <2>7. PollsItsOwnTransfer' /\ QuotedForItsAccount' /\ RunsForAnAccount'
    BY <2>2, <2>3, <2>4 DEF IInv, TypeOK, PollsItsOwnTransfer,
                            QuotedForItsAccount, RunsForAnAccount
  <2> QED BY <2>5, <2>6, <2>7 DEF IInv
<1>2. CASE RefuseOther(f, a)
  <2>1. /\ cursor' \in Cursor \cup {None} /\ legacy' = None
        /\ {cursor', legacy'} \cap Cursor \subseteq {cursor, legacy} \cap Cursor
    BY <1>2, Migration DEF RefuseOther, IInv
  <2>2. UNCHANGED <<pc, want, req, target, burn, relay, orphans>>
    BY <1>2 DEF RefuseOther, local, chain
  <2> QED BY <2>1, <2>2 DEF IInv, TypeOK, RecordNamesABurn, NotCursors,
                            PollsItsOwnTransfer, QuotedForItsAccount,
                            RunsForAnAccount
<1>3. CASE Begin(f, a)
  <2>1. /\ cursor' \in Cursor \cup {None} /\ legacy' = None
        /\ {cursor', legacy'} \cap Cursor \subseteq {cursor, legacy} \cap Cursor
    BY <1>3, Migration DEF Begin, IInv
  <2>2. /\ pc' = [pc EXCEPT ![f] = "quoting"]
        /\ want' = [want EXCEPT ![f] = a]
        /\ UNCHANGED <<req, target, burn, relay, orphans>>
    BY <1>3 DEF Begin, Goto, chain
  <2>3. TypeOK' /\ RecordNamesABurn'
    BY <2>1, <2>2 DEF IInv, TypeOK, RecordNamesABurn, NotCursors
  <2>4. PollsItsOwnTransfer' /\ QuotedForItsAccount' /\ RunsForAnAccount'
    BY <2>2 DEF IInv, TypeOK, PollsItsOwnTransfer, QuotedForItsAccount,
                RunsForAnAccount
  <2> QED BY <2>3, <2>4 DEF IInv
<1> QED BY <1>1, <1>2, <1>3 DEF Call

LEMMA DropKeepsIInv ==
  ASSUME IInv, NEW f \in Flows, DropCorrupt(f)
  PROVE  IInv'
<1>1. /\ cursor' = None /\ legacy' = None
      /\ orphans' \subseteq Requests
      /\ UNCHANGED <<pc, want, req, target, burn, relay>>
  BY DEF DropCorrupt, local, chain, IInv, TypeOK
<1>2. {cursor', legacy'} \cap Cursor = {}
  BY <1>1, FundingAssumption DEF NotCursors
<1> QED BY <1>1, <1>2 DEF IInv, TypeOK, RecordNamesABurn, NotCursors,
                          PollsItsOwnTransfer, QuotedForItsAccount,
                          RunsForAnAccount

LEMMA QuoteKeepsIInv ==
  ASSUME IInv, NEW f \in Flows, NEW r \in Requests, Quote(f, r)
  PROVE  IInv'
<1>1. /\ pc[f] = "quoting" /\ want[f] \in Accounts /\ target[r] = None
      /\ pc' = [pc EXCEPT ![f] = "preflight"]
      /\ req' = [req EXCEPT ![f] = r]
      /\ target' = [target EXCEPT ![r] = want[f]]
      /\ UNCHANGED <<want, cursor, legacy, burn, relay, orphans>>
  BY DEF Quote, Goto, storage, IInv, RunsForAnAccount
<1>2. \A c \in {cursor, legacy} \cap Cursor : c.request # r
  BY <1>1, CursorFields, FundingAssumption
  DEF IInv, RecordNamesABurn, NotCursors
<1>3. \A g \in Flows : pc[g] \in {"preflight", "burning", "polling"} => req[g] # r
  BY <1>1, FundingAssumption
  DEF IInv, QuotedForItsAccount, PollsItsOwnTransfer, RunsForAnAccount,
      NotCursors
<1>4. TypeOK'
  BY <1>1 DEF IInv, TypeOK
<1>5. RecordNamesABurn'
  BY <1>1, <1>2, CursorFields DEF IInv, TypeOK, RecordNamesABurn
<1>6. PollsItsOwnTransfer' /\ QuotedForItsAccount' /\ RunsForAnAccount'
  BY <1>1, <1>3 DEF IInv, TypeOK, PollsItsOwnTransfer, QuotedForItsAccount,
                    RunsForAnAccount
<1> QED BY <1>4, <1>5, <1>6 DEF IInv

\* Steps of a flow that touch neither the storage nor the chain.
LEMMA LocalStepKeepsIInv ==
  ASSUME IInv, NEW f \in Flows,
         \/ Preflight(f) \/ QuoteRefused(f) \/ BurnInterrupted(f) \/ PollEnds(f)
  PROVE  IInv'
<1>1. /\ \/ /\ pc[f] = "preflight" /\ pc' = [pc EXCEPT ![f] = "burning"]
            /\ req' = req
         \/ /\ pc' = [pc EXCEPT ![f] = "idle"]
            /\ req' = [req EXCEPT ![f] = None]
      /\ UNCHANGED <<want, cursor, legacy, target, burn, relay>>
  BY DEF Preflight, QuoteRefused, BurnInterrupted, PollEnds, Goto, storage, chain
<1>2. orphans' \subseteq Requests
  BY DEF Preflight, QuoteRefused, BurnInterrupted, PollEnds, chain, IInv,
         TypeOK, QuotedForItsAccount
<1> QED BY <1>1, <1>2 DEF IInv, TypeOK, RecordNamesABurn, PollsItsOwnTransfer,
                          QuotedForItsAccount, RunsForAnAccount

LEMMA SubmitKeepsIInv ==
  ASSUME IInv, NEW f \in Flows, Submit(f)
  PROVE  IInv'
<1>1. /\ req[f] \in Requests /\ burn[req[f]] = "none"
      /\ burn' = [burn EXCEPT ![req[f]] = "submitted"]
      /\ UNCHANGED <<pc, want, req, cursor, legacy, target, relay, orphans>>
  BY DEF Submit, local, storage, IInv, QuotedForItsAccount
<1>2. \A r \in Requests : burn[r] = "burned" => burn'[r] = "burned"
  BY <1>1 DEF IInv, TypeOK
<1> QED BY <1>1, <1>2, CursorFields
        DEF IInv, TypeOK, RecordNamesABurn, PollsItsOwnTransfer,
            QuotedForItsAccount, RunsForAnAccount

LEMMA BurnReturnsKeepsIInv ==
  ASSUME IInv, NEW f \in Flows, BurnReturns(f)
  PROVE  IInv'
<1>1. /\ pc[f] = "burning" /\ req[f] \in Requests /\ want[f] \in Accounts
      /\ burn[req[f]] = "burned" /\ target[req[f]] = want[f]
      /\ cursor' = [request |-> req[f], account |-> want[f]]
      /\ pc' = [pc EXCEPT ![f] = "polling"]
      /\ UNCHANGED <<want, req, legacy, target, burn, relay, orphans>>
  BY DEF BurnReturns, Record, Goto, chain, IInv, QuotedForItsAccount,
         RunsForAnAccount
<1>2. TypeOK'
  BY <1>1 DEF IInv, TypeOK, Cursor
<1>3. RecordNamesABurn'
  BY <1>1 DEF IInv, RecordNamesABurn
<1>4. PollsItsOwnTransfer' /\ QuotedForItsAccount' /\ RunsForAnAccount'
  BY <1>1 DEF IInv, TypeOK, PollsItsOwnTransfer, QuotedForItsAccount,
              RunsForAnAccount
<1> QED BY <1>2, <1>3, <1>4 DEF IInv

LEMMA PollSuccessKeepsIInv ==
  ASSUME IInv, NEW f \in Flows, PollSuccess(f)
  PROVE  IInv'
<1>1. /\ cursor' = None
      /\ pc' = [pc EXCEPT ![f] = "idle"]
      /\ req' = [req EXCEPT ![f] = None]
      /\ UNCHANGED <<want, legacy, target, burn, relay, orphans>>
  BY DEF PollSuccess, Goto, chain
<1>2. cursor' \notin Cursor
  BY <1>1, FundingAssumption DEF NotCursors
<1> QED BY <1>1, <1>2 DEF IInv, TypeOK, RecordNamesABurn, PollsItsOwnTransfer,
                          QuotedForItsAccount, RunsForAnAccount

LEMMA EnvironmentKeepsIInv ==
  ASSUME IInv, NEW r \in Requests, Environment(r)
  PROVE  IInv'
<1>1. /\ UNCHANGED <<pc, want, req, cursor, legacy, target, orphans>>
      /\ burn' \in [Requests -> {"none", "submitted", "burned", "rejected"}]
      /\ relay' \in [Requests -> {"waiting", "success", "failed"}]
      /\ \A s \in Requests : burn[s] = "burned" => burn'[s] = "burned"
  BY DEF Environment, Land, Reject, Fill, Fail, local, storage, IInv, TypeOK
<1> QED BY <1>1, CursorFields
        DEF IInv, TypeOK, RecordNamesABurn, PollsItsOwnTransfer,
            QuotedForItsAccount, RunsForAnAccount

LEMMA RunKeepsIInv ==
  ASSUME IInv, NEW f \in Flows, Run(f)
  PROVE  IInv'
  BY QuoteKeepsIInv, LocalStepKeepsIInv, SubmitKeepsIInv, BurnReturnsKeepsIInv,
     PollSuccessKeepsIInv
  DEF Run

LEMMA StutterKeepsIInv ==
  ASSUME IInv, UNCHANGED vars
  PROVE  IInv'
  BY DEF vars, IInv, TypeOK, RecordNamesABurn, PollsItsOwnTransfer,
         QuotedForItsAccount, RunsForAnAccount

LEMMA StepIInv == IInv /\ [Next]_vars => IInv'
  BY CallKeepsIInv, DropKeepsIInv, RunKeepsIInv, EnvironmentKeepsIInv,
     StutterKeepsIInv
  DEF Next

THEOREM Invariance == Spec => []IInv
  BY InitIInv, StepIInv, PTL DEF Spec

\* Every state is well typed; a corrupt record never stays under the v2 key.
THEOREM TypeCorrect == Spec => []TypeOK
<1>1. IInv => TypeOK
  BY DEF IInv
<1> QED BY <1>1, Invariance, PTL

\* With any number of tabs, a recovery record names a burn that is final and
\* that was quoted for the account of the record.
THEOREM RecordsArePaid == Spec => []RecordNamesABurn
<1>1. IInv => RecordNamesABurn
  BY DEF IInv
<1> QED BY <1>1, Invariance, PTL

\* With any number of tabs, a flow waits only for a paid delivery to the
\* account it was asked to fund.
THEOREM PollsAreOwn == Spec => []PollsItsOwnTransfer
<1>1. IInv => PollsItsOwnTransfer
  BY DEF IInv
<1> QED BY <1>1, Invariance, PTL

(***************************************************************************)
(* A single tab t.  While t runs, the storage holds nothing but its own    *)
(* record, so a burn that is neither recorded nor being made is an orphan. *)
(***************************************************************************)
Only(t) == Flows = {t}

StorageFollows(t) ==
  /\ pc[t] = "idle" /\ legacy # None => cursor = None
  /\ pc[t] # "idle" => legacy = None
  /\ pc[t] \in {"quoting", "preflight", "burning"} => cursor = None
  /\ pc[t] = "polling" => cursor = Record(t)

\* Only minted requests are burned, and only burns are orphaned.
BurnsAreMinted ==
  \A r \in Requests :
    /\ target[r] = None => burn[r] = "none"
    /\ r \in orphans => burn[r] # "none"

\* A flow burns its request once and has it in sight while it does.
BurnsItsOwn(t) ==
  /\ pc[t] = "preflight" => burn[req[t]] = "none"
  /\ pc[t] = "burning" => req[t] \notin orphans

RecordsAreNoOrphans == \A r \in Requests : Recorded(r) => r \notin orphans

SubmittedInSight(t) ==
  \A r \in Requests : burn[r] = "submitted" =>
    \/ r \in orphans
    \/ pc[t] = "burning" /\ req[t] = r

\* A corrupt record stands for the one burn an older build made.
CorruptStandsForOne ==
  legacy = Corrupt =>
    /\ orphans = {}
    /\ \E r \in Requests : \A s \in Requests : Sent(s) <=> s = r

SoloInv(t) ==
  /\ StorageFollows(t)
  /\ BurnsAreMinted
  /\ BurnsItsOwn(t)
  /\ RecordsAreNoOrphans
  /\ SubmittedInSight(t)
  /\ CorruptStandsForOne
  /\ BurnsInSight

\* With one tab, migration keeps exactly the records there were.
LEMMA SoloMigration ==
  ASSUME NEW t, Only(t), IInv, SoloInv(t), Migrate, pc[t] = "idle",
         Prior \in Cursor \cup {None}
  PROVE  /\ legacy # Corrupt
         /\ cursor' = Prior /\ legacy' = None
         /\ \A r : Recorded(r)' <=> Recorded(r)
<1>1. legacy # None => cursor = None
  BY DEF SoloInv, StorageFollows
<1>2. cursor' = Prior /\ legacy' = None
  BY DEF Migrate
<1>3. legacy # Corrupt
  BY <1>1, FundingAssumption DEF Prior, NotCursors
<1>4. {cursor', legacy'} \cap Cursor = {cursor, legacy} \cap Cursor
  BY <1>1, <1>2, FundingAssumption DEF Prior, NotCursors
<1> QED BY <1>2, <1>3, <1>4 DEF Recorded

LEMMA SoloInit ==
  ASSUME NEW t, Only(t), Init
  PROVE  SoloInv(t)
<1>1. /\ pc[t] = "idle" /\ cursor = None /\ orphans = {}
      /\ \A f \in Flows : pc[f] = "idle"
      /\ \A r \in Requests : burn[r] \in {"none", "burned"}
      /\ \A r \in Requests : target[r] = None => burn[r] = "none"
  <2>1. \A old \in Cursor : old.account # None
    BY CursorFields, FundingAssumption DEF NotCursors
  <2> QED BY <2>1 DEF Init, Only
<1>2. \A r \in Requests : Sent(r) =>
        /\ Recorded(r) \/ legacy = Corrupt
        /\ \A s \in Requests : Sent(s) <=> s = r
  <2> SUFFICES ASSUME NEW r \in Requests, Sent(r)
               PROVE  /\ Recorded(r) \/ legacy = Corrupt
                      /\ \A s \in Requests : Sent(s) <=> s = r
    OBVIOUS
  <2>1. PICK old \in Cursor :
          /\ legacy \in {old, Corrupt}
          /\ burn = [s \in Requests |-> IF s = old.request THEN "burned"
                                                           ELSE "none"]
    BY DEF Init, Sent
  <2>2. r = old.request
    BY <2>1 DEF Sent
  <2> QED BY <2>1, <2>2 DEF Sent, Recorded
<1>3. legacy = Corrupt => \E r \in Requests : Sent(r)
  <2> SUFFICES ASSUME legacy = Corrupt PROVE \E r \in Requests : Sent(r)
    OBVIOUS
  <2>1. PICK old \in Cursor :
          burn = [s \in Requests |-> IF s = old.request THEN "burned"
                                                       ELSE "none"]
    BY FundingAssumption DEF Init
  <2>2. old.request \in Requests
    BY CursorFields
  <2> QED BY <2>1, <2>2 DEF Sent
<1> QED BY <1>1, <1>2, <1>3
        DEF SoloInv, StorageFollows, BurnsAreMinted, BurnsItsOwn,
            RecordsAreNoOrphans, SubmittedInSight, CorruptStandsForOne,
            BurnsInSight

LEMMA SoloCall ==
  ASSUME NEW t, Only(t), IInv, SoloInv(t), NEW a \in Accounts, Call(t, a)
  PROVE  SoloInv(t)'
<1>1. /\ pc[t] = "idle" /\ Migrate /\ Prior \in Cursor \cup {None}
      /\ UNCHANGED <<target, burn, relay, orphans>>
  BY DEF Call, Resume, RefuseOther, Begin, chain
<1>2. /\ legacy # Corrupt /\ cursor' = Prior /\ legacy' = None
      /\ \A r : Recorded(r)' <=> Recorded(r)
  BY <1>1, SoloMigration
<1>3. StorageFollows(t)'
  <2>1. CASE Resume(t, a)
    <3>1. /\ pc'[t] = "polling" /\ req'[t] = Prior.request /\ want'[t] = a
          /\ Prior \in Cursor /\ Prior.account = a
      BY <2>1 DEF Resume, Goto, Only, IInv, TypeOK
    <3>2. Prior = [request |-> Prior.request, account |-> Prior.account]
      BY <3>1 DEF Cursor
    <3> QED BY <1>2, <3>1, <3>2 DEF StorageFollows, Record
  <2>2. CASE RefuseOther(t, a)
    BY <1>1, <1>2, <2>2 DEF RefuseOther, local, StorageFollows
  <2>3. CASE Begin(t, a)
    <3>1. pc'[t] = "quoting" /\ Prior = None
      BY <2>3 DEF Begin, Goto, Only, IInv, TypeOK
    <3> QED BY <1>2, <3>1 DEF StorageFollows
  <2> QED BY <2>1, <2>2, <2>3 DEF Call
<1>4. pc'[t] \in {"idle", "quoting", "polling"}
  BY <1>1 DEF Call, Resume, RefuseOther, Begin, Goto, local, Only, IInv, TypeOK
<1>5. \A f \in Flows : pc[f] # "burning" /\ pc'[f] # "burning"
  BY <1>1, <1>4 DEF Only
<1>6. BurnsAreMinted' /\ BurnsItsOwn(t)' /\ CorruptStandsForOne'
  BY <1>1, <1>2, <1>4, FundingAssumption
  DEF SoloInv, BurnsAreMinted, BurnsItsOwn, CorruptStandsForOne, NotCursors
<1>7. RecordsAreNoOrphans' /\ SubmittedInSight(t)'
  BY <1>1, <1>2 DEF SoloInv, RecordsAreNoOrphans, SubmittedInSight
<1>8. BurnsInSight'
  BY <1>1, <1>2, <1>5 DEF SoloInv, BurnsInSight, Sent
<1> QED BY <1>3, <1>6, <1>7, <1>8 DEF SoloInv

LEMMA SoloDrop ==
  ASSUME NEW t, Only(t), IInv, SoloInv(t), DropCorrupt(t)
  PROVE  SoloInv(t)'
<1>1. /\ pc[t] = "idle" /\ cursor' = None /\ legacy' = None
      /\ orphans' = orphans \cup {r \in Requests : Sent(r)}
      /\ UNCHANGED <<pc, want, req, target, burn, relay>>
  BY DEF DropCorrupt, local, chain
<1>2. \A r : ~Recorded(r)'
  BY <1>1, FundingAssumption DEF Recorded, NotCursors
<1> QED BY <1>1, <1>2, FundingAssumption
        DEF SoloInv, StorageFollows, BurnsAreMinted, BurnsItsOwn, Sent,
            RecordsAreNoOrphans, SubmittedInSight, CorruptStandsForOne,
            BurnsInSight, NotCursors

LEMMA SoloQuote ==
  ASSUME NEW t, Only(t), IInv, SoloInv(t), NEW r \in Requests, Quote(t, r)
  PROVE  SoloInv(t)'
<1>1. /\ pc[t] = "quoting" /\ want[t] \in Accounts /\ target[r] = None
      /\ pc'[t] = "preflight" /\ req'[t] = r
      /\ target' = [target EXCEPT ![r] = want[t]]
      /\ UNCHANGED <<want, cursor, legacy, burn, relay, orphans>>
  BY DEF Quote, Goto, storage, IInv, RunsForAnAccount, Only, TypeOK
<1>2. \A f \in Flows : pc[f] # "burning" /\ pc'[f] # "burning"
  BY <1>1 DEF Only
<1>3. \A s \in Requests : target'[s] = None => target[s] = None
  BY <1>1, FundingAssumption DEF IInv, TypeOK, NotCursors
<1>4. StorageFollows(t)' /\ BurnsAreMinted' /\ BurnsItsOwn(t)'
  BY <1>1, <1>3 DEF SoloInv, StorageFollows, BurnsAreMinted, BurnsItsOwn
<1>5. RecordsAreNoOrphans' /\ SubmittedInSight(t)'
  BY <1>1 DEF SoloInv, RecordsAreNoOrphans, SubmittedInSight, Recorded
<1>6. CorruptStandsForOne' /\ BurnsInSight'
  BY <1>1, <1>2
  DEF SoloInv, CorruptStandsForOne, BurnsInSight, Sent, Recorded
<1> QED BY <1>4, <1>5, <1>6 DEF SoloInv

LEMMA SoloLocalStep ==
  ASSUME NEW t, Only(t), IInv, SoloInv(t),
         Preflight(t) \/ QuoteRefused(t) \/ PollEnds(t)
  PROVE  SoloInv(t)'
<1>1. /\ pc[t] # "burning" /\ pc[t] # "idle"
      /\ \/ pc[t] = "preflight" /\ pc'[t] = "burning" /\ req'[t] = req[t]
         \/ pc'[t] = "idle"
      /\ UNCHANGED <<want, cursor, legacy, target, burn, relay, orphans>>
  BY DEF Preflight, QuoteRefused, PollEnds, Goto, storage, chain, IInv, TypeOK,
         Only
<1>2. \A f \in Flows : pc[f] # "burning"
  BY <1>1 DEF Only
<1>3. pc'[t] = "burning" => req[t] \notin orphans
  BY <1>1 DEF SoloInv, BurnsItsOwn, BurnsAreMinted, IInv, QuotedForItsAccount,
              Only
<1>4. StorageFollows(t)' /\ BurnsAreMinted' /\ BurnsItsOwn(t)'
  BY <1>1, <1>3 DEF SoloInv, StorageFollows, BurnsAreMinted, BurnsItsOwn
<1>5. RecordsAreNoOrphans' /\ SubmittedInSight(t)'
  BY <1>1 DEF SoloInv, RecordsAreNoOrphans, SubmittedInSight, Recorded
<1>6. CorruptStandsForOne' /\ BurnsInSight'
  BY <1>1, <1>2
  DEF SoloInv, CorruptStandsForOne, BurnsInSight, Sent, Recorded
<1> QED BY <1>4, <1>5, <1>6 DEF SoloInv

LEMMA SoloSubmit ==
  ASSUME NEW t, Only(t), IInv, SoloInv(t), Submit(t)
  PROVE  SoloInv(t)'
<1>1. /\ pc[t] = "burning" /\ req[t] \in Requests /\ burn[req[t]] = "none"
      /\ burn' = [burn EXCEPT ![req[t]] = "submitted"]
      /\ UNCHANGED <<pc, want, req, cursor, legacy, target, relay, orphans>>
  BY DEF Submit, local, storage, IInv, QuotedForItsAccount, Only
<1>2. /\ legacy = None /\ target[req[t]] # None /\ t \in Flows
  BY <1>1, FundingAssumption
  DEF SoloInv, StorageFollows, IInv, QuotedForItsAccount, RunsForAnAccount,
      Only, NotCursors
<1>3. \A r \in Requests : burn'[r] = IF r = req[t] THEN "submitted" ELSE burn[r]
  BY <1>1 DEF IInv, TypeOK
<1>4. StorageFollows(t)' /\ BurnsAreMinted' /\ BurnsItsOwn(t)'
  BY <1>1, <1>2, <1>3
  DEF SoloInv, StorageFollows, BurnsAreMinted, BurnsItsOwn, Record
<1>5. /\ RecordsAreNoOrphans' /\ SubmittedInSight(t)'
      /\ CorruptStandsForOne' /\ BurnsInSight'
  BY <1>1, <1>2, <1>3, FundingAssumption
  DEF SoloInv, RecordsAreNoOrphans, SubmittedInSight, CorruptStandsForOne,
      BurnsInSight, Sent, Recorded, NotCursors
<1> QED BY <1>4, <1>5 DEF SoloInv

LEMMA SoloBurnReturns ==
  ASSUME NEW t, Only(t), IInv, SoloInv(t), BurnReturns(t)
  PROVE  SoloInv(t)'
<1>1. /\ pc[t] = "burning" /\ req[t] \in Requests /\ burn[req[t]] = "burned"
      /\ pc'[t] = "polling" /\ cursor' = Record(t)
      /\ UNCHANGED <<want, req, legacy, target, burn, relay, orphans>>
  BY DEF BurnReturns, Goto, chain, IInv, QuotedForItsAccount, Only, TypeOK
<1>2. /\ legacy = None /\ cursor = None /\ req[t] \notin orphans
      /\ Record(t) \in Cursor /\ Record(t).request = req[t]
  BY <1>1 DEF SoloInv, StorageFollows, BurnsItsOwn, Record, Cursor, IInv,
              RunsForAnAccount, Only
<1>3. \A r : Recorded(r)' <=> r = req[t]
  BY <1>1, <1>2, FundingAssumption DEF Recorded, NotCursors
<1>4. \A r : ~Recorded(r)
  BY <1>2, FundingAssumption DEF Recorded, NotCursors
<1>5. StorageFollows(t)' /\ BurnsAreMinted' /\ BurnsItsOwn(t)'
  BY <1>1, <1>2
  DEF SoloInv, StorageFollows, BurnsAreMinted, BurnsItsOwn, Record
<1>6. RecordsAreNoOrphans' /\ SubmittedInSight(t)' /\ CorruptStandsForOne'
  BY <1>1, <1>2, <1>3, FundingAssumption
  DEF SoloInv, RecordsAreNoOrphans, SubmittedInSight, CorruptStandsForOne,
      NotCursors
<1>7. BurnsInSight'
  BY <1>1, <1>2, <1>3, <1>4, FundingAssumption
  DEF SoloInv, BurnsInSight, Sent, Only, NotCursors
<1> QED BY <1>5, <1>6, <1>7 DEF SoloInv

LEMMA SoloBurnInterrupted ==
  ASSUME NEW t, Only(t), IInv, SoloInv(t), BurnInterrupted(t)
  PROVE  SoloInv(t)'
<1>1. /\ pc[t] = "burning" /\ req[t] \in Requests /\ pc'[t] = "idle"
      /\ orphans' = IF Sent(req[t]) THEN orphans \cup {req[t]} ELSE orphans
      /\ UNCHANGED <<want, cursor, legacy, target, burn, relay>>
  BY DEF BurnInterrupted, Goto, storage, chain, IInv, QuotedForItsAccount, Only,
         TypeOK
<1>2. legacy = None /\ cursor = None
  BY <1>1 DEF SoloInv, StorageFollows
<1>3. \A r : ~Recorded(r) /\ ~Recorded(r)'
  BY <1>1, <1>2, FundingAssumption DEF Recorded, NotCursors
<1>4. StorageFollows(t)' /\ BurnsAreMinted' /\ BurnsItsOwn(t)'
  BY <1>1, <1>2 DEF SoloInv, StorageFollows, BurnsAreMinted, BurnsItsOwn, Sent
<1>5. RecordsAreNoOrphans' /\ SubmittedInSight(t)' /\ CorruptStandsForOne'
  BY <1>1, <1>2, <1>3, FundingAssumption
  DEF SoloInv, RecordsAreNoOrphans, SubmittedInSight, CorruptStandsForOne,
      Sent, NotCursors
<1>6. BurnsInSight'
  BY <1>1, <1>2, <1>3, FundingAssumption
  DEF SoloInv, BurnsInSight, Sent, Only, NotCursors
<1> QED BY <1>4, <1>5, <1>6 DEF SoloInv

LEMMA SoloPollSuccess ==
  ASSUME NEW t, Only(t), IInv, SoloInv(t), PollSuccess(t)
  PROVE  SoloInv(t)'
<1>1. /\ pc[t] = "polling" /\ relay[req[t]] = "success"
      /\ pc'[t] = "idle" /\ cursor' = None
      /\ UNCHANGED <<want, legacy, target, burn, relay, orphans>>
  BY DEF PollSuccess, Goto, chain, Only, IInv, TypeOK
<1>2. legacy = None /\ cursor = Record(t) /\ Record(t).request = req[t]
  BY <1>1 DEF SoloInv, StorageFollows, Record
<1>3. /\ \A r : ~Recorded(r)'
      /\ \A r : Recorded(r) => r = req[t]
      /\ \A f \in Flows : pc[f] # "burning"
  BY <1>1, <1>2, FundingAssumption DEF Recorded, NotCursors, Only
<1>4. BurnsInSight'
  BY <1>1, <1>2, <1>3, FundingAssumption DEF SoloInv, BurnsInSight, Sent, NotCursors
<1>5. StorageFollows(t)' /\ BurnsAreMinted' /\ BurnsItsOwn(t)'
  BY <1>1, <1>2 DEF SoloInv, StorageFollows, BurnsAreMinted, BurnsItsOwn
<1>6. RecordsAreNoOrphans' /\ SubmittedInSight(t)' /\ CorruptStandsForOne'
  BY <1>1, <1>2, <1>3, FundingAssumption
  DEF SoloInv, RecordsAreNoOrphans, SubmittedInSight, CorruptStandsForOne,
      NotCursors
<1> QED BY <1>4, <1>5, <1>6 DEF SoloInv

LEMMA SoloEnvironment ==
  ASSUME NEW t, Only(t), IInv, SoloInv(t), NEW r \in Requests, Environment(r)
  PROVE  SoloInv(t)'
<1>1. /\ UNCHANGED <<pc, want, req, cursor, legacy, target, orphans>>
      /\ \A s \in Requests :
           /\ burn'[s] # "none" <=> burn[s] # "none"
           /\ burn'[s] = "submitted" => burn[s] = "submitted"
           /\ Sent(s)' => Sent(s)
           /\ Sent(s) /\ ~Sent(s)' => burn[s] = "submitted"
           /\ relay[s] = "success" => relay'[s] = "success"
  BY DEF Environment, Land, Reject, Fill, Fail, local, storage, IInv, TypeOK,
         Sent
<1>2. CorruptStandsForOne'
  <2>1. pc[t] = "burning" => legacy # Corrupt
    BY FundingAssumption DEF SoloInv, StorageFollows, NotCursors
  <2> QED BY <1>1, <2>1 DEF SoloInv, CorruptStandsForOne, SubmittedInSight
<1>3. BurnsInSight'
  BY <1>1 DEF SoloInv, BurnsInSight, Recorded
<1>4. StorageFollows(t)' /\ BurnsAreMinted'
  BY <1>1 DEF SoloInv, StorageFollows, BurnsAreMinted, Record
<1>5. BurnsItsOwn(t)'
  BY <1>1 DEF SoloInv, BurnsItsOwn, IInv, QuotedForItsAccount, Only
<1>6. RecordsAreNoOrphans' /\ SubmittedInSight(t)'
  BY <1>1 DEF SoloInv, Recorded, RecordsAreNoOrphans, SubmittedInSight
<1> QED BY <1>2, <1>3, <1>4, <1>5, <1>6 DEF SoloInv

LEMMA SoloStep ==
  ASSUME NEW t, Only(t)
  PROVE  IInv /\ SoloInv(t) /\ [Next]_vars => SoloInv(t)'
<1> SUFFICES ASSUME IInv, SoloInv(t), [Next]_vars PROVE SoloInv(t)'
  OBVIOUS
<1>1. CASE \E f \in Flows, a \in Accounts : Call(f, a)
  BY <1>1, SoloCall DEF Only
<1>2. CASE \E f \in Flows : DropCorrupt(f)
  BY <1>2, SoloDrop DEF Only
<1>3. CASE \E f \in Flows : Run(f)
  BY <1>3, SoloQuote, SoloLocalStep, SoloSubmit, SoloBurnReturns,
     SoloBurnInterrupted, SoloPollSuccess
  DEF Only, Run
<1>4. CASE \E r \in Requests : Environment(r)
  BY <1>4, SoloEnvironment
<1>5. CASE UNCHANGED vars
  BY <1>5
  DEF vars, SoloInv, StorageFollows, BurnsAreMinted, BurnsItsOwn, Recorded,
      RecordsAreNoOrphans, SubmittedInSight, CorruptStandsForOne, BurnsInSight,
      Sent, Record
<1> QED BY <1>1, <1>2, <1>3, <1>4, <1>5 DEF Next

THEOREM SoloInvariance ==
  ASSUME NEW t, Only(t)
  PROVE  Spec => [](IInv /\ SoloInv(t))
<1>1. Init => IInv /\ SoloInv(t)
  BY InitIInv, SoloInit
<1>2. IInv /\ SoloInv(t) /\ [Next]_vars => (IInv /\ SoloInv(t))'
  BY StepIInv, SoloStep
<1> QED BY <1>1, <1>2, PTL DEF Spec

\* With one tab, reloaded as often as one likes, every burn on its way is
\* recorded, being made, or lost in the window between the burn and writeCursor.
THEOREM InSight ==
  ASSUME NEW t, Only(t)
  PROVE  Spec => []BurnsInSight
<1>1. SoloInv(t) => BurnsInSight
  BY DEF SoloInv
<1> QED BY <1>1, SoloInvariance, PTL

\* With one tab, no burn is sent while a recovery record exists.
THEOREM NoBurnTwice ==
  ASSUME NEW t, Only(t)
  PROVE  Spec => NoBurnOverRecord
<1>1. IInv /\ SoloInv(t) /\ [Next]_vars =>
        [\A r \in Requests :
           burn[r] = "none" /\ burn'[r] = "submitted" => Prior = None]_vars
  <2> SUFFICES ASSUME IInv, SoloInv(t), Next, NEW r \in Requests,
                      burn[r] = "none", burn'[r] = "submitted"
               PROVE  Prior = None
    OBVIOUS
  <2>1. \E f \in Flows : Submit(f)
    BY DEF Next, Call, Run, Environment, Resume, RefuseOther, Begin, DropCorrupt,
           Quote, Preflight, QuoteRefused, BurnReturns, BurnInterrupted,
           PollSuccess, PollEnds, Land, Reject, Fill, Fail, chain, IInv, TypeOK
  <2>2. pc[t] = "burning"
    BY <2>1 DEF Submit, Only
  <2> QED BY <2>2 DEF SoloInv, StorageFollows, Prior
<1> QED BY <1>1, SoloInvariance, PTL DEF Spec, NoBurnOverRecord

\* With one tab, a recovery record goes away only after Relay has delivered.
THEOREM ClosedByDelivery ==
  ASSUME NEW t, Only(t)
  PROVE  Spec => RecordClosedByDelivery
<1>1. IInv /\ SoloInv(t) /\ [Next]_vars =>
        [\A r \in Requests :
           Recorded(r) /\ ~Recorded(r)' => relay[r] = "success"]_vars
  <2> SUFFICES ASSUME IInv, SoloInv(t), Next, NEW r \in Requests,
                      Recorded(r), ~Recorded(r)'
               PROVE  relay[r] = "success"
    OBVIOUS
  <2>1. ~(\E a \in Accounts : Call(t, a))
    BY SoloMigration
    DEF Call, Resume, RefuseOther, Begin
  <2>2. ~DropCorrupt(t)
    BY FundingAssumption
    DEF DropCorrupt, Recorded, Prior, SoloInv, StorageFollows, IInv, TypeOK,
        NotCursors
  <2>3. ~(\E s \in Requests : Environment(s) \/ Quote(t, s))
    BY DEF Environment, Land, Reject, Fill, Fail, Quote, storage, Recorded
  <2>4. ~(Preflight(t) \/ QuoteRefused(t) \/ Submit(t) \/ BurnInterrupted(t)
            \/ PollEnds(t))
    BY DEF Preflight, QuoteRefused, Submit, BurnInterrupted, PollEnds, storage,
           Recorded
  <2>5. ~BurnReturns(t)
    BY FundingAssumption
    DEF BurnReturns, Recorded, SoloInv, StorageFollows, NotCursors
  <2>6. PollSuccess(t)
    BY <2>1, <2>2, <2>3, <2>4, <2>5 DEF Next, Run, Only
  <2> QED BY <2>6, FundingAssumption
          DEF PollSuccess, Recorded, Record, SoloInv, StorageFollows, NotCursors
<1> QED BY <1>1, SoloInvariance, PTL DEF Spec, RecordClosedByDelivery

(***************************************************************************)
(* Refinement: one tab keeps the FundingPromise.  A burn opens when it is  *)
(* final on Starknet, closes when its record is cleared, and is lost when  *)
(* the flow ends before writeCursor or the record turns out corrupt.       *)
(***************************************************************************)
Open == {r \in Requests \ orphans : OpenBurn(r)}

Delivered == {r \in Requests : relay[r] = "success"}

LEMMA PromiseVars ==
  /\ Promise!vars = <<Open, Delivered, orphans>>
  /\ Promise!vars' = <<Open', Delivered', orphans'>>
  BY DEF Promise!vars, Open, Delivered

\* What is open while the tab runs: its own burn, once that is final.
LEMMA OpenWhileBurning ==
  ASSUME NEW t, Only(t), IInv, SoloInv(t), pc[t] = "burning"
  PROVE  /\ Open = IF burn[req[t]] = "burned" THEN {req[t]} ELSE {}
         /\ \A r : ~Recorded(r)
         /\ legacy = None /\ cursor = None
<1>1. legacy = None /\ cursor = None
  BY DEF SoloInv, StorageFollows
<1>2. \A r : ~Recorded(r)
  BY <1>1, FundingAssumption DEF Recorded, NotCursors
<1>3. req[t] \in Requests /\ req[t] \notin orphans
  BY DEF IInv, QuotedForItsAccount, SoloInv, BurnsItsOwn, Only
<1> QED BY <1>1, <1>2, <1>3, FundingAssumption
        DEF Open, OpenBurn, Only, NotCursors

\* What is open while the tab does not burn: what is recorded.
LEMMA OpenWhileNotBurning ==
  ASSUME NEW t, Only(t), pc[t] # "burning", legacy # Corrupt
  PROVE  Open = {r \in Requests \ orphans : Recorded(r)}
  BY DEF Open, OpenBurn, Only

LEMMA PromiseInit ==
  ASSUME NEW t, Only(t), Init
  PROVE  Promise!Init
<1>1. Delivered = {} /\ orphans = {} /\ pc[t] # "burning"
  BY DEF Init, Delivered, Only
<1>2. Open = {} \/ \E r \in Requests : Open = {r}
  <2>1. CASE legacy \in {None, Garbled}
    <3>1. \A r : ~Recorded(r)
      BY <2>1, FundingAssumption DEF Init, Recorded, NotCursors
    <3> QED BY <1>1, <2>1, <3>1, FundingAssumption DEF Open, OpenBurn, Only
  <2>2. CASE legacy \notin {None, Garbled}
    <3>1. PICK old \in Cursor :
            /\ legacy \in {old, Corrupt}
            /\ burn = [r \in Requests |-> IF r = old.request THEN "burned"
                                                            ELSE "none"]
      BY <2>2 DEF Init
    <3>2. /\ old.request \in Requests
          /\ \A r \in Requests : Sent(r) <=> r = old.request
      BY <3>1, CursorFields DEF Sent
    <3>3. \A r : Recorded(r) => r = old.request /\ legacy = old
      BY <3>1, FundingAssumption DEF Init, Recorded, NotCursors
    <3>4. legacy = old => Recorded(old.request)
      BY DEF Recorded
    <3> QED BY <1>1, <3>1, <3>2, <3>3, <3>4 DEF Open, OpenBurn, Only
  <2> QED BY <2>1, <2>2
<1> QED BY <1>1, <1>2 DEF Promise!Init, Open, Delivered

LEMMA PromiseSame ==
  ASSUME Open' = Open, Delivered' = Delivered, orphans' = orphans
  PROVE  UNCHANGED Promise!vars
  BY PromiseVars

LEMMA PromiseCall ==
  ASSUME NEW t, Only(t), IInv, SoloInv(t), NEW a \in Accounts, Call(t, a)
  PROVE  UNCHANGED Promise!vars
<1>1. /\ pc[t] = "idle" /\ Migrate /\ Prior \in Cursor \cup {None}
      /\ UNCHANGED <<target, burn, relay, orphans>>
  BY DEF Call, Resume, RefuseOther, Begin, chain
<1>2. /\ legacy # Corrupt /\ legacy' = None
      /\ \A r : Recorded(r)' <=> Recorded(r)
  BY <1>1, SoloMigration
<1>3. pc'[t] # "burning"
  BY <1>1 DEF Call, Resume, RefuseOther, Begin, Goto, local, Only, IInv, TypeOK
<1>4. Open' = Open
  BY <1>1, <1>2, <1>3, FundingAssumption DEF Open, OpenBurn, Only, NotCursors
<1>5. Delivered' = Delivered
  BY <1>1 DEF Delivered
<1> QED BY <1>1, <1>4, <1>5, PromiseSame

LEMMA PromiseDrop ==
  ASSUME NEW t, Only(t), IInv, SoloInv(t), DropCorrupt(t)
  PROVE  Promise!Next
<1>1. /\ pc[t] = "idle" /\ cursor = None /\ legacy = Corrupt
      /\ cursor' = None /\ legacy' = None
      /\ orphans' = orphans \cup {r \in Requests : Sent(r)}
      /\ UNCHANGED <<pc, relay>>
  BY FundingAssumption DEF DropCorrupt, local, chain, Prior, IInv, TypeOK,
                           NotCursors
<1>2. PICK r \in Requests : orphans = {} /\ \A s \in Requests : Sent(s) <=> s = r
  BY <1>1 DEF SoloInv, CorruptStandsForOne
<1>3. orphans' = orphans \cup {r} /\ r \notin orphans /\ Delivered' = Delivered
  BY <1>1, <1>2 DEF Delivered
<1>4. (\A s : ~Recorded(s)) /\ (\A s : ~Recorded(s)')
  BY <1>1, FundingAssumption DEF Recorded, NotCursors
<1>5. Open = {r}
  BY <1>1, <1>2, <1>4 DEF Open, OpenBurn, Only
<1>6. Open' = {}
  BY <1>1, <1>4, FundingAssumption DEF Open, OpenBurn, Only
<1> QED BY <1>3, <1>5, <1>6 DEF Promise!Next, Promise!Lose, Open, Delivered

LEMMA PromiseEnvironment ==
  ASSUME NEW t, Only(t), IInv, SoloInv(t), NEW r \in Requests, Environment(r)
  PROVE  [Promise!Next]_(Promise!vars)
<1>1. UNCHANGED <<pc, want, req, cursor, legacy, target, orphans>>
  BY DEF Environment, Land, Reject, Fill, Fail, local, storage
<1>2. \A s : Recorded(s)' <=> Recorded(s)
  BY <1>1 DEF Recorded
<1>3. pc[t] = "burning" => legacy # Corrupt
  BY FundingAssumption DEF SoloInv, StorageFollows, NotCursors
<1>4. CASE Land(r)
  <2>1. /\ burn[r] = "submitted" /\ burn' = [burn EXCEPT ![r] = "burned"]
        /\ Delivered' = Delivered
    BY <1>4 DEF Land, Delivered
  <2>2. \A s \in Requests : burn'[s] = IF s = r THEN "burned" ELSE burn[s]
    BY <2>1 DEF IInv, TypeOK
  <2>3. legacy = Corrupt => orphans = {} /\ pc[t] # "burning"
    BY <1>3 DEF SoloInv, CorruptStandsForOne
  <2>4. legacy # Corrupt
    BY <2>1, <2>3 DEF SoloInv, SubmittedInSight
  <2>5. CASE r \in orphans
    <3>1. Open' = Open
      BY <1>1, <1>2, <2>2, <2>4, <2>5 DEF Open, OpenBurn
    <3> QED BY <1>1, <2>1, <3>1, PromiseSame
  <2>6. CASE r \notin orphans
    <3>1. pc[t] = "burning" /\ req[t] = r
      BY <2>1, <2>6 DEF SoloInv, SubmittedInSight
    <3>2. Open = {} /\ \A s : ~Recorded(s)
      BY <2>1, <3>1, OpenWhileBurning
    <3>3. Open' = {r}
      BY <1>1, <1>2, <2>2, <2>4, <2>6, <3>1, <3>2 DEF Open, OpenBurn, Only
    <3> QED BY <1>1, <2>1, <3>2, <3>3
            DEF Promise!Next, Promise!Burn, Open, Delivered
  <2> QED BY <2>5, <2>6
<1>5. CASE Reject(r)
  <2>1. /\ Delivered' = Delivered
        /\ \A s \in Requests : burn'[s] = "burned" <=> burn[s] = "burned"
        /\ \A s \in Requests : Sent(s) /\ ~Sent(s)' => burn[s] = "submitted"
        /\ \A s \in Requests : Sent(s)' => Sent(s)
    BY <1>5 DEF Reject, Delivered, Sent, IInv, TypeOK
  <2>2. legacy = Corrupt => \A s \in Requests : Sent(s)' <=> Sent(s)
    BY <1>3, <2>1 DEF SoloInv, CorruptStandsForOne, SubmittedInSight
  <2>3. Open' = Open
    BY <1>1, <1>2, <2>1, <2>2 DEF Open, OpenBurn
  <2> QED BY <1>1, <2>1, <2>3, PromiseSame
<1>6. CASE Fill(r)
  <2>1. /\ burn' = burn /\ Delivered' = Delivered \cup {r}
    BY <1>6 DEF Fill, Delivered, IInv, TypeOK
  <2>2. Open' = Open
    BY <1>1, <1>2, <2>1 DEF Open, OpenBurn, Sent
  <2> QED BY <1>1, <2>1, <2>2 DEF Promise!Next, Promise!Deliver, Open, Delivered
<1>7. CASE Fail(r)
  <2>1. burn' = burn /\ Delivered' = Delivered
    BY <1>7 DEF Fail, Delivered, IInv, TypeOK
  <2>2. Open' = Open
    BY <1>1, <1>2, <2>1 DEF Open, OpenBurn, Sent
  <2> QED BY <1>1, <2>1, <2>2, PromiseSame
<1> QED BY <1>4, <1>5, <1>6, <1>7 DEF Environment

LEMMA PromiseRun ==
  ASSUME NEW t, Only(t), IInv, SoloInv(t), Run(t)
  PROVE  [Promise!Next]_(Promise!vars)
<1>1. pc[t] # "idle" /\ legacy = None /\ legacy # Corrupt
  BY FundingAssumption
  DEF Run, Quote, Preflight, QuoteRefused, Submit, BurnReturns, BurnInterrupted,
      PollSuccess, PollEnds, SoloInv, StorageFollows, NotCursors
<1>2. ASSUME NEW r \in Requests, Quote(t, r) PROVE UNCHANGED Promise!vars
  <2>1. /\ pc[t] # "burning" /\ pc'[t] # "burning"
        /\ UNCHANGED <<cursor, legacy, burn, relay, orphans>>
    BY <1>2 DEF Quote, Goto, storage, Only, IInv, TypeOK
  <2>2. Open' = Open
    BY <1>1, <2>1 DEF Open, OpenBurn, Recorded, Only
  <2> QED BY <2>1, <2>2, PromiseSame DEF Delivered
<1>3. ASSUME Preflight(t) \/ QuoteRefused(t) \/ PollEnds(t)
      PROVE  UNCHANGED Promise!vars
  <2>1. /\ pc[t] # "burning"
        /\ pc'[t] = "burning" => req'[t] = req[t] /\ burn[req[t]] = "none"
        /\ UNCHANGED <<cursor, legacy, burn, relay, orphans>>
    BY <1>3 DEF Preflight, QuoteRefused, PollEnds, Goto, storage, chain, Only,
                IInv, TypeOK, SoloInv, BurnsItsOwn
  <2>2. Open' = Open
    BY <1>1, <2>1 DEF Open, OpenBurn, Recorded, Only
  <2> QED BY <2>1, <2>2, PromiseSame DEF Delivered
<1>4. ASSUME Submit(t) PROVE UNCHANGED Promise!vars
  <2>1. /\ pc[t] = "burning" /\ burn[req[t]] = "none"
        /\ burn' = [burn EXCEPT ![req[t]] = "submitted"]
        /\ UNCHANGED <<pc, want, req, cursor, legacy, relay, orphans>>
    BY <1>4 DEF Submit, local, storage
  <2>2. \A s \in Requests : burn'[s] = "burned" <=> burn[s] = "burned"
    BY <2>1 DEF IInv, TypeOK
  <2>3. Open' = Open
    BY <1>1, <2>1, <2>2 DEF Open, OpenBurn, Recorded
  <2> QED BY <2>1, <2>3, PromiseSame DEF Delivered
<1>5. ASSUME BurnReturns(t) PROVE UNCHANGED Promise!vars
  <2>1. /\ pc[t] = "burning" /\ burn[req[t]] = "burned" /\ pc'[t] = "polling"
        /\ cursor' = Record(t)
        /\ UNCHANGED <<req, legacy, burn, relay, orphans>>
    BY <1>5 DEF BurnReturns, Goto, chain, Only, IInv, TypeOK
  <2>2. /\ req[t] \in Requests /\ req[t] \notin orphans
        /\ Record(t) \in Cursor /\ Record(t).request = req[t]
    BY <2>1 DEF Record, Cursor, IInv, QuotedForItsAccount, RunsForAnAccount,
                SoloInv, BurnsItsOwn, Only
  <2>3. \A r : Recorded(r)' <=> r = req[t]
    BY <1>1, <2>1, <2>2, FundingAssumption DEF Recorded, NotCursors
  <2>4. Open = {req[t]}
    BY <2>1, OpenWhileBurning
  <2>5. Open' = {req[t]}
    BY <1>1, <2>1, <2>2, <2>3 DEF Open, OpenBurn, Only
  <2> QED BY <2>1, <2>4, <2>5, PromiseSame DEF Delivered
<1>6. ASSUME BurnInterrupted(t) PROVE [Promise!Next]_(Promise!vars)
  <2>1. /\ pc[t] = "burning" /\ pc'[t] = "idle"
        /\ orphans' = IF Sent(req[t]) THEN orphans \cup {req[t]} ELSE orphans
        /\ UNCHANGED <<cursor, legacy, burn, relay>>
    BY <1>6 DEF BurnInterrupted, Goto, storage, chain, Only, IInv, TypeOK
  <2>2. /\ req[t] \in Requests /\ req[t] \notin orphans
        /\ Open = IF burn[req[t]] = "burned" THEN {req[t]} ELSE {}
        /\ \A r : ~Recorded(r)
    BY <2>1, OpenWhileBurning DEF IInv, QuotedForItsAccount, SoloInv,
                                  BurnsItsOwn, Only
  <2>3. Open' = {} /\ Delivered' = Delivered
    BY <1>1, <2>1, <2>2 DEF Open, OpenBurn, Recorded, Only, Delivered
  <2>4. CASE Sent(req[t])
    BY <2>1, <2>2, <2>3, <2>4 DEF Promise!Next, Promise!Lose, Open, Delivered
  <2>5. CASE ~Sent(req[t])
    BY <2>1, <2>2, <2>3, <2>5, PromiseSame DEF Sent
  <2> QED BY <2>4, <2>5
<1>7. ASSUME PollSuccess(t) PROVE Promise!Next
  <2>1. /\ pc[t] = "polling" /\ relay[req[t]] = "success" /\ req[t] \in Requests
        /\ pc'[t] = "idle" /\ cursor' = None
        /\ UNCHANGED <<legacy, burn, relay, orphans>>
    BY <1>7 DEF PollSuccess, Goto, chain, Only, IInv, TypeOK, RunsForAnAccount
  <2>2. /\ cursor = Record(t) /\ Record(t).request = req[t]
    BY <2>1 DEF SoloInv, StorageFollows, Record
  <2>3. /\ \A r : Recorded(r) => r = req[t]
        /\ \A r : ~Recorded(r)'
    BY <1>1, <2>1, <2>2, FundingAssumption DEF Recorded, NotCursors
  <2>4. Open' = {} /\ Open \subseteq {req[t]} /\ Delivered' = Delivered
        /\ req[t] \in Delivered
    BY <1>1, <2>1, <2>3 DEF Open, OpenBurn, Only, Delivered
  <2>5. Open' = Open \ {req[t]}
    BY <2>4
  <2> QED BY <2>1, <2>4, <2>5 DEF Promise!Next, Promise!Close, Open, Delivered
<1> QED BY <1>2, <1>3, <1>4, <1>5, <1>6, <1>7 DEF Run

\* With one tab the transport keeps its promise: one open burn at a time,
\* closed by its delivery or lost before its record was written.
THEOREM PromiseKept ==
  ASSUME NEW t, Only(t)
  PROVE  Spec => KeepsPromise
<1>1. Init => Promise!Init
  BY PromiseInit
<1>2. IInv /\ SoloInv(t) /\ [Next]_vars => [Promise!Next]_(Promise!vars)
  <2> SUFFICES ASSUME IInv, SoloInv(t), [Next]_vars
               PROVE  [Promise!Next]_(Promise!vars)
    OBVIOUS
  <2>1. CASE UNCHANGED vars
    <3>1. Open' = Open /\ Delivered' = Delivered /\ orphans' = orphans
      BY <2>1 DEF vars, Open, OpenBurn, Recorded, Delivered, Sent
    <3> QED BY <3>1, PromiseSame
  <2> QED BY <2>1, PromiseCall, PromiseDrop, PromiseRun, PromiseEnvironment
          DEF Next, Only
<1> QED BY <1>1, <1>2, SoloInvariance, PTL DEF Spec, KeepsPromise, Promise!Spec

-----------------------------------------------------------------------------
(***************************************************************************)
(* Deposits.  For every number of calls and transfers and every balance,   *)
(* what a deposit brings rests before it may be used, and the rest that is *)
(* shown is the one that is saved.                                         *)
(***************************************************************************)
RestInv == DepositTypeOK /\ RestIsSaved

At == {"idle", "preparing", "quoting", "looking", "polling", "moving", "minting",
       "paying", "reconciling", "rereading", "checking", "spending", "spent"}

Job == [kind : Kinds \cup {NoTransfer}, before : Int, tx : Transfers \cup {NoTransfer}]

-----------------------------------------------------------------------------
\* What a call ends with.
LEMMA EndTypes ==
  ASSUME DepositTypeOK, NEW c \in Calls, End(c)
  PROVE  at' \in [Calls -> At] /\ job' \in [Calls -> Job] /\ stage' = "idle"
<1>1. /\ at' = [at EXCEPT ![c] = "idle"] /\ job' = [job EXCEPT ![c] = NoJob]
      /\ at \in [Calls -> At] /\ job \in [Calls -> Job] /\ stage' = "idle"
  BY DEF End, Waits, DepositTypeOK, At, Job
<1>2. NoJob \in Job /\ "idle" \in At
  BY DEF NoJob, Job, At
<1> QED BY <1>1, <1>2

LEMMA ReconcileTypes ==
  ASSUME DepositTypeOK, RestIsSaved, NEW c \in Calls, Reconcile(c)
  PROVE  shown' \in Int /\ resting' \in Nat /\ saved' \in Nat /\ RestIsSaved'
<1>1. pool \in Nat /\ job[c].before \in Int /\ saved \in Nat /\ resting \in Nat
  BY DEF DepositTypeOK
<1> DEFINE new == pool - job[c].before
<1>2. new \in Int
  BY <1>1
<1>3. /\ shown' = pool
      /\ \/ new > 0 /\ resting' = saved + new /\ saved' = saved + new
         \/ resting' = resting /\ saved' = saved
  BY DEF Reconcile
<1> HIDE DEF new
<1> QED BY <1>1, <1>2, <1>3 DEF RestIsSaved

-----------------------------------------------------------------------------
LEMMA RestInit == DepositInit => RestInv
<1> SUFFICES ASSUME DepositInit PROVE RestInv
  OBVIOUS
<1>1. DepositTypeOK
  <2>1. at \in [Calls -> At] /\ job \in [Calls -> Job]
    BY DEF DepositInit, At, Job, NoJob
  <2>2. tx \in [Transfers -> {"unused", "sent", "mined", "filled", "dropped"}]
    BY DEF DepositInit
  <2>3. saved \in Nat /\ pool \in Nat
    BY DepositAssumption DEF DepositInit
  <2>4. /\ a1 \in Nat /\ cctp \in Nat /\ residual \in Nat
        /\ stage \in {"idle", "identity"}
        /\ shown \in Int /\ pending \in Nat /\ resting \in Nat
        /\ tracked \in Transfers \cup {NoTransfer}
    BY DEF DepositInit
  <2>5. paying \in BOOLEAN /\ known \in BOOLEAN
    BY Zenon DEF DepositInit
  <2> QED BY <2>1, <2>2, <2>3, <2>4, <2>5 DEF DepositTypeOK, At, Job
<1> QED BY <1>1 DEF DepositInit, RestInv, RestIsSaved

LEMMA ClickKeeps ==
  ASSUME RestInv, NEW c \in Calls, NEW kind \in Kinds, Click(c, kind)
  PROVE  RestInv'
<1> DEFINE j == [NoJob EXCEPT !.kind = kind, !.before = shown]
<1>1. PICK a \in At :
        at' = [at EXCEPT ![c] = a] /\ stage' \in {"idle", "identity"}
  BY DEF Click, Waits, First, Kinds, At, RestInv, DepositTypeOK
<1>2. /\ job' = [job EXCEPT ![c] = j] /\ at \in [Calls -> At] /\ job \in [Calls -> Job]
      /\ UNCHANGED <<money, known, shows, tracked>> /\ shown \in Int
  BY DEF Click, RestInv, DepositTypeOK, At, Job
<1>3. j \in Job
  BY <1>2 DEF Job, NoJob
<1> HIDE DEF j
<1>4. at' \in [Calls -> At] /\ job' \in [Calls -> Job]
  BY <1>1, <1>2, <1>3
<1> QED BY <1>1, <1>2, <1>4 DEF RestInv, DepositTypeOK, RestIsSaved, money, shows, At, Job

LEMMA SendKeeps ==
  ASSUME RestInv, NEW c \in Calls, NEW t \in Transfers, Send(c, t)
  PROVE  RestInv'
<1>1. /\ at[c] = "quoting" /\ at' = [at EXCEPT ![c] = "looking"] /\ job' = [job EXCEPT ![c].tx = t]
      /\ at \in [Calls -> At] /\ job \in [Calls -> Job]
      /\ tx' = [tx EXCEPT ![t] = "sent"] /\ tracked' = t
      /\ UNCHANGED <<a1, cctp, residual, paying, pool, stage, known, shows>>
  BY DEF Send, Waits, RestInv, DepositTypeOK, At, Job
<1>2. job' \in [Calls -> Job]
  BY <1>1 DEF Job
<1>3. at' \in [Calls -> At]
  BY <1>1 DEF At
<1>4. tx' \in [Transfers -> {"unused", "sent", "mined", "filled", "dropped"}]
  BY <1>1 DEF RestInv, DepositTypeOK
<1> QED BY <1>1, <1>2, <1>3, <1>4 DEF RestInv, DepositTypeOK, RestIsSaved, shows, At, Job

\* The steps that leave the job of the call as it is, and the call at work.
GoesOn(c) ==
  \/ Prepare(c) \/ Broadcasted(c) \/ Collect(c) \/ Burn(c) \/ SubmitToPool(c) \/ Moved(c)
  \/ Reread(c) /\ residual > 0
  \/ Spend(c)

LEMMA GoesOnKeeps ==
  ASSUME RestInv, NEW c \in Calls, GoesOn(c)
  PROVE  RestInv'
<1>1. residual \in Nat /\ UNCHANGED <<job, tx, shown, resting, saved, tracked, stage>>
  BY DEF GoesOn, Prepare, Broadcasted, Collect, Burn, SubmitToPool, Moved, Reread, Spend, End,
         RestInv, DepositTypeOK, money, shows
<1>2. PICK a \in At : Waits(c, a)
  BY <1>1 DEF GoesOn, Prepare, Broadcasted, Collect, Burn, SubmitToPool, Moved, Reread, Spend,
              First, At
<1>3. at' \in [Calls -> At]
  BY <1>2 DEF Waits, RestInv, DepositTypeOK, At
<1>4. paying' \in BOOLEAN /\ known' \in BOOLEAN /\ pending' \in Nat
  BY DEF GoesOn, Prepare, Broadcasted, Collect, Burn, SubmitToPool, Moved, Reread, Spend,
         RestInv, DepositTypeOK, money, shows
<1>5. a1' \in Nat /\ cctp' \in Nat /\ residual' \in Nat /\ pool' \in Nat
  <2>1. a1 \in Nat /\ cctp \in Nat /\ residual \in Nat /\ pool \in Nat
    BY DEF RestInv, DepositTypeOK
  <2>2. CASE Burn(c)
    BY <2>1, <2>2 DEF Burn
  <2>3. CASE Spend(c)
    BY <2>1, <2>3 DEF Spend
  <2>4. CASE ~Burn(c) /\ ~Spend(c)
    BY <2>1, <2>4 DEF GoesOn, Prepare, Broadcasted, Collect, SubmitToPool, Moved, Reread, money
  <2> QED BY <2>2, <2>3, <2>4
<1> QED BY <1>1, <1>3, <1>4, <1>5 DEF RestInv, DepositTypeOK, RestIsSaved, At, Job

\* The steps with which a call is over.
IsOver(c) ==
  \/ NotFound(c) \/ DepositDone(c) \/ Ambiguous(c)
  \/ Reread(c) /\ residual = 0
  \/ Finished(c) \/ Spent(c) \/ Throw(c)

LEMMA IsOverKeeps ==
  ASSUME RestInv, NEW c \in Calls, IsOver(c)
  PROVE  RestInv'
<1>1. End(c) /\ UNCHANGED money
  BY DEF IsOver, NotFound, Forget, DepositDone, Ambiguous, Reread, Finished, Spent, Throw, End
<1>2. at' \in [Calls -> At] /\ job' \in [Calls -> Job] /\ stage' = "idle"
  BY <1>1, EndTypes DEF RestInv
<1>3. known' \in BOOLEAN /\ tracked' \in Transfers \cup {NoTransfer} /\ pending' \in Nat
  BY DEF IsOver, NotFound, Forget, DepositDone, Ambiguous, Reread, Finished, Spent, Throw,
         RestInv, DepositTypeOK, shows
<1>4. \/ Reconcile(c)
      \/ UNCHANGED <<resting, saved>> /\ shown' \in {shown, pool, shown - 1}
  BY DEF IsOver, NotFound, DepositDone, Ambiguous, Reread, Finished, Spent, Throw, shows
<1>5. shown' \in Int /\ resting' \in Nat /\ saved' \in Nat /\ RestIsSaved'
  <2>1. CASE Reconcile(c)
    BY <2>1, ReconcileTypes DEF RestInv
  <2>2. CASE UNCHANGED <<resting, saved>> /\ shown' \in {shown, pool, shown - 1}
    BY <2>2 DEF RestInv, DepositTypeOK, RestIsSaved
  <2> QED BY <1>4, <2>1, <2>2
<1> QED BY <1>1, <1>2, <1>3, <1>5 DEF RestInv, DepositTypeOK, money, At, Job

LEMMA StepKeeps ==
  ASSUME RestInv, NEW c \in Calls, Step(c)
  PROVE  RestInv'
<1>1. residual \in Nat
  BY DEF RestInv, DepositTypeOK
<1>2. Reread(c) => GoesOn(c) \/ IsOver(c)
  BY <1>1 DEF GoesOn, IsOver
<1> QED BY <1>2, ClickKeeps, SendKeeps, GoesOnKeeps, IsOverKeeps DEF Step, GoesOn, IsOver

\* The page without a call, and the world beside it.
LEMMA BesideKeeps ==
  ASSUME RestInv,
         \/ \E t \in Transfers : Outside(t)
         \/ Mint \/ Settle \/ TrackerGivesUp \/ Connect \/ RestEnds \/ UNCHANGED depositVars
  PROVE  RestInv'
<1>1. UNCHANGED <<at, job>>
  BY DEF Outside, Mine, DropTx, RelayPays, Mint, Settle, TrackerGivesUp, Connect, RestEnds, depositVars
<1>2. tx' \in [Transfers -> {"unused", "sent", "mined", "filled", "dropped"}]
  <2>1. tx \in [Transfers -> {"unused", "sent", "mined", "filled", "dropped"}]
    BY DEF RestInv, DepositTypeOK
  <2>2. tx' = tx \/ \E t \in Transfers, s \in {"mined", "filled", "dropped"} :
                      tx' = [tx EXCEPT ![t] = s]
    BY DEF Outside, Mine, DropTx, RelayPays, Mint, Settle, TrackerGivesUp, Connect, RestEnds,
           depositVars, money
  <2> QED BY <2>1, <2>2
<1>3. a1' \in Nat /\ cctp' \in Nat /\ residual' \in Nat /\ pool' \in Nat
  <2>1. a1 \in Nat /\ cctp \in Nat /\ residual \in Nat /\ pool \in Nat
    BY DEF RestInv, DepositTypeOK
  <2>2. CASE \E t \in Transfers : Outside(t)
    BY <2>1, <2>2 DEF Outside, Mine, DropTx, RelayPays
  <2>3. CASE Mint \/ Settle
    BY <2>1, <2>3 DEF Mint, Settle
  <2>4. CASE TrackerGivesUp \/ Connect \/ RestEnds \/ UNCHANGED depositVars
    BY <2>1, <2>4 DEF TrackerGivesUp, Connect, RestEnds, depositVars, money
  <2> QED BY <2>2, <2>3, <2>4
<1>4. /\ paying' \in BOOLEAN /\ known' \in BOOLEAN /\ stage' \in {"idle", "identity"}
      /\ tracked' \in Transfers \cup {NoTransfer}
  BY DEF Outside, Mine, DropTx, RelayPays, Mint, Settle, TrackerGivesUp, Forget, Connect, RestEnds,
         depositVars, money, RestInv, DepositTypeOK
<1>5. /\ shown' \in Int /\ pending' \in Nat /\ resting' \in Nat /\ saved' \in Nat
      /\ RestIsSaved'
  BY DEF Outside, Mine, DropTx, RelayPays, Mint, Settle, TrackerGivesUp, Connect, RestEnds,
         depositVars, shows, RestInv, DepositTypeOK, RestIsSaved
<1>6. DepositTypeOK'
  BY <1>1, <1>2, <1>3, <1>4, <1>5 DEF RestInv, DepositTypeOK
<1> QED BY <1>5, <1>6 DEF RestInv

LEMMA ReloadKeeps ==
  ASSUME RestInv, Reload
  PROVE  RestInv'
<1>1. at' \in [Calls -> At] /\ job' \in [Calls -> Job]
  BY DEF Reload, At, Job, NoJob
<1>2. DepositTypeOK'
  <2>1. /\ stage' \in {"idle", "identity"}
        /\ shown' \in Int /\ pending' \in Nat /\ resting' \in Nat
    BY DEF Reload
  <2>2. UNCHANGED <<tx, a1, cctp, residual, paying, pool, saved, tracked>>
    BY DEF Reload, money
  <2>3. known' \in BOOLEAN
    BY Zenon DEF Reload
  <2> QED BY <1>1, <2>1, <2>2, <2>3 DEF RestInv, DepositTypeOK, At, Job
<1> QED BY <1>2 DEF Reload, RestInv, RestIsSaved

LEMMA RestStep == RestInv /\ [DepositNext]_depositVars => RestInv'
BY StepKeeps, BesideKeeps, ReloadKeeps DEF DepositNext

LEMMA RestInvariant == DepositSpec => []RestInv
BY RestInit, RestStep, PTL DEF DepositSpec

\* deposit, finishPendingDeposit, withdraw and the funding of a position: every
\* figure of the page and of the money keeps its form; none of the balances that
\* are subtracted from becomes negative.
THEOREM DepositTypeCorrect == DepositSpec => []DepositTypeOK
<1>1. RestInv => DepositTypeOK
  BY DEF RestInv
<1> QED BY <1>1, RestInvariant, PTL

\* reconcileCompletedDeposit, connectEvmWallet and the interval that ends a rest:
\* the rest that is shown is the one in localStorage.
THEOREM RestSurvives == DepositSpec => []RestIsSaved
<1>1. RestInv => RestIsSaved
  BY DEF RestInv
<1> QED BY <1>1, RestInvariant, PTL

-----------------------------------------------------------------------------
\* reconcileCompletedDeposit and its callers: however a deposit ends, with an
\* ambiguous answer too, and whatever ran beside it, it makes no more of the balance
\* available than was before.
THEOREM DepositsRest == DepositSpec => RestCoversDeposit
<1>1. ASSUME RestInv, [DepositNext]_depositVars, NEW c \in Calls,
             at[c] \in {"reconciling", "checking", "minting", "paying"}, at'[c] = "idle",
             known, shown >= job[c].before
      PROVE  Available' <= Available
  <2>1. /\ shown \in Int /\ resting \in Nat /\ saved \in Nat /\ pool \in Nat
        /\ job[c].before \in Int /\ resting \in {0, saved}
        /\ at \in [Calls -> At]
    BY <1>1 DEF RestInv, DepositTypeOK, RestIsSaved, At
  <2>2. \/ Reconcile(c)
        \/ UNCHANGED <<shown, resting>>
        \/ shown' = 0 /\ resting' = 0
    <3>1. CASE Reload
      BY <3>1 DEF Reload
    <3>2. ASSUME NEW d \in Calls, Step(d) PROVE Reconcile(c) \/ UNCHANGED <<shown, resting>>
      <4>1. CASE d # c
        <5>1. \E a \in At : at' = [at EXCEPT ![d] = a]
          BY <3>2 DEF Step, Click, Prepare, Send, Broadcasted, NotFound, Collect, Burn, SubmitToPool,
                      Moved, DepositDone, Ambiguous, Reread, Finished, Spend, Spent, Throw, End,
                      Waits, First, Kinds, At
        <5> QED BY <1>1, <2>1, <4>1, <5>1
      <4>2. CASE d = c
        BY <1>1, <3>2, <4>2
           DEF Step, Click, Prepare, Send, Broadcasted, NotFound, Collect, Burn, SubmitToPool,
               Moved, DepositDone, Ambiguous, Reread, Finished, Spend, Spent, Throw, shows
      <4> QED BY <4>1, <4>2
    <3>3. CASE \/ \E t \in Transfers : Outside(t)
               \/ Mint \/ Settle \/ TrackerGivesUp \/ Connect \/ RestEnds \/ UNCHANGED depositVars
      BY <1>1, <3>3 DEF Outside, Mine, DropTx, RelayPays, Mint, Settle, TrackerGivesUp, Connect,
                        RestEnds, depositVars
    <3> QED BY <1>1, <3>1, <3>2, <3>3 DEF DepositNext
  <2>3. CASE Reconcile(c)
    <3> DEFINE new == pool - job[c].before
    <3>1. new \in Int /\ pool = job[c].before + new
      BY <2>1
    <3>2. /\ shown' = pool
          /\ \/ new > 0 /\ resting' = saved + new
             \/ ~(new > 0) /\ resting' = resting
      BY <2>3 DEF Reconcile
    <3> HIDE DEF new
    <3> QED BY <1>1, <2>1, <3>1, <3>2 DEF Available
  <2>4. CASE UNCHANGED <<shown, resting>>
    BY <2>1, <2>4 DEF Available
  <2>5. CASE shown' = 0 /\ resting' = 0
    BY <2>1, <2>5 DEF Available
  <2> QED BY <2>2, <2>3, <2>4, <2>5
<1>2. RestInv /\ [DepositNext]_depositVars =>
        [\A c \in Calls :
           /\ at[c] \in {"reconciling", "checking", "minting", "paying"}
           /\ at'[c] = "idle"
           /\ known
           /\ shown >= job[c].before
           => Available' <= Available]_depositVars
  BY <1>1
<1> QED BY <1>2, RestInvariant, PTL DEF DepositSpec, RestCoversDeposit
=============================================================================
