--------------------------- MODULE RecoveryProofs ---------------------------
(***************************************************************************)
(* What the recovery of positions from the chain guarantees: the flows of  *)
(* the page around it (Workspace) and the log scan itself (PositionScan).  *)
(***************************************************************************)
EXTENDS Workspace, PositionScan, FiniteSetTheorems, WellFoundedInduction, TLAPS

-----------------------------------------------------------------------------
(***************************************************************************)
(* The flows of the page, for every number of positions: the wallet is     *)
(* asked once at a time, and a scan leaves the records alone that a return *)
(* works on.                                                               *)
(***************************************************************************)
Stages == {"idle", "prepare", "signing", "derive", "balances", "scanning",
           "stopping", "reading", "funding", "waiting", "acting", "returning",
           "failing", "timer"}

MaybeAccount == Accounts \cup {None}

Local == [at: Stages, op: {"none", "buy", "sell", "back"}, pos: Positions \cup {None},
          index: MaybeAccount, seen: MaybeAccount, on: MaybeAccount]

SharedTypes ==
  /\ {sig, asking, connected, busy, live} \subseteq BOOLEAN
  /\ {session, identity} \subseteq MaybeAccount
  /\ status \in [Positions -> Statuses]
  /\ acct \in [Positions -> Accounts]
  /\ saved \subseteq Positions /\ bought \subseteq Positions

\* The wallet shows the request that asking stands for, and no other.
PromptInv == prompts = IF asking THEN 1 ELSE 0

\* The user's flow has a position, and a call that moves money an account.
UserInOrder(c) ==
  /\ c.at # "idle" => c.pos \in Positions /\ c.op # "none"
  /\ c.at \in {"funding", "acting"} => c.on \in Accounts

\* A buy that has not written its record.
Unrecorded(c) == c.op = "buy" /\ c.at \in {"prepare", "signing", "derive", "reading"}

\* A return that runs, and for which position.
Returning(f, c) ==
  (f \in Positions \/ (f = "user" /\ c.op = "back")) /\ c.at \notin {"idle", "timer"}

For(f, c) == IF f \in Positions THEN f ELSE c.pos

\* Only a return waits for the scan to stop.
StopInOrder(f, c) == c.at = "stopping" => Returning(f, c)

\* Records are of saved positions, and so are the automatic returns; the position
\* of a new buy is not; and a scan is current only while no return runs on a record.
RecordInv ==
  /\ \A p \in Positions : status[p] # "none" => p \in saved
  /\ \A p \in Positions : At(p) # "idle" => p \in saved
  /\ Unrecorded(flow["user"]) => flow["user"].pos \notin saved \cup bought
  /\ live => \A f \in Flows : Returning(f, flow[f]) => status[For(f, flow[f])] = "none"

PageInv ==
  /\ SharedTypes /\ PromptInv
  /\ flow \in [Flows -> Local]
  /\ UserInOrder(flow["user"])
  /\ \A f \in Flows : StopInOrder(f, flow[f])
  /\ RecordInv

\* No record comes or goes.
SameRecords == \A p \in Positions : status'[p] = "none" <=> status[p] = "none"

-----------------------------------------------------------------------------
\* The steps of one flow f, whose record becomes c, while no record comes or goes.
LEMMA OneFlow ==
  ASSUME PageInv, NEW f \in Flows, NEW c \in Local, flow' = [flow EXCEPT ![f] = c],
         SharedTypes', PromptInv', SameRecords, saved' = saved,
         f = "user" => UserInOrder(c) /\ (Unrecorded(c) => c.pos \notin saved \cup bought'),
         f # "user" => bought' = bought,
         f \in Positions /\ c.at # "idle" => f \in saved,
         StopInOrder(f, c),
         live' => /\ live
                  /\ Returning(f, c) => /\ Returning(f, flow[f])
                                        /\ For(f, c) = For(f, flow[f])
  PROVE  PageInv'
<1>1. "user" \in Flows /\ Positions \subseteq Flows /\ "user" \notin Positions
  BY WorkspaceAssumption DEF Flows
<1>2. flow \in [Flows -> Local] /\ flow' \in [Flows -> Local]
  BY DEF PageInv
<1>3. /\ flow'[f] = c
      /\ \A g \in Flows : g # f => flow'[g] = flow[g]
  BY <1>2
<1>4. UserInOrder(flow'["user"])
  BY <1>1, <1>3 DEF PageInv
<1>5. \A p \in Positions : status'[p] # "none" => p \in saved'
  BY DEF PageInv, RecordInv, SameRecords
<1>6. ASSUME NEW p \in Positions, At(p)' # "idle" PROVE p \in saved'
  <2>1. CASE p = f
    BY <1>1, <1>3, <1>6, <2>1 DEF At
  <2>2. CASE p # f
    BY <1>1, <1>3, <1>6, <2>2 DEF At, PageInv, RecordInv
  <2> QED BY <2>1, <2>2
<1>7. Unrecorded(flow'["user"]) => flow'["user"].pos \notin saved' \cup bought'
  <2>1. CASE f = "user"
    BY <1>3, <2>1
  <2>2. CASE f # "user"
    BY <1>1, <1>3, <2>2 DEF PageInv, RecordInv
  <2> QED BY <2>1, <2>2
<1>8. ASSUME live', NEW g \in Flows, Returning(g, flow'[g])
      PROVE  status'[For(g, flow'[g])] = "none"
  <2>1. Returning(g, flow[g]) /\ For(g, flow'[g]) = For(g, flow[g])
    BY <1>3, <1>8
  <2>2. status[For(g, flow[g])] = "none"
    BY <1>8, <2>1 DEF PageInv, RecordInv
  <2>3. For(g, flow[g]) \in Positions
    BY <2>1 DEF For, Returning, PageInv, UserInOrder
  <2> QED BY <2>1, <2>2, <2>3 DEF SameRecords
<1>9. RecordInv'
  BY <1>5, <1>6, <1>7, <1>8 DEF RecordInv
<1>10. \A g \in Flows : StopInOrder(g, flow'[g])
  BY <1>3 DEF PageInv
<1> QED BY <1>2, <1>4, <1>9, <1>10 DEF PageInv

\* patchPosition
LEMMA PatchKeeps ==
  ASSUME SharedTypes, NEW p, NEW s \in Statuses \ {"none"}, Patch(p, s)
  PROVE  status' \in [Positions -> Statuses] /\ SameRecords
<1>1. status' \in [Positions -> Statuses]
  BY DEF Patch, SharedTypes
<1>2. ASSUME NEW q \in Positions PROVE status'[q] = "none" <=> status[q] = "none"
  BY DEF Patch, SharedTypes
<1> QED BY <1>1, <1>2 DEF SameRecords

\* The flows of the page are typed, and the user's is in order.
LEMMA FlowFacts ==
  ASSUME PageInv, NEW f \in Flows
  PROVE  /\ flow \in [Flows -> Local] /\ flow[f] \in Local
         /\ f = "user" => UserInOrder(flow[f])
         /\ "user" \notin Positions /\ Positions \subseteq Flows
         /\ f \in Positions /\ At(f) # "idle" => f \in saved
         /\ f = "user" /\ Unrecorded(flow[f]) => flow[f].pos \notin saved \cup bought
  BY WorkspaceAssumption DEF PageInv, RecordInv, Flows, At

\* A flow that runs on: it stays at work for what it was at work for, and the
\* user's purchase is not further back than it was.
LEMMA RunsOn ==
  ASSUME PageInv, NEW f \in Flows, NEW c \in Local, flow' = [flow EXCEPT ![f] = c],
         At(f) \notin {"idle", "timer"}, c.pos = flow[f].pos, c.op = flow[f].op,
         f = "user" => (c.at \in {"funding", "acting"} => c.on \in Accounts),
         f = "user" /\ Unrecorded(c) => Unrecorded(flow[f]), c.at # "stopping",
         SharedTypes', PromptInv', SameRecords,
         saved' = saved, bought' = bought, live' => live
  PROVE  PageInv'
<1>1. f = "user" => UserInOrder(c)
  BY FlowFacts DEF UserInOrder, At
<1>2. f = "user" => (Unrecorded(c) => c.pos \notin saved \cup bought')
  BY FlowFacts
<1>3. f \in Positions /\ c.at # "idle" => f \in saved
  BY FlowFacts
<1>4. Returning(f, c) => Returning(f, flow[f]) /\ For(f, c) = For(f, flow[f])
  BY DEF Returning, For, At
<1>5. StopInOrder(f, c)
  BY DEF StopInOrder
<1> QED BY <1>1, <1>2, <1>3, <1>4, <1>5, OneFlow

\* The flow f goes on to a stage, or fails; with an account if it goes on.
GoesTo(f, stage) ==
  \E c \in Local : /\ flow' = [flow EXCEPT ![f] = c]
                   /\ c.pos = flow[f].pos /\ c.op = flow[f].op
                   /\ c.at \in {stage, "failing"}
                   /\ c.at # "failing" => c.on \in Accounts

\* A call of the runtime is made, or fails for want of a session.
LEMMA CallMoves ==
  ASSUME PageInv, NEW f \in Flows, NEW stage \in Stages, NEW t \in MaybeAccount,
         Call(f, stage, t)
  PROVE  GoesTo(f, stage)
<1>1. flow \in [Flows -> Local] /\ flow[f] \in Local
  BY FlowFacts
<1>2. CASE sig /\ t # None
  <2> DEFINE c == [flow[f] EXCEPT !.at = stage, !.on = t, !.index = None]
  <2>1. flow' = [flow EXCEPT ![f] = c]
    BY <1>1, <1>2 DEF Call
  <2>2. c \in Local /\ c.pos = flow[f].pos /\ c.op = flow[f].op /\ c.at = stage /\ c.on = t
    BY <1>1 DEF Local, MaybeAccount
  <2> HIDE DEF c
  <2> QED BY <1>2, <2>1, <2>2 DEF MaybeAccount, GoesTo
<1>3. CASE ~(sig /\ t # None)
  <2> DEFINE c == [flow[f] EXCEPT !.at = "failing"]
  <2>1. flow' = [flow EXCEPT ![f] = c]
    BY <1>1, <1>3 DEF Call
  <2>2. c \in Local /\ c.pos = flow[f].pos /\ c.op = flow[f].op /\ c.at = "failing"
    BY <1>1 DEF Local, Stages
  <2> HIDE DEF c
  <2> QED BY <2>1, <2>2 DEF GoesTo
<1> QED BY <1>2, <1>3

LEMMA CatchKeeps ==
  ASSUME PageInv, NEW f \in Flows, Catch(f), At(f) # "idle"
  PROVE  PageInv' /\ SameRecords
<1> DEFINE c == IF f \in Positions /\ Retrying
                THEN [Off EXCEPT !.at = "timer", !.seen = flow[f].seen] ELSE Off
<1>1. flow' = [flow EXCEPT ![f] = c]
  BY DEF Catch, End
<1>2. Off \in Local /\ c \in Local /\ (f = "user" => c = Off)
  <2>1. Off \in Local
    BY DEF Off, Local, Stages, MaybeAccount
  <2>2. flow[f].seen \in MaybeAccount
    BY FlowFacts DEF Local
  <2>3. [Off EXCEPT !.at = "timer", !.seen = flow[f].seen] \in Local
    BY <2>2 DEF Off, Local, Stages, MaybeAccount
  <2> QED BY <2>1, <2>3, FlowFacts
<1>3. status' \in [Positions -> Statuses] /\ SameRecords
  <2>1. CASE f \in {"connect", "scan"}
    <3>1. ~Returns(f)
      BY <2>1, WorkspaceAssumption DEF Returns
    <3>2. status' = status
      BY <2>1, <3>1 DEF Catch
    <3> QED BY <3>2 DEF SameRecords, PageInv, SharedTypes
  <2>2. CASE f \notin {"connect", "scan"} /\ Returns(f)
    <3>1. Patch(Pos(f), "return-failed")
      BY <2>2 DEF Catch
    <3> QED BY <3>1, PatchKeeps DEF PageInv, Statuses
  <2>3. CASE f \notin {"connect", "scan"} /\ ~Returns(f)
    <3>1. PICK s \in {"failed", "return-failed", "held"} : Patch(Pos(f), s)
      BY <2>3 DEF Catch
    <3> QED BY <3>1, PatchKeeps DEF PageInv, Statuses
  <2> QED BY <2>1, <2>2, <2>3
<1>4. /\ busy' \in {busy, FALSE} /\ live' = (live /\ f # "scan")
      /\ UNCHANGED <<runtime, identity, connected, acct, saved, bought>>
  BY DEF Catch
<1>5. SharedTypes' /\ PromptInv'
  BY <1>3, <1>4 DEF PageInv, SharedTypes, PromptInv, runtime
<1>6. /\ ~Returning(f, c) /\ StopInOrder(f, c)
      /\ f = "user" => UserInOrder(c) /\ ~Unrecorded(c)
  BY <1>2 DEF Returning, UserInOrder, Unrecorded, StopInOrder, Off
<1>7. f \in Positions => f \in saved
  BY FlowFacts
<1> QED BY <1>1, <1>2, <1>3, <1>4, <1>5, <1>6, <1>7, OneFlow

LEMMA AskKeeps ==
  ASSUME PageInv, NEW f \in Flows, Ask(f)
  PROVE  PageInv' /\ SameRecords
<1>1. PICK stage \in {"derive", "signing"} : flow' = [flow EXCEPT ![f].at = stage]
  BY DEF Ask, Goto
<1> DEFINE c == [flow[f] EXCEPT !.at = stage]
<1>2. At(f) = "prepare" /\ UNCHANGED <<sig, session, page, records, live>>
  BY DEF Ask
<1>3. /\ c \in Local /\ c.pos = flow[f].pos /\ c.op = flow[f].op /\ c.at = stage
      /\ flow' = [flow EXCEPT ![f] = c]
  BY <1>1, FlowFacts DEF Local, Stages
<1>4. asking' \in BOOLEAN /\ PromptInv'
  <2>1. CASE sig
    <3>1. asking' = asking /\ prompts' = prompts
      BY <2>1 DEF Ask
    <3> QED BY <3>1 DEF PageInv, PromptInv, SharedTypes
  <2>2. CASE ~sig
    <3>1. asking' = TRUE /\ prompts' = IF asking THEN prompts ELSE prompts + 1
      BY <2>2 DEF Ask
    <3>2. prompts' = 1
      BY <3>1 DEF PageInv, PromptInv
    <3> QED BY <3>1, <3>2 DEF PromptInv
  <2> QED BY <2>1, <2>2
<1>5. SameRecords /\ SharedTypes'
  BY <1>2, <1>4 DEF SameRecords, PageInv, SharedTypes, page, records
<1>6. Unrecorded(c) => Unrecorded(flow[f])
  BY <1>2, <1>3 DEF Unrecorded, At
<1> HIDE DEF c
<1> QED BY <1>2, <1>3, <1>4, <1>5, <1>6, RunsOn DEF records

LEMMA AnswerKeeps ==
  ASSUME PageInv, NEW stage \in {"derive", "failing"}, Answered(stage), sig' \in BOOLEAN
  PROVE  PageInv' /\ SameRecords
<1>1. /\ asking /\ asking' = FALSE /\ prompts' = prompts - 1
      /\ UNCHANGED <<session, page, records, live>>
      /\ flow' = [f \in Flows |-> IF At(f) = "signing"
                                THEN [flow[f] EXCEPT !.at = stage] ELSE flow[f]]
  BY DEF Answered
<1>2. SharedTypes' /\ SameRecords
  BY <1>1 DEF PageInv, SharedTypes, SameRecords, page, records
<1>3. PromptInv'
  BY <1>1 DEF PageInv, PromptInv
<1>4. ASSUME NEW f \in Flows
      PROVE  /\ flow'[f] \in Local
             /\ flow'[f].pos = flow[f].pos /\ flow'[f].op = flow[f].op
             /\ \/ flow'[f] = flow[f]
                \/ flow[f].at = "signing" /\ flow'[f].at = stage
  BY <1>1, FlowFacts DEF Local, Stages, At
<1>5. flow' \in [Flows -> Local]
  BY <1>1, <1>4
<1>6. "user" \in Flows /\ Positions \subseteq Flows
  BY DEF Flows
<1>7. UserInOrder(flow'["user"])
  BY <1>4, <1>6 DEF PageInv, UserInOrder
<1>8. Unrecorded(flow'["user"]) => Unrecorded(flow["user"])
  BY <1>4, <1>6 DEF Unrecorded
<1>9. \A p \in Positions : At(p)' # "idle" => At(p) # "idle"
  BY <1>4, <1>6 DEF At
<1>10. \A f \in Flows : Returning(f, flow'[f]) => /\ Returning(f, flow[f])
                                                 /\ For(f, flow'[f]) = For(f, flow[f])
  BY <1>4 DEF Returning, For
<1>11. status' = status /\ saved' = saved /\ bought' = bought /\ live' = live
  BY <1>1 DEF records
<1>12. RecordInv'
  BY <1>4, <1>6, <1>8, <1>9, <1>10, <1>11 DEF PageInv, RecordInv
<1>13. \A f \in Flows : StopInOrder(f, flow'[f])
  BY <1>4 DEF PageInv, StopInOrder, Returning
<1> QED BY <1>2, <1>3, <1>5, <1>7, <1>12, <1>13 DEF PageInv

\* A scan begins in the same turn as the connection that asks for it.
LEMMA DeriveKeeps ==
  ASSUME PageInv, NEW f \in Flows, Derive(f)
  PROVE  PageInv' /\ SameRecords
<1>1. /\ At(f) = "derive" /\ session' = flow[f].index /\ identity' = flow[f].index
      /\ UNCHANGED <<sig, asking, prompts, connected, saved, bought, acct>>
  BY DEF Derive
<1>2. flow[f].index \in MaybeAccount
  BY FlowFacts DEF Local
<1>3. PromptInv'
  BY <1>1 DEF PageInv, PromptInv
<1>4. ASSUME status' \in [Positions -> Statuses], busy' \in BOOLEAN, live' \in BOOLEAN
      PROVE  SharedTypes'
  BY <1>1, <1>2, <1>4 DEF PageInv, SharedTypes
<1>9. f \in {"connect", "scan"} => ~Returns(f)
  BY WorkspaceAssumption DEF Returns
<1>5. CASE f = "connect"
  <2>1. ScanIfEmpty /\ UNCHANGED <<busy, status>>
    BY <1>5, <1>9 DEF Derive
  <2>2. SameRecords /\ status' \in [Positions -> Statuses] /\ busy' \in BOOLEAN
    BY <2>1 DEF SameRecords, PageInv, SharedTypes
  <2> DEFINE starts == /\ Scanning /\ (\A p \in Positions : status[p] = "none")
                       /\ At("scan") \in {"idle", "scanning"}
             c == [flow["connect"] EXCEPT !.at = "balances"]
             d == [flow["scan"] EXCEPT !.at = "prepare", !.index = Root]
  <2>3. "connect" \in Flows /\ "scan" \in Flows /\ flow \in [Flows -> Local]
    BY FlowFacts DEF Flows
  <2>4. c \in Local /\ d \in Local
    BY <2>3 DEF Local, Stages, MaybeAccount, Accounts
  <2>5. CASE starts
    <3>1. /\ flow' = [flow EXCEPT !["connect"].at = "balances",
                                  !["scan"].at = "prepare", !["scan"].index = Root]
          /\ live' = TRUE
      BY <2>1, <2>5 DEF ScanIfEmpty
    <3>2. flow' \in [Flows -> Local]
      BY <2>3, <2>4, <3>1
    <3>3. \A g \in Flows : g \notin {"connect", "scan"} => flow'[g] = flow[g]
      BY <2>3, <3>1
    <3>4. /\ flow'["user"] = flow["user"]
          /\ \A p \in Positions : flow'[p] = flow[p]
      BY <3>3, WorkspaceAssumption DEF Flows
    <3>5. ASSUME NEW g \in Flows, Returning(g, flow'[g])
          PROVE  status'[For(g, flow'[g])] = "none"
      <4>1. For(g, flow'[g]) \in Positions
        BY <3>4, <3>5 DEF For, Returning, PageInv, UserInOrder
      <4> QED BY <2>1, <2>5, <4>1
    <3>6. RecordInv'
      BY <1>1, <2>1, <3>4, <3>5 DEF PageInv, RecordInv, At
    <3>7. UserInOrder(flow'["user"])
      BY <3>4 DEF PageInv
    <3>8. ASSUME NEW g \in Flows PROVE StopInOrder(g, flow'[g])
      <4>1. CASE g \in {"connect", "scan"}
        <5>1. flow'["connect"].at = "balances" /\ flow'["scan"].at = "prepare"
          BY <2>3, <3>1 DEF Local
        <5> QED BY <4>1, <5>1 DEF StopInOrder
      <4>2. CASE g \notin {"connect", "scan"}
        BY <3>3, <4>2 DEF PageInv
      <4> QED BY <4>1, <4>2
    <3> QED BY <1>3, <1>4, <2>2, <3>1, <3>2, <3>6, <3>7, <3>8 DEF PageInv
  <2>6. CASE ~starts
    <3>1. flow' = [flow EXCEPT !["connect"] = c] /\ live' = live
      BY <2>1, <2>3, <2>6 DEF ScanIfEmpty, Goto
    <3>2. SharedTypes'
      BY <1>4, <2>2, <3>1 DEF PageInv, SharedTypes
    <3>3. /\ c.pos = flow[f].pos /\ c.op = flow[f].op /\ c.at = "balances"
          /\ ~Unrecorded(c)
      BY <1>5, <2>3 DEF Local, Unrecorded
    <3> HIDE DEF c
    <3> QED BY <1>1, <1>3, <1>5, <2>2, <2>4, <3>1, <3>2, <3>3, RunsOn
  <2> QED BY <2>5, <2>6
<1>6. CASE f = "scan"
  <2> DEFINE c == [flow[f] EXCEPT !.at = IF sig THEN "scanning" ELSE "failing"]
  <2>1. flow' = [flow EXCEPT ![f] = c] /\ UNCHANGED <<busy, status, live>>
    BY <1>6, <1>9, FlowFacts DEF Derive, Goto
  <2>2. /\ c \in Local /\ c.pos = flow[f].pos /\ c.op = flow[f].op /\ ~Unrecorded(c)
        /\ c.at \in {"scanning", "failing"}
    BY FlowFacts DEF Local, Stages, Unrecorded
  <2>3. SameRecords /\ SharedTypes'
    BY <1>4, <2>1 DEF SameRecords, PageInv, SharedTypes
  <2> HIDE DEF c
  <2> QED BY <1>1, <1>3, <1>6, <2>1, <2>2, <2>3, RunsOn
<1>7. CASE f \notin {"connect", "scan"} /\ Returns(f)
  <2>1. /\ Patch(Pos(f), "returning") /\ busy' = TRUE /\ live' = live
        /\ Call(f, "returning", flow[f].index)
    BY <1>7 DEF Derive
  <2>2. status' \in [Positions -> Statuses] /\ SameRecords
    BY <2>1, PatchKeeps DEF PageInv, Statuses
  <2>3. SharedTypes'
    BY <1>4, <2>1, <2>2 DEF PageInv, SharedTypes
  <2>4. GoesTo(f, "returning")
    <3>1. "returning" \in Stages
      BY DEF Stages
    <3> QED BY <1>2, <2>1, <3>1, CallMoves
  <2>5. PICK c \in Local : /\ flow' = [flow EXCEPT ![f] = c]
                           /\ c.pos = flow[f].pos /\ c.op = flow[f].op
                           /\ c.at \in {"returning", "failing"}
    BY <2>4 DEF GoesTo
  <2>6. ~Unrecorded(c)
    BY <2>5 DEF Unrecorded
  <2> QED BY <1>1, <1>3, <2>1, <2>2, <2>3, <2>5, <2>6, RunsOn
<1>8. CASE f \notin {"connect", "scan"} /\ ~Returns(f)
  <2> DEFINE c == [flow[f] EXCEPT !.at = "reading"]
  <2>1. flow' = [flow EXCEPT ![f] = c] /\ UNCHANGED <<busy, status, live>>
    BY <1>8, FlowFacts DEF Derive, Goto
  <2>2. /\ c \in Local /\ c.pos = flow[f].pos /\ c.op = flow[f].op /\ c.at = "reading"
        /\ Unrecorded(c) => Unrecorded(flow[f])
    BY <1>1, FlowFacts DEF Local, Stages, Unrecorded, At
  <2>3. SameRecords /\ SharedTypes'
    BY <1>4, <2>1 DEF SameRecords, PageInv, SharedTypes
  <2> HIDE DEF c
  <2> QED BY <1>1, <1>3, <2>1, <2>2, <2>3, RunsOn
<1> QED BY <1>5, <1>6, <1>7, <1>8

\* The other steps of a flow that runs, and the steps of the user's.
LEMMA StoppedKeeps ==
  ASSUME PageInv, NEW f \in Flows, Stopped(f)
  PROVE  PageInv' /\ SameRecords
<1>1. /\ At(f) = "stopping" /\ busy' = TRUE
      /\ UNCHANGED <<runtime, identity, connected, acct, saved, bought, live>>
  BY DEF Stopped
<1>2. PromptInv'
  BY <1>1 DEF PageInv, PromptInv, runtime
<1>3. ASSUME status' \in [Positions -> Statuses] PROVE SharedTypes'
  BY <1>1, <1>3 DEF PageInv, SharedTypes, runtime
<1>4. CASE flow[f].seen = acct[Pos(f)]
  <2>1. Patch(Pos(f), "returning") /\ Call(f, "returning", session)
    BY <1>4 DEF Stopped
  <2>2. status' \in [Positions -> Statuses] /\ SameRecords
    BY <2>1, PatchKeeps DEF PageInv, Statuses
  <2>3. GoesTo(f, "returning")
    <3>1. "returning" \in Stages /\ session \in MaybeAccount
      BY DEF Stages, PageInv, SharedTypes
    <3> QED BY <2>1, <3>1, CallMoves
  <2>4. PICK c \in Local : /\ flow' = [flow EXCEPT ![f] = c]
                           /\ c.pos = flow[f].pos /\ c.op = flow[f].op
                           /\ c.at \in {"returning", "failing"}
    BY <2>3 DEF GoesTo
  <2>5. ~Unrecorded(c)
    BY <2>4 DEF Unrecorded
  <2> QED BY <1>1, <1>2, <1>3, <2>2, <2>4, <2>5, RunsOn
<1>5. CASE flow[f].seen # acct[Pos(f)]
  <2> DEFINE seen == IF f = "user" THEN None ELSE flow[f].seen
             c == [flow[f] EXCEPT !.at = "prepare", !.index = acct[Pos(f)],
                                  !.seen = seen]
  <2>1. Prepare(f, acct[Pos(f)]) /\ status' = status
    BY <1>5 DEF Stopped
  <2>2. flow' = [flow EXCEPT ![f] = c]
    BY <2>1, FlowFacts DEF Prepare
  <2>3. Returning(f, flow[f])
    BY <1>1 DEF PageInv, StopInOrder, At
  <2>4. acct[Pos(f)] \in MaybeAccount
    <3>1. Pos(f) \in Positions
      BY <1>1, <2>3 DEF Pos, Returning, At, PageInv, UserInOrder
    <3> QED BY <3>1 DEF PageInv, SharedTypes, MaybeAccount
  <2>5. /\ c \in Local /\ c.pos = flow[f].pos /\ c.op = flow[f].op /\ c.at = "prepare"
    <3>1. seen \in MaybeAccount
      BY FlowFacts DEF Local, MaybeAccount
    <3> DEFINE index == acct[Pos(f)]
    <3>2. flow[f] \in Local /\ index \in MaybeAccount
      BY <2>4, FlowFacts
    <3> HIDE DEF seen, index
    <3>3. [flow[f] EXCEPT !.at = "prepare", !.index = index, !.seen = seen] \in Local
      BY <3>1, <3>2 DEF Local, Stages
    <3>4. \A x : LET d == [flow[f] EXCEPT !.at = "prepare", !.index = x, !.seen = seen]
                 IN  d.pos = flow[f].pos /\ d.op = flow[f].op /\ d.at = "prepare"
      BY <3>2 DEF Local
    <3> QED BY <3>3, <3>4 DEF index
  <2>6. f = "user" => ~Unrecorded(c)
    BY <2>3, <2>5, FlowFacts DEF Unrecorded, Returning
  <2>7. SameRecords /\ SharedTypes'
    BY <1>3, <2>1 DEF SameRecords, PageInv, SharedTypes
  <2> HIDE DEF c
  <2> QED BY <1>1, <1>2, <2>2, <2>5, <2>6, <2>7, RunsOn
<1> QED BY <1>4, <1>5

\* A flow that ends.
LEMMA EndKeeps ==
  ASSUME PageInv, NEW f \in Flows, End(f), SharedTypes', PromptInv', SameRecords,
         saved' = saved, f # "user" => bought' = bought, live' => live
  PROVE  PageInv'
<1>1. Off \in Local
  BY DEF Off, Local, Stages, MaybeAccount
<1>2. /\ UserInOrder(Off) /\ ~Unrecorded(Off) /\ StopInOrder(f, Off)
      /\ ~Returning(f, Off) /\ Off.at = "idle"
  BY DEF Off, UserInOrder, Unrecorded, StopInOrder, Returning
<1>3. flow' = [flow EXCEPT ![f] = Off]
  BY DEF End
<1> HIDE DEF Off
<1> QED BY <1>1, <1>2, <1>3, OneFlow

LEMMA ReturnedKeeps ==
  ASSUME PageInv, NEW f \in Flows, Returned(f)
  PROVE  PageInv' /\ SameRecords
<1>1. /\ Patch(Pos(f), "closed") /\ End(f) /\ busy' = FALSE
      /\ UNCHANGED <<runtime, identity, connected, acct, saved, bought, live>>
  BY DEF Returned
<1>2. status' \in [Positions -> Statuses] /\ SameRecords
  BY <1>1, PatchKeeps DEF PageInv, Statuses
<1>3. SharedTypes' /\ PromptInv'
  BY <1>1, <1>2 DEF PageInv, SharedTypes, PromptInv, runtime
<1> QED BY <1>1, <1>2, <1>3, EndKeeps

\* The connection starts returns of saved positions only, and stops the scan.
LEMMA ConnectedKeeps ==
  ASSUME PageInv, Connected
  PROVE  PageInv' /\ SameRecords
<1> DEFINE due == {p \in Unreturned : At(p) \in {"idle", "timer"}}
           ends == [Off EXCEPT !.at = "stopping", !.seen = flow["connect"].seen]
<1>1. /\ flow' = [f \in Flows |-> IF f = "connect" THEN Off
                                  ELSE IF f \in due THEN ends ELSE flow[f]]
      /\ live' = (live /\ due = {}) /\ connected' = TRUE
      /\ UNCHANGED <<runtime, identity, busy, records>>
  BY DEF Connected
<1>2. /\ "connect" \in Flows /\ "user" \in Flows /\ due \subseteq Positions
      /\ Positions \subseteq Flows /\ Positions \cap {"user", "connect"} = {}
  BY WorkspaceAssumption DEF Flows, Unreturned
<1>3. Off \in Local /\ ends \in Local /\ Off.at = "idle" /\ ends.at = "stopping"
  <2>1. Off \in Local
    BY DEF Off, Local, Stages, MaybeAccount
  <2>2. flow["connect"].seen \in MaybeAccount
    BY <1>2, FlowFacts DEF Local
  <2> QED BY <2>1, <2>2 DEF Off, Local, Stages, MaybeAccount
<1>4. \A p \in due : p \in saved
  <2>1. \A p \in due : p \in Positions /\ status[p] # "none"
    BY DEF Unreturned
  <2> QED BY <2>1 DEF PageInv, RecordInv
<1> HIDE DEF due, ends
<1>5. /\ flow' \in [Flows -> Local] /\ flow'["user"] = flow["user"]
      /\ flow'["connect"] = Off
      /\ \A f \in due : flow'[f] = ends
      /\ \A f \in Flows : f # "connect" /\ f \notin due => flow'[f] = flow[f]
  BY <1>1, <1>2, <1>3, FlowFacts
<1>6. SharedTypes' /\ PromptInv' /\ SameRecords
  BY <1>1 DEF PageInv, SharedTypes, PromptInv, SameRecords, runtime, records
<1>7. \A f \in Flows : StopInOrder(f, flow'[f])
  <2> TAKE f \in Flows
  <2>1. CASE f = "connect"
    BY <1>3, <1>5, <2>1 DEF StopInOrder
  <2>2. CASE f \in due
    BY <1>2, <1>3, <1>5, <2>2 DEF StopInOrder, Returning
  <2>3. CASE f # "connect" /\ f \notin due
    BY <1>5, <2>3 DEF PageInv
  <2> QED BY <2>1, <2>2, <2>3
<1>8. \A p \in Positions : At(p)' # "idle" => p \in saved'
  <2>1. saved' = saved
    BY <1>1 DEF records
  <2> QED BY <1>2, <1>4, <1>5, <2>1 DEF At, PageInv, RecordInv
<1>9. ASSUME live', NEW f \in Flows, Returning(f, flow'[f])
      PROVE  status'[For(f, flow'[f])] = "none"
  <2>1. live /\ due = {} /\ status' = status
    BY <1>1, <1>9 DEF records
  <2>2. f # "connect"
    BY <1>3, <1>5, <1>9 DEF Returning
  <2>3. flow'[f] = flow[f]
    BY <1>5, <2>1, <2>2
  <2> QED BY <1>9, <2>1, <2>3 DEF PageInv, RecordInv
<1>10. RecordInv'
  BY <1>1, <1>5, <1>8, <1>9 DEF PageInv, RecordInv, records
<1>11. UserInOrder(flow'["user"])
  BY <1>5 DEF PageInv
<1> QED BY <1>5, <1>6, <1>7, <1>10, <1>11 DEF PageInv

\* What a scan finds it saves only if no return has stopped it.
LEMMA ScannedKeeps ==
  ASSUME PageInv, Scanned
  PROVE  PageInv' /\ (~live => SameRecords)
<1>1. /\ End("scan") /\ live' = FALSE /\ UNCHANGED <<runtime, page, bought>>
  BY DEF Scanned
<1>2. PromptInv' /\ UNCHANGED <<sig, session, asking, identity, connected, busy>>
  BY <1>1 DEF PageInv, PromptInv, runtime, page
<1>3. CASE ~live
  <2>1. UNCHANGED <<status, acct, saved>>
    BY <1>3 DEF Scanned
  <2>2. SharedTypes' /\ SameRecords
    BY <1>1, <1>2, <2>1 DEF PageInv, SharedTypes, SameRecords
  <2>3. "scan" \in Flows
    BY DEF Flows
  <2> QED BY <1>1, <1>2, <2>1, <2>2, <2>3, EndKeeps
<1>4. CASE live
  <2>1. PICK kept \in SUBSET bought :
          /\ status' = [p \in Positions |-> IF p \in kept THEN "held" ELSE "none"]
          /\ acct' = [p \in Positions |-> p]
          /\ saved' = saved \cup kept
    BY <1>4 DEF Scanned
  <2>2. SharedTypes'
    BY <1>1, <1>2, <2>1 DEF PageInv, SharedTypes, Statuses, Accounts
  <2>3. "scan" \in Flows /\ "user" \in Flows /\ Positions \subseteq Flows
        /\ "scan" \notin Positions
    BY WorkspaceAssumption DEF Flows
  <2>4. Off \in Local /\ Off.at = "idle"
    BY DEF Off, Local, Stages, MaybeAccount
  <2>5. /\ flow' = [flow EXCEPT !["scan"] = Off] /\ flow' \in [Flows -> Local]
        /\ flow'["scan"] = Off
        /\ \A f \in Flows : f # "scan" => flow'[f] = flow[f]
    BY <1>1, <2>3, <2>4, FlowFacts DEF End
  <2>6. \A f \in Flows : StopInOrder(f, flow'[f])
    BY <2>4, <2>5 DEF PageInv, StopInOrder
  <2>7. RecordInv'
    <3>1. \A p \in Positions : status'[p] # "none" => p \in saved'
      BY <2>1
    <3>2. \A p \in Positions : At(p)' # "idle" => p \in saved'
      BY <2>1, <2>3, <2>5 DEF At, PageInv, RecordInv
    <3>3. Unrecorded(flow'["user"]) => flow'["user"].pos \notin saved' \cup bought'
      BY <1>1, <2>1, <2>3, <2>5 DEF PageInv, RecordInv
    <3> QED BY <1>1, <3>1, <3>2, <3>3 DEF RecordInv
  <2>8. UserInOrder(flow'["user"])
    BY <2>3, <2>5 DEF PageInv
  <2> QED BY <1>2, <1>4, <2>2, <2>5, <2>6, <2>7, <2>8 DEF PageInv
<1> QED BY <1>3, <1>4

\* The user's flow commits a new record, or sells.
LEMMA ReadKeeps ==
  ASSUME PageInv, Read
  PROVE  /\ PageInv'
         /\ \A p \in Positions : status[p] # "none" => status'[p] # "none"
<1> DEFINE u == flow["user"]
           p == u.pos
<1>1. /\ "user" \in Flows /\ "user" \notin Positions /\ Positions \subseteq Flows
      /\ flow \in [Flows -> Local] /\ u \in Local /\ p \in Positions
      /\ u.at = "reading" /\ Pos("user") = p
  BY FlowFacts, WorkspaceAssumption DEF Flows, Read, At, Pos, PageInv, UserInOrder
<1>2. busy' = TRUE /\ UNCHANGED <<runtime, identity, connected, acct, bought, live>>
  BY DEF Read
<1>3. PromptInv' /\ UNCHANGED <<sig, session, asking>>
  BY <1>2 DEF PageInv, PromptInv, runtime
<1>4. session \in MaybeAccount /\ {"funding", "acting"} \subseteq Stages
  BY DEF PageInv, SharedTypes, Stages
<1>5. CASE u.op = "buy"
  <2>1. /\ status' = [status EXCEPT ![p] = "funding"] /\ saved' = saved \cup {p}
        /\ Call("user", "funding", session)
    BY <1>1, <1>5 DEF Read
  <2>2. PICK c \in Local : /\ flow' = [flow EXCEPT !["user"] = c]
                           /\ c.pos = p /\ c.op = u.op
                           /\ c.at \in {"funding", "failing"}
                           /\ c.at # "failing" => c.on \in Accounts
    <3>1. GoesTo("user", "funding")
      BY <1>1, <1>4, <2>1, CallMoves
    <3> QED BY <3>1 DEF GoesTo
  <2>3. p \notin saved
    BY <1>1, <1>5 DEF PageInv, RecordInv, Unrecorded
  <2>4. /\ flow' \in [Flows -> Local] /\ flow'["user"] = c
        /\ \A f \in Flows : f # "user" => flow'[f] = flow[f]
    BY <1>1, <2>2
  <2>5. SharedTypes'
    BY <1>1, <1>2, <1>3, <2>1 DEF PageInv, SharedTypes, Statuses
  <2>6. UserInOrder(c) /\ ~Unrecorded(c) /\ StopInOrder("user", c)
    BY <1>1, <1>5, <2>2 DEF UserInOrder, Unrecorded, StopInOrder
  <2>7. RecordInv'
    <3>1. \A q \in Positions : status'[q] # "none" => q \in saved'
      BY <1>1, <2>1 DEF PageInv, RecordInv, SharedTypes
    <3>2. \A q \in Positions : At(q)' # "idle" => q \in saved'
      BY <1>1, <2>1, <2>4 DEF At, PageInv, RecordInv
    <3>3. ASSUME live', NEW f \in Flows, Returning(f, flow'[f])
          PROVE  status'[For(f, flow'[f])] = "none"
      <4>1. f # "user"
        BY <1>1, <1>5, <2>2, <2>4, <3>3 DEF Returning
      <4>2. f \in Positions /\ flow'[f] = flow[f]
        BY <2>4, <3>3, <4>1 DEF Returning
      <4>3. status[f] = "none" /\ f \in saved
        BY <1>2, <3>3, <4>2 DEF PageInv, RecordInv, Returning, For, At
      <4> QED BY <2>1, <2>3, <4>2, <4>3 DEF For, PageInv, SharedTypes
    <3> QED BY <2>4, <2>6, <3>1, <3>2, <3>3 DEF RecordInv
  <2>8. \A f \in Flows : StopInOrder(f, flow'[f])
    BY <2>4, <2>6 DEF PageInv
  <2>9. \A q \in Positions : status[q] # "none" => status'[q] # "none"
    BY <2>1 DEF PageInv, SharedTypes
  <2> QED BY <1>3, <2>4, <2>5, <2>6, <2>7, <2>8, <2>9 DEF PageInv
<1>6. CASE u.op # "buy"
  <2>1. Patch(p, "selling") /\ Call("user", "acting", session) /\ saved' = saved
    BY <1>1, <1>6 DEF Read
  <2>2. status' \in [Positions -> Statuses] /\ SameRecords
    BY <2>1, PatchKeeps DEF PageInv, Statuses
  <2>3. PICK c \in Local : /\ flow' = [flow EXCEPT !["user"] = c]
                           /\ c.pos = p /\ c.op = u.op
                           /\ c.at \in {"acting", "failing"}
                           /\ c.at # "failing" => c.on \in Accounts
    <3>1. GoesTo("user", "acting")
      BY <1>1, <1>4, <2>1, CallMoves
    <3> QED BY <3>1 DEF GoesTo
  <2>4. SharedTypes'
    BY <1>2, <1>3, <2>1, <2>2 DEF PageInv, SharedTypes
  <2>5. ~Unrecorded(c) /\ At("user") = "reading"
    BY <1>1, <2>3 DEF Unrecorded, At
  <2>6. PageInv'
    BY <1>1, <1>2, <1>3, <2>1, <2>2, <2>3, <2>4, <2>5, RunsOn
  <2> QED BY <2>2, <2>6 DEF SameRecords
<1> QED BY <1>5, <1>6

LEMMA UserRunsKeeps ==
  ASSUME PageInv, Funded \/ Visible \/ Executed
  PROVE  PageInv' /\ SameRecords
<1> DEFINE u == flow["user"]
<1>1. /\ "user" \in Flows /\ flow \in [Flows -> Local] /\ u \in Local /\ At("user") = u.at
      /\ u.at \in {"funding", "acting"} => u.on \in Accounts
      /\ u.at # "idle" => u.pos \in Positions
  BY FlowFacts DEF Flows, At, PageInv, UserInOrder
<1>2. session \in MaybeAccount /\ {"returning", "acting"} \subseteq Stages
  BY DEF PageInv, SharedTypes, Stages
<1>3. CASE Funded
  <2> DEFINE c == [u EXCEPT !.at = "waiting"]
  <2>1. /\ u.at = "funding" /\ Patch(u.pos, "buying")
        /\ acct' = IF status[u.pos] = "none" THEN acct ELSE [acct EXCEPT ![u.pos] = u.on]
        /\ identity' = IF u.on = u.pos THEN identity ELSE u.on
        /\ Goto("user", "waiting")
        /\ UNCHANGED <<runtime, connected, busy, saved, bought, live>>
    BY <1>1, <1>3, WorkspaceAssumption DEF Funded, Pos
  <2>2. status' \in [Positions -> Statuses] /\ SameRecords
    BY <2>1, PatchKeeps DEF PageInv, Statuses
  <2>3. acct' \in [Positions -> Accounts] /\ identity' \in MaybeAccount
    BY <1>1, <2>1 DEF PageInv, SharedTypes, MaybeAccount
  <2>4. SharedTypes' /\ PromptInv'
    BY <2>1, <2>2, <2>3 DEF PageInv, SharedTypes, PromptInv, runtime
  <2>5. flow' = [flow EXCEPT !["user"] = c]
    BY <1>1, <2>1 DEF Goto
  <2>6. /\ c \in Local /\ c.pos = u.pos /\ c.op = u.op /\ c.at = "waiting"
        /\ ~Unrecorded(c)
    BY <1>1 DEF Local, Stages, Unrecorded
  <2>7. saved' = saved /\ bought' = bought /\ live' = live
    BY <2>1
  <2>8. At("user") \notin {"idle", "timer"}
    BY <1>1, <2>1
  <2> HIDE DEF c
  <2> QED BY <1>1, <2>2, <2>4, <2>5, <2>6, <2>7, <2>8, RunsOn
<1>4. CASE Visible
  <2>1. /\ u.at = "waiting" /\ Call("user", "acting", session) /\ busy' = TRUE
        /\ UNCHANGED <<runtime, identity, connected, records, live>>
    BY <1>1, <1>4 DEF Visible
  <2>2. PICK c \in Local : /\ flow' = [flow EXCEPT !["user"] = c]
                           /\ c.pos = u.pos /\ c.op = u.op
                           /\ c.at \in {"acting", "failing"}
                           /\ c.at # "failing" => c.on \in Accounts
    <3>1. GoesTo("user", "acting")
      BY <1>1, <1>2, <2>1, CallMoves
    <3> QED BY <3>1 DEF GoesTo
  <2>3. SharedTypes' /\ PromptInv' /\ SameRecords
    BY <2>1 DEF PageInv, SharedTypes, PromptInv, SameRecords, runtime, records
  <2>4. ~Unrecorded(c)
    BY <2>2 DEF Unrecorded
  <2>5. saved' = saved /\ bought' = bought /\ live' = live
    BY <2>1 DEF records
  <2>6. /\ At("user") \notin {"idle", "timer"} /\ c.at # "stopping"
        /\ c.at \in {"funding", "acting"} => c.on \in Accounts
    BY <1>1, <2>1, <2>2
  <2>7. c.pos = flow["user"].pos /\ c.op = flow["user"].op
    BY <2>2
  <2> HIDE DEF u
  <2> QED BY <1>1, <2>2, <2>3, <2>4, <2>5, <2>6, <2>7, RunsOn
<1>5. CASE Executed /\ u.op = "buy"
  <2>1. /\ Patch(Pos("user"), "held") /\ bought' = bought \cup ({u.on} \ {Root})
        /\ End("user") /\ busy' = FALSE /\ u.at = "acting"
        /\ UNCHANGED <<runtime, identity, connected, acct, saved, live>>
    BY <1>1, <1>5 DEF Executed
  <2>2. status' \in [Positions -> Statuses] /\ SameRecords
    BY <2>1, PatchKeeps DEF PageInv, Statuses
  <2>3. bought' \subseteq Positions
    BY <1>1, <2>1 DEF PageInv, SharedTypes, Accounts
  <2>4. SharedTypes' /\ PromptInv'
    BY <2>1, <2>2, <2>3 DEF PageInv, SharedTypes, PromptInv, runtime
  <2> QED BY <1>1, <2>1, <2>2, <2>4, EndKeeps
<1>6. CASE Executed /\ u.op # "buy"
  <2>1. /\ Patch(Pos("user"), "returning") /\ bought' = bought \ {u.on}
        /\ Call("user", "returning", session) /\ busy' = TRUE /\ u.at = "acting"
        /\ UNCHANGED <<runtime, identity, connected, acct, saved, live>>
    BY <1>1, <1>6 DEF Executed
  <2>2. status' \in [Positions -> Statuses] /\ SameRecords
    BY <2>1, PatchKeeps DEF PageInv, Statuses
  <2>3. SharedTypes' /\ PromptInv'
    BY <2>1, <2>2 DEF PageInv, SharedTypes, PromptInv, runtime
  <2>4. PICK c \in Local : /\ flow' = [flow EXCEPT !["user"] = c]
                           /\ c.pos = u.pos /\ c.op = u.op
                           /\ c.at \in {"returning", "failing"}
    <3>1. GoesTo("user", "returning")
      BY <1>1, <1>2, <2>1, CallMoves
    <3> QED BY <3>1 DEF GoesTo
  <2>5. UserInOrder(c) /\ ~Unrecorded(c) /\ StopInOrder("user", c)
    BY <2>1, <2>4 DEF PageInv, UserInOrder, Unrecorded, StopInOrder
  <2>6. Returning("user", c) => /\ Returning("user", u)
                                /\ For("user", c) = For("user", u)
    BY <2>1, <2>4 DEF Returning, For
  <2>7. "user" \notin Positions
    BY WorkspaceAssumption
  <2> QED BY <1>1, <2>1, <2>2, <2>3, <2>4, <2>5, <2>6, <2>7, OneFlow
<1> QED BY <1>3, <1>4, <1>5, <1>6

\* The button of the wallet, a reset, and the timers.
LEMMA ConnectKeeps ==
  ASSUME PageInv, Connect
  PROVE  PageInv' /\ SameRecords
<1> DEFINE c == [Off EXCEPT !.at = "prepare", !.index = Root, !.seen = identity]
<1>1. /\ flow' = [flow EXCEPT !["connect"] = c]
      /\ UNCHANGED <<runtime, page, records, live>>
  BY DEF Connect
<1>2. c \in Local /\ c.at = "prepare"
  <2>1. identity \in MaybeAccount /\ Root \in MaybeAccount
    BY DEF PageInv, SharedTypes, MaybeAccount, Accounts
  <2>2. Off \in Local
    BY DEF Off, Local, Stages, MaybeAccount
  <2> QED BY <2>1, <2>2 DEF Local, Stages
<1>3. SharedTypes' /\ PromptInv' /\ SameRecords /\ saved' = saved /\ bought' = bought
  BY <1>1 DEF PageInv, SharedTypes, PromptInv, SameRecords, runtime, page, records
<1>4. "connect" \in Flows /\ "connect" \notin Positions
  BY WorkspaceAssumption DEF Flows
<1> HIDE DEF c
<1>5. StopInOrder("connect", c) /\ ~Returning("connect", c)
  BY <1>2, <1>4 DEF StopInOrder, Returning
<1> QED BY <1>1, <1>2, <1>3, <1>4, <1>5, OneFlow

LEMMA ResetKeeps ==
  ASSUME PageInv, Reset
  PROVE  PageInv' /\ SameRecords
<1>1. /\ sig' = FALSE /\ session' = None /\ identity' = None
      /\ UNCHANGED <<asking, prompts, connected, busy, records, live, flow>>
  BY DEF Reset
<1>2. SharedTypes' /\ PromptInv' /\ SameRecords
  BY <1>1 DEF PageInv, SharedTypes, PromptInv, SameRecords, records, MaybeAccount
<1>3. RecordInv'
  BY <1>1 DEF PageInv, RecordInv, records, At
<1> QED BY <1>1, <1>2, <1>3 DEF PageInv

LEMMA TimerKeeps ==
  ASSUME PageInv, NEW p \in Positions, TimerFires(p)
  PROVE  PageInv' /\ SameRecords
<1> DEFINE c == [flow[p] EXCEPT !.at = "stopping"]
<1>1. /\ At(p) = "timer" /\ flow' = [flow EXCEPT ![p] = c] /\ live' = FALSE
      /\ UNCHANGED <<runtime, page, records>>
  BY FlowFacts DEF TimerFires, Goto, Flows
<1>2. p \in Flows /\ p # "user"
  BY WorkspaceAssumption DEF Flows
<1>3. c \in Local /\ c.at = "stopping" /\ p \in saved
  BY <1>1, <1>2, FlowFacts DEF Local, Stages
<1> HIDE DEF c
<1>4. SharedTypes' /\ PromptInv' /\ SameRecords /\ saved' = saved /\ bought' = bought
  BY <1>1 DEF PageInv, SharedTypes, PromptInv, SameRecords, runtime, page, records
<1>5. StopInOrder(p, c)
  BY <1>3 DEF StopInOrder, Returning
<1> QED BY <1>1, <1>2, <1>3, <1>4, <1>5, OneFlow

\* A click of the user.
LEMMA StartKeeps ==
  ASSUME PageInv, NEW p \in Positions, StartBuy(p) \/ StartSell(p) \/ StartReturn(p)
  PROVE  PageInv' /\ SameRecords
<1>1. "user" \in Flows /\ "user" \notin Positions
  BY WorkspaceAssumption DEF Flows
<1>2. ASSUME NEW what \in {"buy", "sell", "back"}, NEW i \in MaybeAccount,
             NEW stage \in {"prepare", "reading", "stopping"},
             StartUser(what, p, stage, i), busy' \in BOOLEAN, live' \in {live, FALSE},
             what = "buy" => p \notin saved \cup bought,
             stage = "stopping" => what = "back",
             what = "back" => live' = FALSE
      PROVE  PageInv' /\ SameRecords
  <2> DEFINE seen == IF what = "back" THEN identity ELSE None
             c == [Off EXCEPT !.at = stage, !.op = what, !.pos = p, !.index = i,
                              !.seen = seen]
  <2>1. /\ flow' = [flow EXCEPT !["user"] = c]
        /\ UNCHANGED <<runtime, identity, connected, records>>
    BY <1>2 DEF StartUser
  <2>2. c \in Local /\ c.at = stage /\ c.op = what /\ c.pos = p
    <3>1. seen \in MaybeAccount
      BY DEF PageInv, SharedTypes, MaybeAccount
    <3>2. Off \in Local
      BY DEF Off, Local, Stages, MaybeAccount
    <3> HIDE DEF seen
    <3> QED BY <3>1, <3>2 DEF Local, Stages
  <2> HIDE DEF c
  <2>3. SharedTypes' /\ PromptInv' /\ SameRecords /\ saved' = saved /\ bought' = bought
    BY <1>2, <2>1 DEF PageInv, SharedTypes, PromptInv, SameRecords, runtime, records
  <2>4. /\ UserInOrder(c) /\ StopInOrder("user", c)
        /\ Unrecorded(c) => c.pos \notin saved \cup bought'
    BY <1>2, <2>2, <2>3 DEF UserInOrder, StopInOrder, Unrecorded, Returning
  <2>5. live' => live /\ ~Returning("user", c)
    BY <1>1, <1>2, <2>2 DEF Returning
  <2> QED BY <1>1, <2>1, <2>2, <2>3, <2>4, <2>5, OneFlow
<1>3. acct[p] \in MaybeAccount /\ p \in MaybeAccount /\ None \in MaybeAccount
  BY DEF PageInv, SharedTypes, MaybeAccount, Accounts
<1>4. busy \in BOOLEAN
  BY DEF PageInv, SharedTypes
<1>5. CASE StartBuy(p)
  <2>1. /\ StartUser("buy", p, "prepare", p) /\ p \notin saved \cup bought
        /\ busy' = TRUE /\ live' = live
    BY <1>5 DEF StartBuy
  <2> QED BY <1>2, <1>3, <2>1
<1>6. CASE StartSell(p)
  <2>1. /\ \/ StartUser("sell", p, "reading", None)
           \/ StartUser("sell", p, "prepare", acct[p])
        /\ busy' \in {busy, TRUE} /\ live' = live
    BY <1>6 DEF StartSell
  <2> QED BY <1>2, <1>3, <1>4, <2>1
<1>7. CASE StartReturn(p)
  <2>1. StartUser("back", p, "stopping", None) /\ busy' = busy /\ live' = FALSE
    BY <1>7 DEF StartReturn
  <2> QED BY <1>2, <1>3, <1>4, <2>1
<1> QED BY <1>5, <1>6, <1>7

-----------------------------------------------------------------------------
\* Only a scan that is current takes a record away.
RecordsKept ==
  \/ live /\ Scanned
  \/ \A p \in Positions : status[p] # "none" => status'[p] # "none"

LEMMA PageStep == PageInv /\ [Next]_vars => PageInv' /\ RecordsKept
<1> SUFFICES ASSUME PageInv, [Next]_vars PROVE PageInv' /\ RecordsKept
  OBVIOUS
<1>0. SameRecords => RecordsKept
  BY DEF SameRecords, RecordsKept
<1>1. ASSUME NEW f \in Flows, Step(f) PROVE PageInv' /\ RecordsKept
  <2>1. CASE Ask(f)
    BY <1>0, <2>1, AskKeeps
  <2>2. CASE PromptTimesOut(f)
    BY <1>0, <2>2, CatchKeeps DEF PromptTimesOut
  <2>3. CASE Derive(f)
    BY <1>0, <2>3, DeriveKeeps
  <2>4. CASE Throw(f)
    BY <1>0, <2>4, CatchKeeps DEF Throw
  <2>5. CASE Stopped(f)
    BY <1>0, <2>5, StoppedKeeps
  <2>6. CASE Returned(f)
    BY <1>0, <2>6, ReturnedKeeps
  <2>7. CASE Connected
    BY <1>0, <2>7, ConnectedKeeps
  <2>8. CASE Scanned
    BY <1>0, <2>8, ScannedKeeps DEF RecordsKept
  <2>9. CASE Read
    BY <2>9, ReadKeeps DEF RecordsKept
  <2>10. CASE Funded \/ Visible \/ Executed
    BY <1>0, <2>10, UserRunsKeeps
  <2> QED BY <1>1, <2>1, <2>2, <2>3, <2>4, <2>5, <2>6, <2>7, <2>8, <2>9, <2>10 DEF Step
<1>2. CASE WalletSigns
  <2>1. Answered("derive") /\ sig' \in BOOLEAN
    BY <1>2 DEF WalletSigns
  <2> QED BY <1>0, <2>1, AnswerKeeps
<1>3. CASE WalletRefuses
  <2>1. Answered("failing") /\ sig' \in BOOLEAN
    BY <1>3 DEF WalletRefuses, PageInv, SharedTypes
  <2> QED BY <1>0, <2>1, AnswerKeeps
<1>4. CASE Connect
  BY <1>0, <1>4, ConnectKeeps
<1>5. CASE Reset
  BY <1>0, <1>5, ResetKeeps
<1>6. ASSUME NEW p \in Positions,
             StartBuy(p) \/ StartSell(p) \/ StartReturn(p) \/ TimerFires(p)
      PROVE  PageInv' /\ RecordsKept
  BY <1>0, <1>6, StartKeeps, TimerKeeps
<1>7. CASE UNCHANGED vars
  <2>1. SharedTypes' /\ PromptInv' /\ SameRecords /\ flow' = flow
    BY <1>7 DEF vars, runtime, page, records, PageInv, SharedTypes, PromptInv, SameRecords
  <2>2. RecordInv'
    BY <1>7 DEF vars, records, PageInv, RecordInv, At
  <2> QED BY <1>0, <2>1, <2>2 DEF PageInv
<1> QED BY <1>1, <1>2, <1>3, <1>4, <1>5, <1>6, <1>7 DEF Next

LEMMA PageInit == Init => PageInv
<1> SUFFICES ASSUME Init PROVE PageInv
  OBVIOUS
<1>1. Off \in Local /\ Off.at = "idle"
  BY DEF Off, Local, Stages, MaybeAccount
<1>2. flow \in [Flows -> Local] /\ \A f \in Flows : flow[f] = Off
  BY <1>1 DEF Init
<1>3. "user" \in Flows /\ Positions \subseteq Flows
  BY DEF Flows
<1>4. SharedTypes
  BY DEF Init, SharedTypes, MaybeAccount, Accounts, Statuses
<1>5. PromptInv
  BY DEF Init, PromptInv
<1>6. /\ UserInOrder(flow["user"]) /\ ~Unrecorded(flow["user"])
      /\ \A f \in Flows : StopInOrder(f, flow[f])
  BY <1>1, <1>2, <1>3 DEF UserInOrder, Unrecorded, StopInOrder
<1>7. RecordInv
  BY <1>1, <1>2, <1>3, <1>6 DEF Init, RecordInv, At
<1> QED BY <1>2, <1>4, <1>5, <1>6, <1>7 DEF PageInv

\* The variables of the page have their types.
THEOREM WorkspaceTypeCorrect == Spec => []TypeOK
<1>1. PageInv => TypeOK
  BY DEF PageInv, SharedTypes, PromptInv, TypeOK, Local, Stages, MaybeAccount
<1> QED BY <1>1, PageInit, PageStep, PTL DEF Spec

\* However many flows ask for the signature, time out and ask again, the wallet
\* has one request open (signPrivateIdentity of runtime.ts).
THEOREM AskedOnce == Spec => []OnePrompt
<1>1. PageInv => OnePrompt
  BY DEF PageInv, PromptInv, OnePrompt
<1> QED BY <1>1, PageInit, PageStep, PTL DEF Spec

\* No scan removes the record a return works on (stopPositionRecovery and
\* positionRecoveryId of App.tsx).
THEOREM ReturnsKeepRecords == Spec => ReturnedIsKept
<1>1. ASSUME PageInv, [Next]_vars, NEW f \in Flows, Returns(f),
             At(f) \notin {"idle", "timer"}, status[Pos(f)] # "none"
      PROVE  status'[Pos(f)] # "none"
  <2>1. Returning(f, flow[f]) /\ Pos(f) = For(f, flow[f])
    BY <1>1 DEF Returns, Returning, For, Pos, At
  <2>2. Pos(f) \in Positions
    BY <1>1, <2>1 DEF For, Returning, PageInv, UserInOrder
  <2>3. ~live
    BY <1>1, <2>1 DEF PageInv, RecordInv
  <2> QED BY <1>1, <2>2, <2>3, PageStep DEF RecordsKept
<1>2. PageInv /\ [Next]_vars
      => [\A f \in Flows :
            Returns(f) /\ At(f) \notin {"idle", "timer"} /\ status[Pos(f)] # "none"
            => status'[Pos(f)] # "none"]_vars
  BY <1>1
<1> QED BY <1>2, PageInit, PageStep, PTL DEF Spec, ReturnedIsKept

-----------------------------------------------------------------------------
(***************************************************************************)
(* The scan, for every chain, every range and every number of repetitions: *)
(* the logs a query has gathered so far are those of the blocks before its *)
(* cursor, each of them once.                                              *)
(***************************************************************************)
BlockRecord ==
  [account: AllAccounts, token: Tokens, created: BOOLEAN, launched: BOOLEAN,
   logs: Nat, paid: Nat, sold: BOOLEAN]

\* An account is created once.
ChainInv ==
  /\ chain \in Seq(BlockRecord) /\ Len(chain) <= MaxBlocks
  /\ \A a \in AllAccounts : \A i, j \in CreatedAt(a) : i = j

\* What a query has gathered is what lies before its cursor.
QueryInv ==
  /\ start \in Blocks /\ cursor \in Blocks /\ start <= cursor
  /\ range \in MinRange..MaxRange
  /\ fetched \in [Blocks -> Nat]
  /\ \A b \in Blocks : fetched[b] = IF b \in start..cursor - 1 THEN 1 ELSE 0

\* The account was created in a block the scan covers.
Known(a) == a \in AllAccounts /\ \E b \in CreatedAt(a) : b <= latest

OfToken == {"balance", "record", "receipts"}
OfAccount == {"transfers", "launches"} \cup OfToken

\* Where the scan is, it has an account or a token of that kind, and the cursor
\* of a query has not passed the head.
PlaceInv ==
  /\ pc \in {"idle"} \cup Reads \cup Ends
  /\ pc \in LogReads => cursor <= latest
  /\ pc \in OfAccount => Known(account)
  /\ pc \in OfToken => token \in Tokens
  /\ \A a \in candidates : Known(a)

RestInv ==
  /\ asleep \in BOOLEAN /\ aborted \in BOOLEAN /\ held \in BOOLEAN
  /\ attempt \in 0..Attempts - 1
  /\ latest \in 0..Len(chain)
  /\ received \subseteq 1..latest
  /\ tokens \subseteq Tokens
  /\ skipped \subseteq AllAccounts \X Tokens

ScanInv == ChainInv /\ QueryInv /\ PlaceInv /\ RestInv

-----------------------------------------------------------------------------
\* A set of natural numbers has a least element.
LEMMA LeastNumber ==
  ASSUME NEW S \in SUBSET Nat, S # {}
  PROVE  \E x \in S : \A y \in S : x <= y
<1> DEFINE R == OpToRel(<, Nat)
<1>1. PICK x \in S : \A y \in S : ~(<<y, x>> \in R)
  <2> HIDE DEF R
  <2>1. IsWellFoundedOn(R, Nat)
    BY NatLessThanWellFounded DEF R
  <2> QED BY <2>1, WFMin
<1>2. ASSUME NEW y \in S PROVE x <= y
  <2>1. ~(<<y, x>> \in R)
    BY <1>1
  <2>2. ~(y < x)
    BY <2>1 DEF OpToRel
  <2> QED BY <2>2
<1> QED BY <1>2

\* The event of a known account is where the scan of its logs begins.
LEMMA FirstBlockKnown ==
  ASSUME ChainInv, RestInv, NEW a, Known(a)
  PROVE  FirstBlock(a) \in Blocks /\ FirstBlock(a) <= latest
<1>1. PICK b \in CreatedAt(a) : b <= latest
  BY DEF Known
<1>2. b \in Blocks /\ b <= latest
  <2>1. b \in DOMAIN chain
    BY <1>1 DEF CreatedAt
  <2>2. chain \in Seq(BlockRecord) /\ Len(chain) <= MaxBlocks /\ MaxBlocks \in Nat
    BY ScanAssumption DEF ChainInv
  <2> QED BY <2>1, <2>2, <1>1 DEF Blocks
<1>3. CreatedAt(a) = {b}
  BY <1>1 DEF ChainInv, Known
<1>4. FirstBlock(a) = b
  BY <1>2, <1>3 DEF FirstBlock, Min, Blocks
<1> QED BY <1>2, <1>4

\* A query that begins has gathered nothing.
LEMMA FreshKeeps ==
  ASSUME NEW from \in Blocks, FreshLogs(from)
  PROVE  QueryInv'
<1>1. range' \in MinRange..MaxRange
  BY ScanAssumption DEF FreshLogs
<1>2. fetched' = Nothing /\ start' = from /\ cursor' = from
  BY DEF FreshLogs
<1>3. ASSUME NEW b \in Blocks
      PROVE  fetched'[b] = IF b \in start'..cursor' - 1 THEN 1 ELSE 0
  BY <1>2, <1>3 DEF Nothing, Blocks
<1>4. fetched' \in [Blocks -> Nat]
  BY <1>2 DEF Nothing
<1> QED BY <1>1, <1>2, <1>3, <1>4 DEF QueryInv, Blocks

-----------------------------------------------------------------------------
\* The next account is one of those that are left, and known like them.
LEMMA NextAccountKeeps ==
  ASSUME ScanInv, NEW rest, \A a \in rest : Known(a),
         NextAccount(rest), UNCHANGED <<chain, latest>>
  PROVE  QueryInv' /\ PlaceInv'
<1>1. ASSUME NEW a, Known(a) PROVE Known(a)'
  BY <1>1 DEF Known, CreatedAt
<1>2. CASE rest = {}
  <2>1. 1 \in Blocks
    BY ScanAssumption DEF Blocks
  <2>2. QueryInv'
    BY <1>2, <2>1, FreshKeeps DEF NextAccount, NoLogs
  <2>3. pc' = "done" /\ candidates' = {}
    BY <1>2 DEF NextAccount
  <2> QED BY <2>2, <2>3 DEF PlaceInv, Ends, Reads, LogReads, OfAccount, OfToken
<1>3. CASE rest # {}
  <2> DEFINE a == CHOOSE x \in rest : \A y \in rest : FirstBlock(x) <= FirstBlock(y)
  <2>1. \A x \in rest : FirstBlock(x) \in Blocks /\ FirstBlock(x) <= latest
    BY FirstBlockKnown DEF ScanInv
  <2>2. \E x \in rest : \A y \in rest : FirstBlock(x) <= FirstBlock(y)
    <3> DEFINE S == {FirstBlock(x) : x \in rest}
    <3>1. S \in SUBSET Nat /\ S # {}
      BY <1>3, <2>1 DEF Blocks
    <3> HIDE DEF S
    <3>2. PICK n \in S : \A m \in S : n <= m
      BY <3>1, LeastNumber
    <3> USE DEF S
    <3> QED BY <3>2
  <2>3. a \in rest
    BY <2>2
  <2> HIDE DEF a
  <2>4. /\ pc' = IF aborted THEN "failed" ELSE "transfers"
        /\ FreshLogs(FirstBlock(a))
        /\ account' = a /\ candidates' = rest \ {a}
    BY <1>3 DEF NextAccount, AskNext, a
  <2>5. QueryInv'
    BY <2>1, <2>3, <2>4, FreshKeeps
  <2>6. cursor' <= latest' /\ Known(account)'
    <3>1. Known(account') <=> Known(a)
      BY <2>4
    <3> QED BY <1>1, <2>1, <2>3, <2>4 DEF FreshLogs, Known, CreatedAt
  <2>7. \A x \in candidates' : Known(x)'
    BY <1>1, <2>4
  <2>8. pc' \in {"failed", "transfers"}
    BY <2>4
  <2> QED
    BY <2>5, <2>6, <2>7, <2>8 DEF PlaceInv, Ends, Reads, LogReads, OfAccount, OfToken
<1> QED BY <1>2, <1>3

\* So is the next token of an account, or the account after its last token.
LEMMA NextTokenKeeps ==
  ASSUME ScanInv, NEW rest \in SUBSET Tokens, Known(account),
         NextToken(rest), UNCHANGED <<chain, latest>>
  PROVE  QueryInv' /\ PlaceInv' /\ tokens' \subseteq Tokens
<1>1. tokens' \subseteq Tokens
  BY DEF NextToken
<1>2. CASE rest = {}
  <2>1. NextAccount(candidates)
    BY <1>2 DEF NextToken
  <2> QED BY <1>1, <2>1, NextAccountKeeps DEF ScanInv, PlaceInv
<1>3. CASE rest # {}
  <2>1. 1 \in Blocks
    BY ScanAssumption DEF Blocks
  <2>2. /\ pc' = IF aborted THEN "failed" ELSE "balance"
        /\ token' \in rest
        /\ NoLogs /\ account' = account /\ candidates' = candidates
    BY <1>3 DEF NextToken, AskNext
  <2>3. QueryInv'
    BY <2>1, <2>2, FreshKeeps DEF NoLogs
  <2>4. Known(account)' /\ \A x \in candidates' : Known(x)'
    BY <2>2 DEF Known, CreatedAt, ScanInv, PlaceInv
  <2>5. pc' \in {"failed", "balance"} /\ token' \in Tokens
    BY <2>2
  <2> QED
    BY <1>1, <2>3, <2>4, <2>5 DEF PlaceInv, Ends, Reads, LogReads, OfAccount, OfToken
<1> QED BY <1>2, <1>3

\* A step that reads nothing keeps the chain; what it says of the accounts stays.
LEMMA ThrowKeeps ==
  ASSUME ScanInv, ScanThrow, UNCHANGED <<chain, aborted>>
  PROVE  ScanInv'
<1>1. ChainInv'
  BY DEF ScanInv, ChainInv, CreatedAt
<1>2. QueryInv'
  <2>1. 1 \in Blocks
    BY ScanAssumption DEF Blocks
  <2> QED BY <2>1, FreshKeeps DEF ScanThrow, NoLogs
<1>3. PlaceInv'
  <2>1. \A x \in candidates' : Known(x)'
    BY DEF ScanThrow, progress, Known, CreatedAt, ScanInv, PlaceInv
  <2>2. pc' = "failed"
    BY DEF ScanThrow
  <2> QED BY <2>1, <2>2 DEF PlaceInv, Ends, Reads, LogReads, OfAccount, OfToken
<1>4. RestInv'
  <2>1. asleep' = FALSE /\ attempt' = 0 /\ UNCHANGED <<latest, held, received, tokens, skipped>>
    BY DEF ScanThrow, Awake, progress
  <2>2. 0 \in 0..Attempts - 1
    BY ScanAssumption
  <2> QED BY <2>1, <2>2 DEF ScanInv, RestInv
<1> QED BY <1>1, <1>2, <1>3, <1>4 DEF ScanInv

-----------------------------------------------------------------------------
(***************************************************************************)
(* The steps.                                                              *)
(***************************************************************************)
\* A step that changes nothing the invariant speaks of.
LEMMA StandStill ==
  ASSUME ScanInv, UNCHANGED <<chain, query>>, PlaceInv', RestInv'
  PROVE  ScanInv'
<1>1. ChainInv'
  BY DEF ScanInv, ChainInv, CreatedAt
<1>2. QueryInv'
  BY DEF ScanInv, QueryInv, query
<1> QED BY <1>1, <1>2 DEF ScanInv

\* The token's record is not read.
LEMMA SkipKeeps ==
  ASSUME ScanInv, pc \in OfToken, Skip, Awake,
         UNCHANGED <<chain, aborted, latest, received>>, held' \in BOOLEAN
  PROVE  ScanInv'
<1>1. Known(account) /\ token \in Tokens /\ tokens \in SUBSET Tokens
  BY DEF ScanInv, PlaceInv, RestInv, OfAccount
<1>2. QueryInv' /\ PlaceInv' /\ tokens' \subseteq Tokens
  <2>1. NextToken(tokens \ {token}) /\ tokens \ {token} \in SUBSET Tokens
    BY <1>1 DEF Skip
  <2> QED BY <1>1, <2>1, NextTokenKeeps
<1>3. skipped' \subseteq AllAccounts \X Tokens
  BY <1>1 DEF Skip, Known, ScanInv, RestInv
<1>4. ChainInv'
  BY DEF ScanInv, ChainInv, CreatedAt
<1>5. RestInv'
  <2>1. 0 \in 0..Attempts - 1
    BY ScanAssumption
  <2> QED BY <1>2, <1>3, <2>1 DEF Awake, ScanInv, RestInv
<1> QED BY <1>2, <1>4, <1>5 DEF ScanInv

LEMMA RejectsKeeps ==
  ASSUME ScanInv, Rejects, UNCHANGED <<chain, aborted>>
  PROVE  ScanInv'
<1>1. CASE pc = "record"
  <2>1. Skip /\ Awake /\ UNCHANGED <<latest, received, held>>
    BY <1>1 DEF Rejects
  <2>2. held' \in BOOLEAN /\ pc \in OfToken
    BY <1>1, <2>1 DEF ScanInv, RestInv, OfToken
  <2> QED BY <2>1, <2>2, SkipKeeps
<1>2. CASE pc # "record"
  <2>1. ScanThrow
    BY <1>2 DEF Rejects
  <2> QED BY <2>1, ThrowKeeps
<1> QED BY <1>1, <1>2

\* The chain grows by a block; no account is created a second time.
LEMMA MineKeeps ==
  ASSUME ScanInv, NEW a \in AllAccounts, NEW t \in Tokens,
         NEW launched \in BOOLEAN, NEW logs \in Nat, NEW paid \in Nat,
         NEW sold \in BOOLEAN, Mine(Block(a, t, launched, logs, paid, sold))
  PROVE  ScanInv'
<1> DEFINE block == Block(a, t, launched, logs, paid, sold)
<1>1. block \in BlockRecord
  BY DEF Block, BlockRecord
<1>2. block.account = a /\ block.created = (CreatedAt(a) = {})
  BY DEF Block
<1> HIDE DEF block
<1>3. chain \in Seq(BlockRecord) /\ Len(chain) < MaxBlocks /\ chain' = Append(chain, block)
  BY DEF ScanInv, ChainInv, Mine, block
<1>4. /\ chain' \in Seq(BlockRecord) /\ Len(chain') = Len(chain) + 1
      /\ \A i \in DOMAIN chain : i \in DOMAIN chain' /\ chain'[i] = chain[i]
      /\ chain'[Len(chain) + 1] = block
      /\ DOMAIN chain' = DOMAIN chain \cup {Len(chain) + 1}
  BY <1>1, <1>3
<1>5. \A x : CreatedAt(x)' = CreatedAt(x)
                \cup (IF x = a /\ CreatedAt(a) = {} THEN {Len(chain) + 1} ELSE {})
  BY <1>2, <1>4, Zenon DEF CreatedAt
<1>6. ASSUME NEW x \in AllAccounts PROVE \A i, j \in CreatedAt(x)' : i = j
  BY <1>5 DEF ScanInv, ChainInv
<1>7. ChainInv'
  <2>1. Len(chain') <= MaxBlocks
    BY <1>3, <1>4, ScanAssumption
  <2> QED BY <1>4, <1>6, <2>1 DEF ChainInv
<1>8. UNCHANGED <<aborted, pc, reading, progress>>
  BY DEF Mine
<1>9. QueryInv'
  BY <1>8 DEF ScanInv, QueryInv, reading, query
<1>10. \A x : Known(x) => Known(x)'
  BY <1>5, <1>8 DEF Known, progress
<1>11. PlaceInv'
  BY <1>8, <1>10 DEF ScanInv, PlaceInv, reading, query, progress
<1>12. RestInv'
  <2>1. latest \in 0..Len(chain')
    BY <1>3, <1>4 DEF ScanInv, RestInv
  <2> QED BY <1>8, <2>1 DEF ScanInv, RestInv, reading, progress
<1> QED BY <1>7, <1>9, <1>11, <1>12 DEF ScanInv

\* The range after a chunk that came, and after one that was too wide.
LEMMA RangeStaysInBounds ==
  ASSUME QueryInv
  PROVE  /\ (IF range < MaxRange THEN Widened ELSE range) \in MinRange..MaxRange
         /\ \A n \in 1..range : ~TooNarrow(n) => Half(n) \in MinRange..MaxRange
  BY ScanAssumption DEF QueryInv, Widened, Half, TooNarrow

\* A chunk reaches from the cursor to at most the head.
LEMMA ChunkBounds ==
  ASSUME QueryInv, latest \in Nat, cursor <= latest
  PROVE  /\ ChunkEnd \in Nat /\ cursor <= ChunkEnd /\ ChunkEnd <= latest
         /\ ChunkEnd - cursor + 1 \in 1..range
  BY ScanAssumption DEF QueryInv, ChunkEnd, Blocks

\* A query is complete: its logs lie in the blocks the scan covers.
LEMMA CompleteKeeps ==
  ASSUME ScanInv, pc \in LogReads, Complete, Awake,
         UNCHANGED <<chain, aborted, latest, held, skipped>>
  PROVE  ScanInv'
<1>1. ChainInv'
  BY DEF ScanInv, ChainInv, CreatedAt
<1>2. Logs \subseteq 1..latest /\ 1..latest \subseteq DOMAIN chain
  <2>1. chain \in Seq(BlockRecord) /\ latest \in 0..Len(chain)
    BY DEF ScanInv, ChainInv, RestInv
  <2> QED BY <2>1 DEF Logs
<1>3. RestInv' <=> received' \subseteq 1..latest /\ tokens' \subseteq Tokens
  <2>1. 0 \in 0..Attempts - 1
    BY ScanAssumption
  <2> QED BY <2>1 DEF Awake, ScanInv, RestInv
<1>4. CASE pc = "accounts"
  <2>1. NextAccount(Candidates) /\ UNCHANGED <<received, tokens>>
    BY <1>4 DEF Complete
  <2>2. \A a \in Candidates : Known(a)
    <3>1. \A b \in Logs : b <= latest
      BY <1>2 DEF ScanInv, RestInv
    <3> HIDE DEF Logs
    <3> QED BY <3>1, ScanAssumption DEF Candidates, Known
  <2>3. QueryInv' /\ PlaceInv'
    BY <2>1, <2>2, NextAccountKeeps
  <2>4. RestInv'
    BY <1>3, <2>1 DEF ScanInv, RestInv
  <2> QED BY <1>1, <2>3, <2>4 DEF ScanInv
<1>5. CASE pc = "transfers"
  <2>1. /\ received' = Transfers(account)
        /\ pc' = IF aborted THEN "failed" ELSE "launches"
        /\ FreshLogs(FirstBlock(account))
        /\ UNCHANGED <<candidates, account, tokens, token>>
    BY <1>5 DEF Complete, AskNext
  <2>2. Known(account)
    BY <1>5 DEF ScanInv, PlaceInv, OfAccount
  <2>3. FirstBlock(account) \in Blocks /\ FirstBlock(account) <= latest
    BY <2>2, FirstBlockKnown DEF ScanInv
  <2>4. QueryInv'
    BY <2>1, <2>3, FreshKeeps
  <2>5. PlaceInv'
    <3>1. cursor' <= latest' /\ Known(account)'
      BY <2>1, <2>2, <2>3 DEF FreshLogs, Known, CreatedAt
    <3>2. \A x \in candidates' : Known(x)'
      BY <2>1 DEF ScanInv, PlaceInv, Known, CreatedAt
    <3>3. pc' \in {"failed", "launches"}
      BY <2>1
    <3> QED BY <3>1, <3>2, <3>3 DEF PlaceInv, Ends, Reads, LogReads, OfAccount, OfToken
  <2>6. RestInv'
    BY <1>2, <1>3, <2>1 DEF Transfers, ScanInv, RestInv
  <2> QED BY <1>1, <2>4, <2>5, <2>6 DEF ScanInv
<1>6. CASE pc = "launches"
  <2> DEFINE rest == CandidateTokens(received, Launches(account))
  <2>1. NextToken(rest) /\ UNCHANGED received
    BY <1>6 DEF Complete
  <2>2. rest \in SUBSET Tokens
    <3>1. \A b \in DOMAIN chain : chain[b].token \in Tokens
      <4>1. chain \in Seq(BlockRecord)
        BY DEF ScanInv, ChainInv
      <4>2. \A b \in DOMAIN chain : chain[b] \in BlockRecord
        BY <4>1
      <4> QED BY <4>2 DEF BlockRecord
    <3>2. received \cup Launches(account) \subseteq DOMAIN chain
      BY <1>2 DEF ScanInv, RestInv, Launches
    <3> QED BY <3>1, <3>2 DEF CandidateTokens
  <2> HIDE DEF rest
  <2>3. Known(account)
    BY <1>6 DEF ScanInv, PlaceInv, OfAccount
  <2>4. QueryInv' /\ PlaceInv' /\ tokens' \subseteq Tokens
    BY <2>1, <2>2, <2>3, NextTokenKeeps
  <2>5. RestInv'
    BY <1>3, <2>1, <2>4 DEF ScanInv, RestInv
  <2> QED BY <1>1, <2>4, <2>5 DEF ScanInv
<1> QED BY <1>4, <1>5, <1>6 DEF LogReads

\* A chunk is gathered: exactly the blocks from the cursor to its end.
LEMMA LogsKeep ==
  ASSUME ScanInv, AnswerLogs
  PROVE  ScanInv'
<1>1. pc \in LogReads /\ Awake /\ UNCHANGED <<chain, aborted, latest, held, found, skipped>>
  BY DEF AnswerLogs
<1>2. CASE NextCursor > latest
  BY <1>1, <1>2, CompleteKeeps DEF AnswerLogs
<1>3. CASE ~(NextCursor > latest)
  <2>1. /\ cursor' = ChunkEnd + 1
        /\ range' = IF range < MaxRange THEN Widened ELSE range
        /\ fetched' = Fetched
        /\ pc' = IF aborted THEN "failed" ELSE pc
        /\ UNCHANGED <<start, candidates, account, received, tokens, token>>
    BY <1>3 DEF AnswerLogs, AskNext, NextCursor
  <2>2. latest \in Nat /\ latest <= MaxBlocks /\ MaxBlocks \in Nat /\ cursor <= latest
    BY <1>1, ScanAssumption DEF ScanInv, ChainInv, RestInv, PlaceInv
  <2>3. ChunkEnd \in Nat /\ cursor <= ChunkEnd /\ ChunkEnd + 1 <= latest
    <3>1. ChunkEnd \in Nat /\ cursor <= ChunkEnd
      BY <2>2, ChunkBounds DEF ScanInv
    <3> QED BY <1>3, <2>2, <3>1 DEF NextCursor
  <2>4. QueryInv'
    <3>1. start \in Blocks /\ cursor \in Blocks /\ start <= cursor
      BY DEF ScanInv, QueryInv
    <3>2. cursor' \in Blocks /\ start' <= cursor' /\ start' = start
      BY <2>1, <2>2, <2>3, <3>1 DEF Blocks
    <3>3. range' \in MinRange..MaxRange
      BY <2>1, RangeStaysInBounds DEF ScanInv
    <3>4. fetched' \in [Blocks -> Nat]
      BY <2>1 DEF Fetched, ScanInv, QueryInv
    <3>5. ASSUME NEW b \in Blocks
          PROVE  fetched'[b] = IF b \in start'..cursor' - 1 THEN 1 ELSE 0
      <4>1. fetched[b] = IF b \in start..cursor - 1 THEN 1 ELSE 0
        BY DEF ScanInv, QueryInv
      <4>2. fetched'[b] = IF b \in cursor..ChunkEnd THEN fetched[b] + 1 ELSE fetched[b]
        BY <2>1 DEF Fetched
      <4>3. b \in Nat /\ start \in Nat /\ cursor \in Nat
        BY <3>1 DEF Blocks
      <4> HIDE DEF ChunkEnd
      <4> QED BY <2>1, <2>3, <3>1, <4>1, <4>2, <4>3
    <3> QED BY <3>1, <3>2, <3>3, <3>4, <3>5 DEF QueryInv
  <2>5. PlaceInv'
    <3>1. pc' \in {"failed", pc} /\ cursor' <= latest'
      BY <1>1, <2>1, <2>3
    <3>2. \A a : Known(a)' <=> Known(a)
      BY <1>1 DEF Known, CreatedAt
    <3>3. Known(account)' <=> Known(account)
      BY <2>1, <3>2
    <3> QED BY <1>1, <2>1, <3>1, <3>2, <3>3
            DEF ScanInv, PlaceInv, Ends, Reads, LogReads, OfAccount, OfToken
  <2>6. ChainInv'
    BY <1>1 DEF ScanInv, ChainInv, CreatedAt
  <2>7. RestInv'
    <3>1. 0 \in 0..Attempts - 1
      BY ScanAssumption
    <3> QED BY <1>1, <2>1, <3>1 DEF Awake, ScanInv, RestInv
  <2> QED BY <2>4, <2>5, <2>6, <2>7 DEF ScanInv
<1> QED BY <1>2, <1>3

\* A range that is too wide is tried again in part, from where it began.
LEMMA TimeoutKeeps ==
  ASSUME ScanInv, RangeTimesOut
  PROVE  ScanInv'
<1> DEFINE attempted == ChunkEnd - cursor + 1
<1>1. pc \in LogReads /\ UNCHANGED <<chain, aborted>>
  BY DEF RangeTimesOut
<1>2. CASE TooNarrow(attempted)
  BY <1>1, <1>2, ThrowKeeps DEF RangeTimesOut
<1>3. CASE ~TooNarrow(attempted)
  <2>1. /\ range' = Half(attempted)
        /\ pc' = IF aborted THEN "failed" ELSE pc
        /\ Awake
        /\ UNCHANGED <<start, cursor, fetched, progress>>
    BY <1>3 DEF RangeTimesOut, AskNext
  <2>2. attempted \in 1..range
    BY <1>1, ChunkBounds DEF ScanInv, ChainInv, RestInv, PlaceInv
  <2>3. range' \in MinRange..MaxRange
    BY <1>3, <2>1, <2>2, RangeStaysInBounds DEF ScanInv
  <2>4. QueryInv'
    BY <2>1, <2>3 DEF ScanInv, QueryInv
  <2>5. PlaceInv'
    <3>1. \A a : Known(a)' <=> Known(a)
      BY <1>1, <2>1 DEF Known, CreatedAt, progress
    <3>2. Known(account)' <=> Known(account)
      BY <2>1, <3>1 DEF progress
    <3> QED BY <1>1, <2>1, <3>1, <3>2
            DEF progress, ScanInv, PlaceInv, Ends, Reads, LogReads, OfAccount, OfToken
  <2>6. ChainInv'
    BY <1>1 DEF ScanInv, ChainInv, CreatedAt
  <2>7. RestInv'
    <3>1. 0 \in 0..Attempts - 1
      BY ScanAssumption
    <3> QED BY <1>1, <2>1, <3>1 DEF Awake, progress, ScanInv, RestInv
  <2> QED BY <2>4, <2>5, <2>6, <2>7 DEF ScanInv
<1> QED BY <1>2, <1>3

LEMMA OtherReadsKeep ==
  ASSUME ScanInv,
         Begin \/ AnswerLatest \/ AnswerBalance \/ AnswerRecord \/ AnswerReceipts
  PROVE  ScanInv'
<1> USE DEF LogReads, Reads, Ends, OfAccount, OfToken
<1>1. 1 \in Blocks /\ 0 \in 0..Attempts - 1
  BY ScanAssumption DEF Blocks
<1>2. UNCHANGED chain => ChainInv'
  BY DEF ScanInv, ChainInv, CreatedAt
<1>3. CASE Begin
  <2>1. pc' = "latest" /\ UNCHANGED <<chain, aborted, reading, progress>>
    BY <1>3 DEF Begin
  <2>2. PlaceInv'
    BY <2>1 DEF ScanInv, PlaceInv, Known, CreatedAt, progress
  <2>3. RestInv' /\ UNCHANGED query
    BY <2>1 DEF ScanInv, RestInv, reading, progress
  <2> QED BY <2>1, <2>2, <2>3, StandStill
<1>4. CASE AnswerLatest
  <2>1. /\ pc = "latest" /\ latest' = Len(chain)
        /\ pc' = IF chain = << >> THEN "done" ELSE IF aborted THEN "failed" ELSE "accounts"
        /\ Awake /\ NoLogs
        /\ UNCHANGED <<chain, aborted, candidates, account, received, tokens, token, held,
                       found, skipped>>
    BY <1>4 DEF AnswerLatest, AskNext
  <2>2. QueryInv'
    BY <1>1, <2>1, FreshKeeps DEF NoLogs
  <2>3. chain \in Seq(BlockRecord) /\ latest \in 0..Len(chain)
    BY DEF ScanInv, ChainInv, RestInv
  <2>4. latest' \in Nat /\ latest <= latest'
    BY <2>1, <2>3
  <2>5. PlaceInv'
    <3>1. ASSUME NEW a, Known(a) PROVE Known(a)'
      <4>1. PICK b \in CreatedAt(a) : b <= latest
        BY <3>1 DEF Known
      <4>2. b \in Nat
        BY <2>3, <4>1 DEF CreatedAt
      <4>3. b <= latest'
        BY <2>3, <2>4, <4>1, <4>2
      <4> QED BY <2>1, <3>1, <4>1, <4>3 DEF Known, CreatedAt
    <3>2. \A a \in candidates' : Known(a)'
      BY <2>1, <3>1 DEF ScanInv, PlaceInv
    <3>3. pc' = "accounts" => cursor' <= latest'
      <4>1. chain # << >> => 1 <= Len(chain)
        BY <2>3
      <4> QED BY <2>1, <4>1 DEF NoLogs, FreshLogs
    <3> QED BY <2>1, <3>2, <3>3 DEF PlaceInv
  <2>6. RestInv'
    <3>1. received' \subseteq 1..latest'
      BY <2>1, <2>3, <2>4 DEF ScanInv, RestInv
    <3>2. latest' \in 0..Len(chain')
      BY <2>1, <2>3
    <3>3. /\ asleep' = FALSE /\ attempt' = 0
          /\ UNCHANGED <<aborted, held, tokens, skipped>>
      BY <2>1 DEF Awake
    <3> QED BY <1>1, <3>1, <3>2, <3>3 DEF ScanInv, RestInv
  <2> QED BY <1>2, <2>1, <2>2, <2>5, <2>6 DEF ScanInv
<1>5. CASE AnswerBalance
  <2>1. /\ pc = "balance" /\ Awake /\ held' = Holds(account, token)
        /\ UNCHANGED <<chain, aborted, latest, received>>
    BY <1>5 DEF AnswerBalance
  <2>2. held' \in BOOLEAN
    BY <2>1 DEF Holds, Kept
  <2>3. CASE aborted
    <3>1. Skip
      BY <1>5, <2>3 DEF AnswerBalance
    <3> QED BY <2>1, <2>2, <3>1, SkipKeeps
  <2>4. CASE ~aborted
    <3>1. pc' = "record" /\ NoLogs /\ UNCHANGED <<candidates, account, tokens, token, skipped>>
      BY <1>5, <2>4 DEF AnswerBalance
    <3>2. QueryInv'
      BY <1>1, <3>1, FreshKeeps DEF NoLogs
    <3>3. PlaceInv'
      <4>1. \A a : Known(a)' <=> Known(a)
        BY <2>1 DEF Known, CreatedAt
      <4>2. Known(account)' <=> Known(account)
        BY <3>1, <4>1
      <4> QED BY <2>1, <3>1, <4>1, <4>2 DEF ScanInv, PlaceInv
    <3>4. RestInv'
      BY <1>1, <2>1, <2>2, <3>1 DEF Awake, ScanInv, RestInv
    <3> QED BY <1>2, <2>1, <3>2, <3>3, <3>4 DEF ScanInv
  <2> QED BY <2>3, <2>4
<1>6. ASSUME pc \in OfToken, NextToken(tokens \ {token}), Awake,
             UNCHANGED <<chain, aborted, latest, received, held, skipped>>
      PROVE  ScanInv'
  <2>1. tokens \ {token} \in SUBSET Tokens /\ Known(account)
    BY <1>6 DEF ScanInv, RestInv, PlaceInv
  <2>2. QueryInv' /\ PlaceInv' /\ tokens' \subseteq Tokens
    BY <1>6, <2>1, NextTokenKeeps
  <2>3. RestInv'
    BY <1>1, <1>6, <2>2 DEF Awake, ScanInv, RestInv
  <2> QED BY <1>2, <1>6, <2>2, <2>3 DEF ScanInv
<1>7. CASE AnswerRecord
  <2>1. pc = "record" /\ Awake /\ UNCHANGED <<chain, aborted, latest, received, held, skipped>>
    BY <1>7 DEF AnswerRecord
  <2>2. CASE token \in PonsTokens /\ held
    <3>1. /\ pc' = IF aborted THEN "failed" ELSE "receipts"
          /\ NoLogs /\ UNCHANGED <<candidates, account, tokens, token>>
      BY <1>7, <2>2 DEF AnswerRecord, AskNext
    <3>2. QueryInv'
      BY <1>1, <3>1, FreshKeeps DEF NoLogs
    <3>3. PlaceInv'
      <4>1. \A a : Known(a)' <=> Known(a)
        BY <2>1 DEF Known, CreatedAt
      <4>2. Known(account)' <=> Known(account)
        BY <3>1, <4>1
      <4> QED BY <2>1, <3>1, <4>1, <4>2 DEF ScanInv, PlaceInv
    <3>4. RestInv'
      BY <1>1, <2>1, <3>1 DEF Awake, ScanInv, RestInv
    <3> QED BY <1>2, <2>1, <3>2, <3>3, <3>4 DEF ScanInv
  <2>3. CASE ~(token \in PonsTokens /\ held)
    <3>1. NextToken(tokens \ {token})
      BY <1>7, <2>3 DEF AnswerRecord
    <3> QED BY <1>6, <2>1, <3>1
  <2> QED BY <2>2, <2>3
<1>8. CASE AnswerReceipts
  BY <1>6, <1>8 DEF AnswerReceipts
<1> QED BY <1>3, <1>4, <1>5, <1>7, <1>8

LEMMA RetriesKeep ==
  ASSUME ScanInv, RateLimited \/ Wake \/ ReadFails \/ Abort
  PROVE  ScanInv'
<1>1. CASE RateLimited /\ attempt + 1 < Attempts
  <2>1. /\ attempt' = attempt + 1 /\ asleep' = TRUE
        /\ UNCHANGED <<chain, aborted, pc, query, progress>>
    BY <1>1 DEF RateLimited
  <2>2. RestInv'
    <3>1. attempt + 1 \in 0..Attempts - 1
      BY <1>1, ScanAssumption DEF ScanInv, RestInv
    <3> QED BY <2>1, <3>1 DEF progress, ScanInv, RestInv
  <2>3. PlaceInv'
    BY <2>1 DEF query, progress, ScanInv, PlaceInv, Known, CreatedAt
  <2> QED BY <2>1, <2>2, <2>3, StandStill
<1>2. CASE RateLimited /\ ~(attempt + 1 < Attempts)
  BY <1>2, RejectsKeeps DEF RateLimited
<1>3. CASE Wake /\ aborted
  BY <1>3, RejectsKeeps DEF Wake
<1>4. CASE Wake /\ ~aborted
  <2>1. asleep' = FALSE /\ UNCHANGED <<chain, aborted, pc, attempt, query, progress>>
    BY <1>4 DEF Wake
  <2>2. RestInv'
    BY <2>1 DEF progress, ScanInv, RestInv
  <2>3. PlaceInv'
    BY <2>1 DEF query, progress, ScanInv, PlaceInv, Known, CreatedAt
  <2> QED BY <2>1, <2>2, <2>3, StandStill
<1>5. CASE ReadFails
  BY <1>5, RejectsKeeps DEF ReadFails
<1>6. CASE Abort
  <2>1. aborted' = TRUE /\ UNCHANGED <<chain, pc, reading, progress>>
    BY <1>6 DEF Abort
  <2>2. RestInv' /\ UNCHANGED query
    BY <2>1 DEF reading, progress, ScanInv, RestInv
  <2>3. PlaceInv'
    BY <2>1 DEF reading, query, progress, ScanInv, PlaceInv, Known, CreatedAt
  <2> QED BY <2>1, <2>2, <2>3, StandStill
<1> QED BY <1>1, <1>2, <1>3, <1>4, <1>5, <1>6

LEMMA ScanStep == ScanInv /\ [ScanNext]_scanVars => ScanInv'
<1> SUFFICES ASSUME ScanInv, [ScanNext]_scanVars PROVE ScanInv'
  OBVIOUS
<1>1. ASSUME NEW a \in AllAccounts, NEW t \in Tokens,
             (\E logs \in 1..2 : Buy(a, t, logs)) \/ Receive(a, t) \/ Launch(a, t)
             \/ Sell(a, t)
      PROVE  ScanInv'
  <2>1. ASSUME NEW logs \in 1..2, Buy(a, t, logs) PROVE ScanInv'
    <3>1. Mine(Block(a, t, FALSE, logs, 1, FALSE))
      BY <2>1, Zenon DEF Buy
    <3>2. logs \in Nat
      OBVIOUS
    <3> QED BY <3>1, <3>2, MineKeeps
  <2>2. CASE Receive(a, t)
    BY <2>2, MineKeeps DEF Receive
  <2>3. CASE Launch(a, t)
    <3>1. PICK logs \in 0..1 : Mine(Block(a, t, TRUE, logs, logs, FALSE))
      BY <2>3 DEF Launch
    <3>2. logs \in Nat
      OBVIOUS
    <3> QED BY <3>1, <3>2, MineKeeps
  <2>4. CASE Sell(a, t)
    BY <2>4, MineKeeps DEF Sell
  <2> QED BY <1>1, <2>1, <2>2, <2>3, <2>4
<1>2. CASE Begin \/ AnswerLatest \/ AnswerBalance \/ AnswerRecord \/ AnswerReceipts
  BY <1>2, OtherReadsKeep
<1>3. CASE AnswerLogs
  BY <1>3, LogsKeep
<1>4. CASE RangeTimesOut
  BY <1>4, TimeoutKeeps
<1>5. CASE RateLimited \/ Wake \/ ReadFails \/ Abort
  BY <1>5, RetriesKeep
<1>6. CASE UNCHANGED scanVars
  <2>1. RestInv' /\ UNCHANGED <<chain, query>>
    BY <1>6 DEF scanVars, reading, progress, ScanInv, RestInv
  <2>2. PlaceInv'
    BY <1>6 DEF scanVars, reading, query, progress, ScanInv, PlaceInv, Known, CreatedAt
  <2> QED BY <2>1, <2>2, StandStill
<1> QED BY <1>1, <1>2, <1>3, <1>4, <1>5, <1>6 DEF ScanNext, Scan

LEMMA ScanInvInit == ScanInit => ScanInv
<1> SUFFICES ASSUME ScanInit PROVE ScanInv
  OBVIOUS
<1>1. ChainInv
  BY ScanAssumption DEF ScanInit, ChainInv, CreatedAt
<1>2. QueryInv
  <2>1. fetched = Nothing /\ start = 1 /\ cursor = 1 /\ range = MaxRange
    BY DEF ScanInit
  <2>2. 1 \in Blocks /\ MaxRange \in MinRange..MaxRange
    BY ScanAssumption DEF Blocks
  <2>3. \A b \in Blocks : b \notin 1..0 /\ Nothing[b] = 0
    BY DEF Blocks, Nothing
  <2> QED BY <2>1, <2>2, <2>3 DEF QueryInv, Nothing
<1>3. PlaceInv
  BY DEF ScanInit, PlaceInv, Reads, LogReads, OfAccount, OfToken, Ends
<1>4. RestInv
  <2>1. 0 \in 0..Attempts - 1 /\ 0 \in 0..Len(<< >>)
    BY ScanAssumption
  <2> QED BY <2>1 DEF ScanInit, RestInv
<1> QED BY <1>1, <1>2, <1>3, <1>4 DEF ScanInv

\* The scan's variables have their types and their ranges their bounds.
THEOREM ScanTypeCorrect == ScanSpec => []ScanTypeOK
<1>1. ScanInv => ScanTypeOK
  <2> SUFFICES ASSUME ScanInv PROVE ScanTypeOK
    OBVIOUS
  <2>1. candidates \subseteq AllAccounts
    BY DEF ScanInv, PlaceInv, Known
  <2> QED BY <2>1 DEF ScanInv, ChainInv, QueryInv, PlaceInv, RestInv, ScanTypeOK
<1> QED BY <1>1, ScanInvInit, ScanStep, PTL DEF ScanSpec

\* No block is lost and none is counted twice, however often the provider refuses
\* a range and however the ranges grow and shrink (getLogsInBlockRanges).
THEOREM BlocksScannedOnce == ScanSpec => []ScannedOnce
<1>1. ScanInv => ScannedOnce
  BY DEF ScanInv, QueryInv, ScannedOnce
<1> QED BY <1>1, ScanInvInit, ScanStep, PTL DEF ScanSpec

-----------------------------------------------------------------------------
(***************************************************************************)
(* What a set of blocks pays in all.  The sum is a fold that takes the     *)
(* blocks in an order of its own; it is shown here not to matter.          *)
(***************************************************************************)
Any(s) == CHOOSE x \in s : TRUE

\* The function f adds up what the blocks of every subset of S pay.
AddsUp(c, S, f) ==
  f = [s \in SUBSET S |->
         IF s = {} THEN 0 ELSE c[Any(s)].paid + f[s \ {Any(s)}]]

Pays(c, S) == IsFiniteSet(S) /\ \A b \in S : c[b].paid \in Nat

LEMMA PaidUnfolds ==
  ASSUME NEW c, NEW S
  PROVE  PaidIn(S, c) = (CHOOSE f : AddsUp(c, S, f))[S]
  BY DEF PaidIn, MapThenSumSet, MapThenFoldSet, Any, AddsUp

LEMMA AnyIsMember ==
  ASSUME NEW s, s # {}
  PROVE  Any(s) \in s
  BY DEF Any

\* Among finite sets there is one that contains no other by a single element less.
LEMMA LeastSet ==
  ASSUME NEW S, IsFiniteSet(S), NEW B \in SUBSET SUBSET S, B # {}
  PROVE  \E s \in B : \A x \in s : s \ {x} \notin B
<1> DEFINE N == {Cardinality(s) : s \in B}
<1>1. \A s \in B : IsFiniteSet(s) /\ Cardinality(s) \in Nat
  BY FS_Subset, FS_CardinalityType
<1>2. N \in SUBSET Nat /\ N # {}
  BY <1>1
<1>3. PICK n \in N : \A m \in N : n <= m
  <2> HIDE DEF N
  <2> QED BY <1>2, LeastNumber
<1>4. PICK s \in B : n = Cardinality(s)
  BY <1>3
<1>5. ASSUME NEW x \in s, s \ {x} \in B PROVE FALSE
  <2>1. Cardinality(s \ {x}) = Cardinality(s) - 1
    BY <1>1, FS_RemoveElement
  <2>2. n <= Cardinality(s \ {x})
    BY <1>3, <1>5
  <2> QED BY <1>1, <1>4, <2>1, <2>2
<1> QED BY <1>4, <1>5

\* There is such a function: it is put together by the size of the subsets.
LEMMA SumExists ==
  ASSUME NEW c, NEW S, Pays(c, S)
  PROVE  \E f : AddsUp(c, S, f) /\ f \in [SUBSET S -> Nat]
<1> DEFINE Upto(n) == {s \in SUBSET S : Cardinality(s) <= n}
           Onward(g, n) == [s \in Upto(n) |->
              IF s = {} THEN 0 ELSE c[Any(s)].paid + g[s \ {Any(s)}]]
           Good(n) == \E g \in [Upto(n) -> Nat] : g = Onward(g, n)
           Bad == {n \in Nat : ~Good(n)}
<1>1. \A s \in SUBSET S : IsFiniteSet(s) /\ Cardinality(s) \in Nat
  BY FS_Subset, FS_CardinalityType DEF Pays
<1>2. \A s \in SUBSET S : s # {} =>
         /\ Any(s) \in S /\ s \ {Any(s)} \in SUBSET S
         /\ c[Any(s)].paid \in Nat
         /\ Cardinality(s \ {Any(s)}) = Cardinality(s) - 1
  BY <1>1, AnyIsMember, FS_RemoveElement DEF Pays
<1>3. Good(0)
  <2> DEFINE g == [s \in Upto(0) |-> 0]
  <2>1. \A s \in Upto(0) : s = {}
    BY <1>1, FS_EmptySet
  <2>2. g \in [Upto(0) -> Nat] /\ g = Onward(g, 0)
    BY <2>1
  <2> QED BY <2>2
<1>4. ASSUME NEW n \in Nat, n # 0, Good(n - 1) PROVE Good(n)
  <2>1. PICK g \in [Upto(n - 1) -> Nat] : g = Onward(g, n - 1)
    BY <1>4
  <2> DEFINE h == Onward(g, n)
  <2>2. \A s \in Upto(n) : s # {} => s \ {Any(s)} \in Upto(n - 1)
    BY <1>1, <1>2
  <2>3. h \in [Upto(n) -> Nat]
    <3>1. ASSUME NEW s \in Upto(n), s # {}
          PROVE  c[Any(s)].paid + g[s \ {Any(s)}] \in Nat
      <4>1. c[Any(s)].paid \in Nat
        BY <1>2, <3>1
      <4>2. g[s \ {Any(s)}] \in Nat
        <5> HIDE DEF Upto
        <5> QED BY <2>1, <2>2, <3>1
      <4> QED BY <4>1, <4>2
    <3> HIDE DEF Upto
    <3> QED BY <3>1
  <2>4. \A s \in Upto(n - 1) : s \in Upto(n) /\ h[s] = g[s]
    <3>1. \A s \in Upto(n - 1) : s \in Upto(n)
      BY <1>1
    <3>2. \A s \in Upto(n - 1) :
            g[s] = IF s = {} THEN 0 ELSE c[Any(s)].paid + g[s \ {Any(s)}]
      <4> HIDE DEF Upto
      <4> QED BY <2>1
    <3> QED BY <3>1, <3>2
  <2>5. \A s \in Upto(n) : s # {} => h[s \ {Any(s)}] = g[s \ {Any(s)}]
    BY <2>2, <2>4
  <2>6. h = Onward(h, n)
    <3> HIDE DEF Upto
    <3> QED BY <2>5
  <2> QED BY <2>3, <2>6
<1>5. \A n \in Nat : Good(n)
  <2> HIDE DEF Good
  <2> SUFFICES ASSUME Bad # {} PROVE FALSE
    OBVIOUS
  <2>1. PICK n \in Bad : \A m \in Bad : n <= m
    BY LeastNumber
  <2>2. n # 0 /\ n - 1 \in Nat /\ n - 1 \notin Bad
    BY <1>3, <2>1
  <2>3. Good(n - 1)
    BY <2>2
  <2> QED BY <1>4, <2>1, <2>2, <2>3
<1>6. Upto(Cardinality(S)) = SUBSET S /\ Cardinality(S) \in Nat
  <2>1. \A s \in SUBSET S : Cardinality(s) <= Cardinality(S)
    BY FS_Subset DEF Pays
  <2> QED BY <1>1, <2>1
<1>7. PICK g \in [SUBSET S -> Nat] : g = Onward(g, Cardinality(S))
  <2>1. Good(Cardinality(S))
    BY <1>5, <1>6
  <2> HIDE DEF Onward
  <2> QED BY <1>6, <2>1
<1>8. AddsUp(c, S, g)
  <2> HIDE DEF Upto
  <2> QED BY <1>6, <1>7 DEF AddsUp
<1> QED BY <1>7, <1>8

\* It is the only one, also for a larger set and another chain with the same blocks.
LEMMA SumIsUnique ==
  ASSUME NEW c, NEW S, NEW f, AddsUp(c, S, f),
         NEW d, NEW T, NEW g, AddsUp(d, T, g),
         IsFiniteSet(S), S \subseteq T, \A b \in S : c[b].paid = d[b].paid
  PROVE  \A s \in SUBSET S : f[s] = g[s]
<1> DEFINE B == {s \in SUBSET S : f[s] # g[s]}
<1>1. \A s \in SUBSET S : f[s] = IF s = {} THEN 0 ELSE c[Any(s)].paid + f[s \ {Any(s)}]
  BY DEF AddsUp
<1>2. \A s \in SUBSET S : g[s] = IF s = {} THEN 0 ELSE d[Any(s)].paid + g[s \ {Any(s)}]
  <2>1. \A s \in SUBSET T : g[s] = IF s = {} THEN 0 ELSE d[Any(s)].paid + g[s \ {Any(s)}]
    BY DEF AddsUp
  <2>2. SUBSET S \subseteq SUBSET T
    OBVIOUS
  <2> QED BY <2>1, <2>2
<1> SUFFICES ASSUME B # {} PROVE FALSE
  OBVIOUS
<1>3. PICK s \in B : \A x \in s : s \ {x} \notin B
  <2> HIDE DEF B
  <2>1. B \in SUBSET SUBSET S
    BY DEF B
  <2> QED BY <2>1, LeastSet
<1>4. s # {}
  BY <1>1, <1>2, <1>3
<1>5. Any(s) \in s /\ s \in SUBSET S
  BY <1>4, <1>3, AnyIsMember
<1>6. f[s \ {Any(s)}] = g[s \ {Any(s)}]
  BY <1>3, <1>5
<1> QED BY <1>1, <1>2, <1>3, <1>4, <1>5, <1>6

\* What is paid in S is the value of any such function of a set around S.
LEMMA PaidIsSum ==
  ASSUME NEW c, NEW S, Pays(c, S),
         NEW d, NEW T, NEW f, AddsUp(d, T, f), S \subseteq T,
         \A b \in S : c[b].paid = d[b].paid
  PROVE  PaidIn(S, c) = f[S]
<1> DEFINE g == CHOOSE h : AddsUp(c, S, h)
<1>1. AddsUp(c, S, g)
  BY SumExists
<1>2. PaidIn(S, c) = g[S]
  BY PaidUnfolds
<1> HIDE DEF g
<1>3. \A s \in SUBSET S : g[s] = f[s]
  BY <1>1, SumIsUnique DEF Pays
<1> QED BY <1>2, <1>3

\* The order does not matter: any element may be taken first.
LEMMA AnyOrder ==
  ASSUME NEW c, NEW S, Pays(c, S), NEW f, AddsUp(c, S, f),
         \A s \in SUBSET S : f[s] \in Nat,
         NEW t \in SUBSET S, NEW y \in t
  PROVE  f[t] = c[y].paid + f[t \ {y}]
<1> DEFINE B == {s \in SUBSET S : \E x \in s : f[s] # c[x].paid + f[s \ {x}]}
<1>1. \A s \in SUBSET S : s # {} =>
        Any(s) \in s /\ f[s] = c[Any(s)].paid + f[s \ {Any(s)}]
  BY AnyIsMember DEF AddsUp
<1> SUFFICES ASSUME B # {} PROVE FALSE
  OBVIOUS
<1>2. PICK s \in B : \A x \in s : s \ {x} \notin B
  <2> HIDE DEF B
  <2>1. B \in SUBSET SUBSET S
    BY DEF B
  <2> QED BY <2>1, LeastSet DEF Pays
<1>3. PICK x \in s : f[s] # c[x].paid + f[s \ {x}]
  BY <1>2
<1> DEFINE a == Any(s)
<1>4. a \in s /\ f[s] = c[a].paid + f[s \ {a}] /\ s \in SUBSET S /\ a # x
  BY <1>1, <1>2, <1>3
<1> HIDE DEF a
<1>5. f[s \ {a}] = c[x].paid + f[(s \ {a}) \ {x}]
  <2>1. s \ {a} \in SUBSET S /\ x \in s \ {a}
    BY <1>3, <1>4
  <2> QED BY <1>2, <1>4, <2>1
<1>6. f[s \ {x}] = c[a].paid + f[(s \ {x}) \ {a}]
  <2>1. s \ {x} \in SUBSET S /\ a \in s \ {x}
    BY <1>3, <1>4
  <2> QED BY <1>2, <1>3, <2>1
<1>7. (s \ {a}) \ {x} = (s \ {x}) \ {a} /\ (s \ {a}) \ {x} \in SUBSET S
  BY <1>4
<1>8. c[a].paid \in Nat /\ c[x].paid \in Nat /\ f[(s \ {a}) \ {x}] \in Nat
  BY <1>3, <1>4, <1>7 DEF Pays
<1>9. \A k, m, n \in Nat : k + (m + n) = m + (k + n)
  OBVIOUS
<1>10. f[s] = c[x].paid + f[s \ {x}]
  <2> DEFINE r == f[(s \ {a}) \ {x}]
  <2>1. r \in Nat /\ r = f[(s \ {x}) \ {a}]
    BY <1>7, <1>8
  <2> HIDE DEF r
  <2>2. f[s] = c[a].paid + (c[x].paid + r)
    BY <1>4, <1>5 DEF r
  <2>3. c[x].paid + f[s \ {x}] = c[x].paid + (c[a].paid + r)
    BY <1>6, <2>1
  <2> QED BY <1>8, <1>9, <2>1, <2>2, <2>3
<1> QED BY <1>3, <1>10

\* A chain that has the same blocks pays the same in them.
LEMMA SamePaid ==
  ASSUME NEW c, NEW S, Pays(c, S), NEW d, \A b \in S : c[b].paid = d[b].paid
  PROVE  PaidIn(S, c) = PaidIn(S, d)
<1>1. Pays(d, S)
  BY DEF Pays
<1>2. PICK f : AddsUp(d, S, f)
  BY <1>1, SumExists
<1>3. PaidIn(S, c) = f[S] /\ PaidIn(S, d) = f[S]
  BY <1>1, <1>2, PaidIsSum
<1> QED BY <1>3

\* Blocks that pay nothing may be left out.
LEMMA NothingPaid ==
  ASSUME NEW c, NEW T, Pays(c, T), NEW S \in SUBSET T,
         \A b \in T \ S : c[b].paid = 0
  PROVE  PaidIn(S, c) = PaidIn(T, c)
<1>1. PICK f \in [SUBSET T -> Nat] : AddsUp(c, T, f)
  BY SumExists
<1>2. Pays(c, S)
  BY FS_Subset DEF Pays
<1>3. PaidIn(S, c) = f[S] /\ PaidIn(T, c) = f[T]
  BY <1>1, <1>2, PaidIsSum
<1> DEFINE B == {s \in SUBSET T : S \subseteq s /\ f[s] # f[S]}
<1>4. CASE B = {}
  BY <1>3, <1>4
<1>5. CASE B # {}
  <2>1. PICK s \in B : \A x \in s : s \ {x} \notin B
    <3> HIDE DEF B
    <3>1. B \in SUBSET SUBSET T
      BY DEF B
    <3> QED BY <1>5, <3>1, LeastSet DEF Pays
  <2>2. PICK x \in s : x \notin S
    BY <2>1
  <2>3. s \in SUBSET T /\ s \ {x} \in SUBSET T /\ S \subseteq s \ {x}
    BY <2>1, <2>2
  <2>4. f[s] = c[x].paid + f[s \ {x}]
    <3>1. \A t \in SUBSET T : f[t] \in Nat
      BY <1>1
    <3> QED BY <1>1, <2>2, <2>3, <3>1, AnyOrder
  <2>5. c[x].paid = 0 /\ f[s \ {x}] \in Nat
    BY <1>1, <2>2, <2>3
  <2>6. f[s] = f[s \ {x}]
    BY <2>4, <2>5
  <2> QED BY <2>1, <2>2, <2>3, <2>6
<1> QED BY <1>4, <1>5

-----------------------------------------------------------------------------
(***************************************************************************)
(* What is found, and that nothing is missed: the accounts, tokens and     *)
(* balances a scan still has to look at cover whatever is to be found.     *)
(***************************************************************************)
\* Every account begins with its creation, and pays only where it receives.
BlocksInv ==
  \A b \in DOMAIN chain :
    /\ \E i \in CreatedAt(chain[b].account) : i <= b
    /\ chain[b].logs = 0 => chain[b].paid = 0

\* What the scan is at is the user's, a query begins where there may be logs of it,
\* and the transfers to the account are the ones up to the head.
OwnInv ==
  /\ candidates \subseteq Own
  /\ pc \in {"idle", "latest", "done"} => candidates = {}
  /\ pc \in {"idle", "latest", "accounts"} => found = {}
  /\ pc = "accounts" => start = 1
  /\ pc \in {"transfers", "launches"} => start = FirstBlock(account)
  /\ pc \in OfAccount => account \in Own
  /\ pc \in {"launches"} \cup OfToken =>
       received = {b \in 1..latest : chain[b].account = account /\ chain[b].logs > 0}

\* The account has held the token from before the scan read the head until now.
Due(a, t) == Kept(a, t, latest, Len(chain))

\* A balance that was read was that of some moment of the scan.
HeldInv ==
  pc \in {"record", "receipts"} =>
    /\ held => \E n \in latest..Len(chain) : Kept(account, token, n, n)
    /\ Due(account, token) => held
    /\ pc = "receipts" => held /\ token \in PonsTokens

Recorded(a, t) ==
  (\E p \in found : p.account = a /\ p.token = t) \/ <<a, t>> \in skipped

\* Whatever must be found is found, passed over, or still to come.
ToCome(a, t) ==
  \/ a \in candidates
  \/ a = account /\ pc \in {"transfers", "launches"}
  \/ a = account /\ pc \in OfToken /\ t \in tokens

CoverInv ==
  pc \notin {"idle", "latest", "accounts", "failed"} =>
    \A a \in Own, t \in PonsTokens : Due(a, t) => Recorded(a, t) \/ ToCome(a, t)

FindInv == BlocksInv /\ OwnInv /\ HeldInv /\ CoverInv /\ FoundIsReal

LEMMA ChainTypes ==
  ASSUME ScanInv
  PROVE  /\ chain \in Seq(BlockRecord) /\ Len(chain) \in Nat
         /\ DOMAIN chain = 1..Len(chain)
         /\ latest \in Nat /\ latest <= Len(chain)
         /\ \A b \in 1..Len(chain) : chain[b] \in BlockRecord
         /\ \A b \in 1..Len(chain) : chain[b].logs \in Nat /\ chain[b].paid \in Nat
<1>1. chain \in Seq(BlockRecord) /\ latest \in 0..Len(chain)
  BY DEF ScanInv, ChainInv, RestInv
<1>2. DOMAIN chain = 1..Len(chain) /\ Len(chain) \in Nat
  BY <1>1
<1>3. \A b \in 1..Len(chain) : chain[b] \in BlockRecord
  BY <1>1, <1>2
<1> QED BY <1>1, <1>2, <1>3 DEF BlockRecord

\* What was kept up to a block was kept up to an earlier one, and whoever had the
\* token by some block had it by a later one.
LEMMA KeptBounds ==
  ASSUME NEW a, NEW t, NEW n \in Nat, NEW m \in Nat, Kept(a, t, n, m),
         NEW k \in Nat, n <= k, NEW l \in Nat, l <= m
  PROVE  Kept(a, t, k, l)
<1>1. PICK i \in 1..n :
        /\ chain[i].account = a /\ chain[i].token = t /\ chain[i].logs > 0
        /\ \A j \in i + 1..m : ~(chain[j].account = a /\ chain[j].token = t /\ chain[j].sold)
  BY DEF Kept
<1>2. i \in 1..k /\ \A j \in i + 1..l : j \in i + 1..m
  OBVIOUS
<1> QED BY <1>1, <1>2 DEF Kept

\* A new block changes nothing about the ones before.
LEMMA KeptAppended ==
  ASSUME ScanInv, NEW block \in BlockRecord, chain' = Append(chain, block),
         NEW a, NEW t, NEW n \in Nat, n <= Len(chain), NEW m \in Nat, m <= Len(chain)
  PROVE  Kept(a, t, n, m)' <=> Kept(a, t, n, m)
<1>1. \A b \in 1..Len(chain) : chain'[b] = chain[b]
  BY ChainTypes
<1>2. Len(chain) \in Nat
  BY ChainTypes
<1>3. \A i \in 1..n : i \in Nat /\ i \in 1..Len(chain) /\ chain'[i] = chain[i]
  BY <1>1, <1>2
<1>4. \A i \in 1..n : \A j \in i + 1..m : chain'[j] = chain[j]
  BY <1>1, <1>2
<1> QED BY <1>3, <1>4 DEF Kept

\* The account's blocks begin with the one that creates it.
LEMMA FirstIsFirst ==
  ASSUME ScanInv, BlocksInv, NEW a, Known(a), NEW b \in 1..Len(chain),
         chain[b].account = a
  PROVE  FirstBlock(a) <= b
<1>1. PICK i \in CreatedAt(a) : i <= b
  BY ChainTypes DEF BlocksInv
<1>2. CreatedAt(a) = {i}
  BY <1>1 DEF ScanInv, ChainInv, Known
<1>3. i \in Nat
  BY <1>1, ChainTypes DEF CreatedAt
<1>4. FirstBlock(a) = i
  BY <1>2, <1>3 DEF FirstBlock, Min
<1> QED BY <1>1, <1>4

\* A query that is complete has the logs of every block from where it began.
LEMMA LogsAreAll ==
  ASSUME ScanInv, pc \in LogReads, NextCursor > latest
  PROVE  Logs = {b \in 1..latest : start <= b}
<1>1. latest \in Nat /\ latest <= MaxBlocks /\ MaxBlocks \in Nat /\ cursor <= latest
  BY ChainTypes, ScanAssumption DEF ScanInv, ChainInv, PlaceInv
<1>2. QueryInv
  BY DEF ScanInv
<1>3. ChunkEnd = latest
  <2>1. ChunkEnd \in Nat /\ ChunkEnd <= latest
    BY <1>1, <1>2, ChunkBounds
  <2> QED BY <1>1, <2>1 DEF NextCursor
<1>4. ASSUME NEW b \in 1..latest PROVE Fetched[b] > 0 <=> start <= b
  <2>1. b \in Blocks /\ start \in Nat /\ cursor \in Nat /\ start <= cursor
    BY <1>1, <1>2 DEF QueryInv, Blocks
  <2>2. fetched[b] = IF b \in start..cursor - 1 THEN 1 ELSE 0
    BY <1>2, <2>1 DEF QueryInv
  <2>3. Fetched[b] = IF b \in cursor..latest THEN fetched[b] + 1 ELSE fetched[b]
    BY <1>3, <2>1 DEF Fetched
  <2> QED BY <1>1, <2>1, <2>2, <2>3
<1> QED BY <1>4 DEF Logs

\* What has been found stays real as long as the chain and the head do.
LEMMA SameFound ==
  ASSUME FoundIsReal, UNCHANGED <<chain, latest, found>>
  PROVE  FoundIsReal'
<1> SUFFICES ASSUME NEW p \in found
             PROVE  /\ p.account \in Own /\ p.token \in PonsTokens
                    /\ \E n \in latest..Len(chain) : Kept(p.account, p.token, n, n)'
                    /\ p.committed =
                         PaidIn({b \in 1..latest : /\ chain[b].account = p.account
                                                   /\ chain[b].token = p.token}, chain)'
  BY DEF FoundIsReal
<1>1. \A n : Kept(p.account, p.token, n, n)' <=> Kept(p.account, p.token, n, n)
  BY DEF Kept
<1> QED BY <1>1 DEF FoundIsReal

\* A step that leaves what the scan has found and is at alone, or gives up.
LEMMA QuietFinds ==
  ASSUME FindInv,
         UNCHANGED <<chain, latest, account, candidates, received, tokens, token, held,
                     found, skipped>>,
         \/ pc' = pc /\ start' = start
         \/ pc' = "failed"
  PROVE  FindInv'
<1>1. BlocksInv' /\ FoundIsReal'
  <2>1. BlocksInv'
    BY DEF FindInv, BlocksInv, CreatedAt
  <2>2. FoundIsReal'
    BY SameFound DEF FindInv
  <2> QED BY <2>1, <2>2
<1>2. OwnInv'
  BY DEF FindInv, OwnInv, OfToken, OfAccount, FirstBlock, CreatedAt
<1>3. HeldInv'
  BY DEF FindInv, HeldInv, Due, Kept
<1>4. CoverInv'
  BY DEF FindInv, CoverInv, Due, Kept, Recorded, ToCome, OfToken
<1> QED BY <1>1, <1>2, <1>3, <1>4 DEF FindInv

\* The account that comes next is one of those that are left.
LEMMA NextAccountTakes ==
  ASSUME ScanInv, NEW rest, rest # {}, \A x \in rest : Known(x), NextAccount(rest)
  PROVE  \E a \in rest :
           /\ pc' \in {"transfers", "failed"}
           /\ start' = FirstBlock(a)
           /\ account' = a /\ candidates' = rest \ {a}
<1> DEFINE a == CHOOSE x \in rest : \A y \in rest : FirstBlock(x) <= FirstBlock(y)
<1>1. \A x \in rest : FirstBlock(x) \in Nat
  BY FirstBlockKnown DEF ScanInv, Blocks
<1>2. \E x \in rest : \A y \in rest : FirstBlock(x) <= FirstBlock(y)
  <2> DEFINE S == {FirstBlock(x) : x \in rest}
  <2>1. S \in SUBSET Nat /\ S # {}
    BY <1>1
  <2> HIDE DEF S
  <2>2. PICK n \in S : \A m \in S : n <= m
    BY <2>1, LeastNumber
  <2> USE DEF S
  <2> QED BY <2>2
<1>3. a \in rest
  BY <1>2
<1> HIDE DEF a
<1>4. /\ pc' = IF aborted THEN "failed" ELSE "transfers"
      /\ FreshLogs(FirstBlock(a))
      /\ account' = a /\ candidates' = rest \ {a}
  BY DEF NextAccount, AskNext, a
<1> QED BY <1>3, <1>4 DEF FreshLogs

\* The scan goes on with the accounts that are left.
LEMMA NextAccountFinds ==
  ASSUME ScanInv, BlocksInv, UNCHANGED <<chain, latest>>, FoundIsReal',
         NEW rest \in SUBSET Own, \A x \in rest : Known(x), NextAccount(rest),
         \A a \in Own, t \in PonsTokens : Due(a, t) => Recorded(a, t)' \/ a \in rest
  PROVE  FindInv'
<1>1. BlocksInv'
  BY DEF BlocksInv, CreatedAt
<1>2. \A a, t : Due(a, t)' <=> Due(a, t)
  BY DEF Due, Kept
<1>3. \A a : FirstBlock(a)' = FirstBlock(a)
  BY DEF FirstBlock, CreatedAt
<1>4. CASE rest = {}
  <2>1. pc' = "done" /\ candidates' = {}
    BY <1>4 DEF NextAccount
  <2>2. OwnInv' /\ HeldInv'
    BY <2>1 DEF OwnInv, HeldInv, OfAccount, OfToken
  <2>3. CoverInv'
    BY <1>2, <1>4 DEF CoverInv
  <2> QED BY <1>1, <2>2, <2>3 DEF FindInv
<1>5. CASE rest # {}
  <2>1. PICK a \in rest :
          /\ pc' \in {"transfers", "failed"}
          /\ start' = FirstBlock(a)
          /\ account' = a /\ candidates' = rest \ {a}
    BY <1>5, NextAccountTakes
  <2>2. OwnInv'
    <3>1. FirstBlock(account)' = FirstBlock(a)
      BY <1>3, <2>1 DEF FirstBlock, CreatedAt
    <3> QED BY <2>1, <3>1 DEF OwnInv, OfAccount, OfToken
  <2>3. HeldInv'
    BY <2>1 DEF HeldInv
  <2>4. CoverInv'
    BY <1>2, <2>1 DEF CoverInv, ToCome
  <2> QED BY <1>1, <2>2, <2>3, <2>4 DEF FindInv
<1> QED BY <1>4, <1>5

\* It goes on with the tokens that are left of an account.
LEMMA NextTokenFinds ==
  ASSUME ScanInv, FindInv, pc \in {"launches"} \cup OfToken,
         UNCHANGED <<chain, latest, received>>, FoundIsReal',
         NEW rest, NextToken(rest),
         \A a \in Own, t \in PonsTokens :
           Due(a, t) => Recorded(a, t)' \/ a \in candidates \/ (a = account /\ t \in rest)
  PROVE  FindInv'
<1>1. CASE rest = {}
  <2>1. NextAccount(candidates)
    BY <1>1 DEF NextToken
  <2>2. candidates \in SUBSET Own /\ \A x \in candidates : Known(x)
    BY DEF FindInv, OwnInv, ScanInv, PlaceInv
  <2>3. \A a \in Own, t \in PonsTokens : Due(a, t) => Recorded(a, t)' \/ a \in candidates
    BY <1>1
  <2> QED BY <2>1, <2>2, <2>3, NextAccountFinds DEF FindInv
<1>2. CASE rest # {}
  <2>1. /\ pc' \in {"failed", "balance"}
        /\ tokens' = rest /\ UNCHANGED <<account, candidates>>
    BY <1>2 DEF NextToken, AskNext
  <2>2. BlocksInv'
    BY DEF FindInv, BlocksInv, CreatedAt
  <2>3. OwnInv' /\ HeldInv'
    BY <2>1 DEF FindInv, OwnInv, HeldInv, OfAccount, OfToken
  <2>4. CoverInv'
    <3>1. \A a, t : Due(a, t)' <=> Due(a, t)
      BY DEF Due, Kept
    <3> QED BY <2>1, <3>1 DEF CoverInv, ToCome, OfToken
  <2> QED BY <2>2, <2>3, <2>4 DEF FindInv
<1> QED BY <1>1, <1>2
-----------------------------------------------------------------------------
\* The token's record is not read.
LEMMA SkipFinds ==
  ASSUME ScanInv, FindInv, pc \in OfToken, Skip, UNCHANGED <<chain, latest, received>>
  PROVE  FindInv'
<1>1. /\ skipped' = skipped \cup {<<account, token>>} /\ found' = found
      /\ NextToken(tokens \ {token})
  BY DEF Skip
<1>2. FoundIsReal'
  BY <1>1, SameFound DEF FindInv
<1>3. ASSUME NEW a \in Own, NEW t \in PonsTokens, Due(a, t)
      PROVE  Recorded(a, t)' \/ a \in candidates \/ (a = account /\ t \in tokens \ {token})
  <2>1. Recorded(a, t) \/ ToCome(a, t)
    BY <1>3 DEF FindInv, CoverInv, OfToken
  <2>2. Recorded(a, t) => Recorded(a, t)'
    BY <1>1 DEF Recorded
  <2>3. a = account /\ t = token => Recorded(a, t)'
    BY <1>1 DEF Recorded
  <2> QED BY <2>1, <2>2, <2>3 DEF ToCome, OfToken
<1> QED BY <1>1, <1>2, <1>3, NextTokenFinds

LEMMA RejectsFinds ==
  ASSUME ScanInv, FindInv, Rejects, UNCHANGED chain
  PROVE  FindInv'
<1>1. CASE pc = "record"
  BY <1>1, SkipFinds DEF Rejects, OfToken
<1>2. CASE pc # "record"
  BY <1>2, QuietFinds DEF Rejects, ScanThrow, progress
<1> QED BY <1>1, <1>2

\* The chain grows by a block, which pays only if it transfers.
LEMMA MineFinds ==
  ASSUME ScanInv, FindInv, NEW a \in AllAccounts, NEW t \in Tokens,
         NEW launched \in BOOLEAN, NEW logs \in Nat, NEW paid \in Nat,
         NEW sold \in BOOLEAN, Mine(Block(a, t, launched, logs, paid, sold)),
         logs = 0 => paid = 0
  PROVE  FindInv'
<1> DEFINE block == Block(a, t, launched, logs, paid, sold)
           end == Len(chain) + 1
<1>1. block \in BlockRecord
  BY DEF Block, BlockRecord
<1>2. /\ block.account = a /\ block.created = (CreatedAt(a) = {})
      /\ block.logs = 0 => block.paid = 0
  BY DEF Block
<1>3. chain' = Append(chain, block) /\ UNCHANGED <<aborted, pc, reading, progress>>
  BY DEF Mine
<1> HIDE DEF block
<1>4. /\ chain \in Seq(BlockRecord) /\ Len(chain) \in Nat
      /\ DOMAIN chain = 1..Len(chain)
      /\ latest \in Nat /\ latest <= Len(chain)
  BY ChainTypes
<1>5. /\ chain' \in Seq(BlockRecord) /\ Len(chain') = end
      /\ DOMAIN chain' = 1..end
      /\ \A i \in 1..Len(chain) : i \in 1..end /\ chain'[i] = chain[i]
      /\ chain'[end] = block
  BY <1>1, <1>3, <1>4
<1>6. \A x : CreatedAt(x) \subseteq CreatedAt(x)'
  BY <1>4, <1>5 DEF CreatedAt
<1>7. \A x : Known(x) => CreatedAt(x)' = CreatedAt(x)
  <2>1. ASSUME NEW x, Known(x), NEW i \in CreatedAt(x)' PROVE i \in CreatedAt(x)
    <3>1. i \in 1..end /\ chain'[i].account = x /\ chain'[i].created
      BY <1>5, <2>1 DEF CreatedAt
    <3>2. i # end
      BY <1>2, <1>5, <2>1, <3>1 DEF Known
    <3>3. i \in 1..Len(chain)
      BY <1>4, <3>1, <3>2
    <3> QED BY <1>4, <1>5, <3>1, <3>3 DEF CreatedAt
  <2> QED BY <1>6, <2>1
<1>8. BlocksInv'
  <2> SUFFICES ASSUME NEW b \in 1..end, NEW x, x = chain'[b].account
               PROVE  /\ \E i \in CreatedAt(x)' : i <= b
                      /\ chain'[b].logs = 0 => chain'[b].paid = 0
    <3>1. \A b \in 1..end :
            /\ \E i \in {j \in DOMAIN chain' :
                         chain'[j].account = chain'[b].account /\ chain'[j].created} : i <= b
            /\ chain'[b].logs = 0 => chain'[b].paid = 0
      BY DEF CreatedAt
    <3> QED BY <1>5, <3>1 DEF BlocksInv, CreatedAt
  <2>1. CASE b \in 1..Len(chain)
    <3>1. /\ \E i \in CreatedAt(x) : i <= b
          /\ chain[b].logs = 0 => chain[b].paid = 0
      BY <1>4, <1>5, <2>1 DEF FindInv, BlocksInv
    <3> QED BY <1>5, <1>6, <2>1, <3>1
  <2>2. CASE b = end
    <3>1. x = a /\ (chain'[b].logs = 0 => chain'[b].paid = 0)
      BY <1>2, <1>5, <2>2
    <3>2. CASE CreatedAt(a) = {}
      <4>1. end \in DOMAIN chain' /\ chain'[end].account = a /\ chain'[end].created
        <5>1. block.created
          BY <1>2, <3>2, Zenon
        <5> QED BY <1>2, <1>4, <1>5, <5>1
      <4>2. b \in CreatedAt(x)'
        BY <2>2, <3>1, <4>1 DEF CreatedAt
      <4> QED BY <1>4, <2>2, <3>1, <4>2
    <3>3. CASE CreatedAt(a) # {}
      <4>1. PICK i \in CreatedAt(a) : TRUE
        BY <3>3
      <4>2. i \in CreatedAt(x)' /\ i <= b
        BY <1>4, <1>6, <2>2, <3>1, <4>1 DEF CreatedAt
      <4> QED BY <3>1, <4>2
    <3> QED BY <3>2, <3>3
  <2> QED BY <1>4, <2>1, <2>2
<1>9. \A b \in 1..latest : chain'[b] = chain[b]
  BY <1>4, <1>5
<1>10. OwnInv'
  <2>1. pc \in {"transfers", "launches"} => FirstBlock(account)' = FirstBlock(account)
    <3> SUFFICES ASSUME pc \in {"transfers", "launches"}
                 PROVE  FirstBlock(account)' = FirstBlock(account)
      OBVIOUS
    <3>1. Known(account) /\ account' = account
      BY <1>3 DEF ScanInv, PlaceInv, OfAccount, progress
    <3>2. CreatedAt(account)' = CreatedAt(account)
      BY <1>7, <3>1
    <3> QED BY <3>1, <3>2 DEF FirstBlock
  <2> QED BY <1>3, <1>9, <2>1
          DEF FindInv, OwnInv, OfAccount, OfToken, reading, query, progress
<1>11. \A x, y : \A n \in Nat, m \in Nat : n <= Len(chain) /\ m <= Len(chain) =>
         (Kept(x, y, n, m)' <=> Kept(x, y, n, m))
  BY <1>1, <1>3, KeptAppended
<1>12. \A x, y : Due(x, y)' => Due(x, y)
  <2> SUFFICES ASSUME NEW x, NEW y, Due(x, y)', NEW n \in Nat, n = latest,
                      NEW m \in Nat, m = Len(chain)
               PROVE  Kept(x, y, n, m)
    BY <1>4 DEF Due
  <2>1. Kept(x, y, n, m + 1)'
    BY <1>3, <1>5 DEF Due, Kept, progress
  <2>2. Kept(x, y, n, m)'
    <3>1. \A i : \A j \in i + 1..m : i \in 1..n => j \in i + 1..m + 1
      OBVIOUS
    <3> QED BY <2>1, <3>1 DEF Kept
  <2> QED BY <1>4, <1>11, <2>2
<1>13. HeldInv'
  <2>1. PICK x, y : x = account /\ y = token
    OBVIOUS
  <2>2. UNCHANGED <<pc, latest, account, token, held>> /\ Len(chain') = end
    BY <1>3, <1>5 DEF progress
  <2>3. /\ \A n : Kept(account, token, n, n)' <=> Kept(x, y, n, n)'
        /\ Due(account, token)' <=> Due(x, y)'
    BY <2>1, <2>2 DEF Due, Kept
  <2>4. pc \in {"record", "receipts"} =>
          /\ held => \E n \in latest..Len(chain) : Kept(x, y, n, n)
          /\ Due(x, y) => held
          /\ pc = "receipts" => held /\ token \in PonsTokens
    BY <2>1 DEF FindInv, HeldInv
  <2>5. \A n \in latest..Len(chain) :
          n \in latest..end /\ (Kept(x, y, n, n)' <=> Kept(x, y, n, n))
    BY <1>4, <1>11
  <2> QED BY <1>12, <2>2, <2>3, <2>4, <2>5 DEF HeldInv
<1>14. CoverInv'
  <2>1. \A x, y : (Recorded(x, y)' <=> Recorded(x, y)) /\ (ToCome(x, y)' <=> ToCome(x, y))
    BY <1>3 DEF Recorded, ToCome, progress
  <2> QED BY <1>3, <1>12, <2>1 DEF FindInv, CoverInv
<1>15. FoundIsReal'
  <2> SUFFICES ASSUME NEW p \in found
               PROVE  /\ p.account \in Own /\ p.token \in PonsTokens
                      /\ \E n \in latest..end : Kept(p.account, p.token, n, n)'
                      /\ p.committed = PaidIn({b \in 1..latest :
                            chain'[b].account = p.account /\ chain'[b].token = p.token}, chain')
    BY <1>3, <1>5 DEF FoundIsReal, progress
  <2> DEFINE S == {b \in 1..latest : chain[b].account = p.account /\ chain[b].token = p.token}
  <2>1. /\ p.account \in Own /\ p.token \in PonsTokens
        /\ \E n \in latest..Len(chain) : Kept(p.account, p.token, n, n)
        /\ p.committed = PaidIn(S, chain)
    BY DEF FindInv, FoundIsReal
  <2>2. S = {b \in 1..latest : chain'[b].account = p.account /\ chain'[b].token = p.token}
    BY <1>9
  <2>3. Pays(chain, S)
    <3>1. IsFiniteSet(1..latest)
      BY <1>4, FS_Interval
    <3>2. IsFiniteSet(S)
      BY <3>1, FS_Subset
    <3>3. \A b \in S : chain[b].paid \in Nat
      BY ChainTypes
    <3> QED BY <3>2, <3>3 DEF Pays
  <2>4. PaidIn(S, chain) = PaidIn(S, chain')
    <3>1. \A b \in S : chain[b].paid = chain'[b].paid
      BY <1>9
    <3> HIDE DEF S
    <3> QED BY <2>3, <3>1, SamePaid
  <2>5. \A n \in latest..Len(chain) :
          n \in latest..end /\ (Kept(p.account, p.token, n, n)' <=> Kept(p.account, p.token, n, n))
    BY <1>4, <1>11
  <2> QED BY <2>1, <2>2, <2>4, <2>5
<1> QED BY <1>8, <1>10, <1>13, <1>14, <1>15 DEF FindInv

\* A query is complete: its logs are all that lie up to the head.
LEMMA CompleteFinds ==
  ASSUME ScanInv, FindInv, pc \in LogReads, NextCursor > latest, Complete,
         UNCHANGED <<chain, aborted, latest, held, found, skipped>>
  PROVE  FindInv'
<1>1. Logs = {b \in 1..latest : start <= b}
  BY LogsAreAll
<1>2. FoundIsReal'
  BY SameFound DEF FindInv
<1>3. latest \in Nat /\ latest <= Len(chain) /\ Len(chain) \in Nat /\ DOMAIN chain = 1..Len(chain)
  BY ChainTypes
<1>4. ASSUME NEW a, NEW t, Due(a, t)
      PROVE  \E i \in 1..latest : chain[i].account = a /\ chain[i].token = t /\ chain[i].logs > 0
  BY <1>4 DEF Due, Kept
<1>5. \A a, t : Recorded(a, t)' <=> Recorded(a, t)
  BY DEF Recorded
<1>6. CASE pc = "accounts"
  <2>1. NextAccount(Candidates)
    BY <1>6 DEF Complete
  <2>2. Logs = 1..latest
    BY <1>1, <1>3, <1>6 DEF FindInv, OwnInv
  <2>3. Candidates \in SUBSET Own /\ \A a \in Candidates : Known(a)
    BY <2>2, <1>3, ScanAssumption DEF Candidates, Known
  <2>4. ASSUME NEW a \in Own, NEW t \in PonsTokens, Due(a, t) PROVE a \in Candidates
    <3>1. PICK i \in 1..latest : chain[i].account = a
      BY <1>4, <2>4
    <3>2. PICK k \in CreatedAt(a) : k <= i
      BY <1>3, <3>1 DEF FindInv, BlocksInv
    <3>3. k \in Logs
      BY <1>3, <2>2, <3>1, <3>2 DEF CreatedAt
    <3> QED BY <3>2, <3>3 DEF Candidates
  <2> QED BY <1>2, <2>1, <2>3, <2>4, NextAccountFinds DEF FindInv
<1>7. CASE pc = "transfers"
  <2>1. /\ received' = Transfers(account)
        /\ pc' = IF aborted THEN "failed" ELSE "launches"
        /\ start' = FirstBlock(account)
        /\ UNCHANGED <<candidates, account, tokens, token>>
    BY <1>7 DEF Complete, AskNext, FreshLogs
  <2>2. Known(account) /\ account \in Own /\ start = FirstBlock(account)
    BY <1>7 DEF ScanInv, PlaceInv, FindInv, OwnInv, OfAccount
  <2>3. Transfers(account) =
          {b \in 1..latest : chain[b].account = account /\ chain[b].logs > 0}
    <3>1. \A b \in 1..latest : chain[b].account = account => start <= b
      BY <1>3, <2>2, FirstIsFirst DEF FindInv
    <3> QED BY <1>1, <3>1 DEF Transfers
  <2>4. BlocksInv'
    BY DEF FindInv, BlocksInv, CreatedAt
  <2>5. OwnInv'
    <3>1. FirstBlock(account)' = FirstBlock(account)
      BY <2>1 DEF FirstBlock, CreatedAt
    <3> QED BY <2>1, <2>2, <2>3, <3>1 DEF FindInv, OwnInv, OfAccount, OfToken
  <2>6. HeldInv'
    BY <2>1 DEF HeldInv
  <2>7. CoverInv'
    <3>1. \A a, t : Due(a, t)' <=> Due(a, t)
      BY DEF Due, Kept
    <3> QED BY <1>5, <1>7, <2>1, <3>1 DEF FindInv, CoverInv, ToCome, OfToken
  <2> QED BY <1>2, <2>4, <2>5, <2>6, <2>7 DEF FindInv
<1>8. CASE pc = "launches"
  <2> DEFINE rest == CandidateTokens(received, Launches(account))
  <2>1. NextToken(rest) /\ received' = received
    BY <1>8 DEF Complete
  <2>2. received = {b \in 1..latest : chain[b].account = account /\ chain[b].logs > 0}
    BY <1>8 DEF FindInv, OwnInv
  <2>3. ASSUME NEW a \in Own, NEW t \in PonsTokens, Due(a, t)
        PROVE  Recorded(a, t)' \/ a \in candidates \/ (a = account /\ t \in rest)
    <3>1. Recorded(a, t) \/ ToCome(a, t)
      BY <1>8, <2>3 DEF FindInv, CoverInv
    <3>2. Due(account, t) => t \in rest
      BY <1>4, <2>2 DEF CandidateTokens
    <3> QED BY <1>5, <1>8, <2>3, <3>1, <3>2 DEF ToCome, OfToken
  <2> HIDE DEF rest
  <2> QED BY <1>2, <1>8, <2>1, <2>3, NextTokenFinds
<1> QED BY <1>6, <1>7, <1>8 DEF LogReads

LEMMA LogReadsFind ==
  ASSUME ScanInv, FindInv, AnswerLogs \/ RangeTimesOut
  PROVE  FindInv'
<1>1. CASE AnswerLogs /\ NextCursor > latest
  BY <1>1, CompleteFinds DEF AnswerLogs
<1>2. CASE AnswerLogs /\ ~(NextCursor > latest)
  BY <1>2, QuietFinds DEF AnswerLogs, AskNext
<1>3. CASE RangeTimesOut
  BY <1>3, QuietFinds DEF RangeTimesOut, ScanThrow, AskNext, progress
<1> QED BY <1>1, <1>2, <1>3

\* What was paid in the blocks of the transfers is all that was paid for the token.
LEMMA CommittedIsPaid ==
  ASSUME ScanInv, FindInv, pc \in OfToken
  PROVE  Committed = PaidIn({b \in 1..latest : /\ chain[b].account = account
                                               /\ chain[b].token = token}, chain)
<1> DEFINE T == {b \in 1..latest : chain[b].account = account /\ chain[b].token = token}
           S == {b \in received : chain[b].token = token}
<1>1. received = {b \in 1..latest : chain[b].account = account /\ chain[b].logs > 0}
  BY DEF FindInv, OwnInv
<1>2. latest \in Nat /\ latest <= Len(chain) /\ Len(chain) \in Nat
  BY ChainTypes
<1>3. Pays(chain, T)
  <2>1. IsFiniteSet(T)
    <3>1. IsFiniteSet(1..latest)
      BY <1>2, FS_Interval
    <3> QED BY <3>1, FS_Subset
  <2>2. \A b \in T : chain[b].paid \in Nat
    BY ChainTypes
  <2> QED BY <2>1, <2>2 DEF Pays
<1>4. S \in SUBSET T
  BY <1>1
<1>5. \A b \in T \ S : chain[b].paid = 0
  <2>1. \A b \in 1..Len(chain) : chain[b].logs \in Nat /\ (chain[b].logs = 0 => chain[b].paid = 0)
    BY ChainTypes DEF FindInv, BlocksInv
  <2> QED BY <1>1, <1>2, <2>1
<1> HIDE DEF S, T
<1>6. PaidIn(S, chain) = PaidIn(T, chain)
  BY <1>3, <1>4, <1>5, NothingPaid
<1> QED BY <1>6 DEF Committed, S, T

LEMMA OtherReadsFind ==
  ASSUME ScanInv, FindInv,
         Begin \/ AnswerLatest \/ AnswerBalance \/ AnswerRecord \/ AnswerReceipts
  PROVE  FindInv'
<1> USE DEF OfAccount, OfToken
<1>1. /\ UNCHANGED chain => BlocksInv'
      /\ UNCHANGED <<chain, latest>> => \A a, t : Due(a, t)' <=> Due(a, t)
  BY DEF FindInv, BlocksInv, CreatedAt, Due, Kept
<1>2. latest \in Nat /\ latest <= Len(chain) /\ Len(chain) \in Nat
  BY ChainTypes
<1>3. CASE Begin
  <2>1. pc = "idle" /\ pc' = "latest" /\ UNCHANGED <<chain, reading, progress>>
    BY <1>3 DEF Begin
  <2>2. OwnInv' /\ HeldInv' /\ CoverInv'
    BY <2>1 DEF FindInv, OwnInv, HeldInv, CoverInv, progress
  <2>3. FoundIsReal'
    BY <2>1, SameFound DEF FindInv, progress
  <2> QED BY <1>1, <2>1, <2>2, <2>3 DEF FindInv
<1>4. CASE AnswerLatest
  <2>1. /\ pc = "latest" /\ latest' = Len(chain)
        /\ pc' = IF chain = << >> THEN "done" ELSE IF aborted THEN "failed" ELSE "accounts"
        /\ start' = 1 /\ UNCHANGED <<chain, candidates, found, skipped>>
    BY <1>4 DEF AnswerLatest, AskNext, NoLogs, FreshLogs
  <2>2. found = {}
    BY <2>1 DEF FindInv, OwnInv
  <2>3. OwnInv' /\ HeldInv' /\ FoundIsReal'
    BY <2>1, <2>2 DEF FindInv, OwnInv, HeldInv, FoundIsReal
  <2>4. CoverInv'
    <3>1. chain = << >> => \A a, t : ~Due(a, t)'
      BY <2>1 DEF Due, Kept
    <3> QED BY <2>1, <3>1 DEF CoverInv
  <2> QED BY <1>1, <2>1, <2>3, <2>4 DEF FindInv
<1>5. CASE AnswerBalance
  <2>1. /\ pc = "balance" /\ held' = Holds(account, token)
        /\ UNCHANGED <<chain, aborted, latest, received>>
    BY <1>5 DEF AnswerBalance
  <2>2. CASE aborted
    BY <1>5, <2>1, <2>2, SkipFinds DEF AnswerBalance
  <2>3. CASE ~aborted
    <3>1. pc' = "record" /\ UNCHANGED <<candidates, account, tokens, token, found, skipped>>
      BY <1>5, <2>3 DEF AnswerBalance
    <3>2. OwnInv'
      BY <2>1, <3>1 DEF FindInv, OwnInv
    <3>3. HeldInv'
      <4>1. /\ held' => Kept(account, token, Len(chain), Len(chain))
            /\ Due(account, token) => held'
        BY <1>2, <2>1, KeptBounds DEF Holds, Due
      <4>2. Due(account, token)' <=> Due(account, token)
        BY <2>1, <3>1 DEF Due, Kept
      <4>3. \A n : Kept(account, token, n, n)' <=> Kept(account, token, n, n)
        BY <2>1, <3>1 DEF Kept
      <4> QED BY <1>2, <2>1, <3>1, <4>1, <4>2, <4>3 DEF HeldInv
    <3>4. CoverInv'
      <4>1. \A a, t : (Recorded(a, t)' <=> Recorded(a, t)) /\ (ToCome(a, t)' <=> ToCome(a, t))
        BY <2>1, <3>1 DEF Recorded, ToCome
      <4> QED BY <1>1, <2>1, <4>1 DEF FindInv, CoverInv
    <3>5. FoundIsReal'
      BY <2>1, <3>1, SameFound DEF FindInv
    <3> QED BY <1>1, <2>1, <3>2, <3>3, <3>4, <3>5 DEF FindInv
  <2> QED BY <2>2, <2>3
<1>6. \A a \in Own, t \in PonsTokens : pc \in OfToken /\ Due(a, t) =>
        \/ Recorded(a, t) \/ a \in candidates
        \/ a = account /\ t \in tokens
  BY DEF FindInv, CoverInv, ToCome
<1>7. CASE AnswerRecord
  <2>1. pc = "record" /\ UNCHANGED <<chain, aborted, latest, received, held, found, skipped>>
    BY <1>7 DEF AnswerRecord
  <2>2. FoundIsReal'
    BY <2>1, SameFound DEF FindInv
  <2>3. CASE token \in PonsTokens /\ held
    <3>1. pc' \in {"failed", "receipts"} /\ UNCHANGED <<candidates, account, tokens, token>>
      BY <1>7, <2>3 DEF AnswerRecord, AskNext
    <3>2. OwnInv'
      BY <2>1, <3>1 DEF FindInv, OwnInv
    <3>3. HeldInv'
      <4>1. /\ Due(account, token)' <=> Due(account, token)
            /\ \A n : Kept(account, token, n, n)' <=> Kept(account, token, n, n)
        BY <2>1, <3>1 DEF Due, Kept
      <4> QED BY <2>1, <2>3, <3>1, <4>1 DEF FindInv, HeldInv
    <3>4. CoverInv'
      <4>1. \A a, t : Recorded(a, t)' <=> Recorded(a, t)
        BY <2>1 DEF Recorded
      <4> QED BY <1>1, <1>6, <2>1, <3>1, <4>1 DEF CoverInv, ToCome
    <3> QED BY <1>1, <2>1, <2>2, <3>2, <3>3, <3>4 DEF FindInv
  <2>4. CASE ~(token \in PonsTokens /\ held)
    <3>1. NextToken(tokens \ {token})
      BY <1>7, <2>4 DEF AnswerRecord
    <3>2. ASSUME NEW a \in Own, NEW t \in PonsTokens, Due(a, t)
          PROVE  Recorded(a, t)' \/ a \in candidates \/ (a = account /\ t \in tokens \ {token})
      <4>1. ~(a = account /\ t = token)
        BY <2>1, <2>4, <3>2 DEF FindInv, HeldInv
      <4> QED BY <1>6, <2>1, <3>2, <4>1 DEF Recorded
    <3> QED BY <2>1, <2>2, <3>1, <3>2, NextTokenFinds
  <2> QED BY <2>3, <2>4
<1>8. CASE AnswerReceipts
  <2> DEFINE p == [account |-> account, token |-> token, committed |-> Committed]
  <2>1. /\ pc = "receipts" /\ found' = found \cup {p}
        /\ NextToken(tokens \ {token})
        /\ UNCHANGED <<chain, aborted, latest, received, held, skipped>>
    BY <1>8 DEF AnswerReceipts
  <2>2. /\ p.account = account /\ p.token = token
        /\ p.committed = PaidIn({b \in 1..latest : /\ chain[b].account = account
                                                   /\ chain[b].token = token}, chain)
    BY <2>1, CommittedIsPaid
  <2>3. /\ account \in Own /\ token \in PonsTokens
        /\ \E n \in latest..Len(chain) : Kept(account, token, n, n)
    BY <2>1 DEF FindInv, OwnInv, HeldInv
  <2> HIDE DEF p
  <2>4. FoundIsReal'
    <3> DEFINE Real(q) ==
          /\ q.account \in Own /\ q.token \in PonsTokens
          /\ \E n \in latest..Len(chain) : Kept(q.account, q.token, n, n)
          /\ q.committed = PaidIn({b \in 1..latest : /\ chain[b].account = q.account
                                                     /\ chain[b].token = q.token}, chain)
    <3>1. \A q \in found' : Real(q)
      BY <2>1, <2>2, <2>3 DEF FindInv, FoundIsReal
    <3>2. \A x, y, n : Kept(x, y, n, n)' <=> Kept(x, y, n, n)
      BY <2>1 DEF Kept
    <3> QED BY <2>1, <3>1, <3>2 DEF FoundIsReal
  <2>5. ASSUME NEW a \in Own, NEW t \in PonsTokens, Due(a, t)
        PROVE  Recorded(a, t)' \/ a \in candidates \/ (a = account /\ t \in tokens \ {token})
    <3>1. a = account /\ t = token => Recorded(a, t)'
      BY <2>1, <2>2 DEF Recorded
    <3>2. Recorded(a, t) => Recorded(a, t)'
      BY <2>1 DEF Recorded
    <3> QED BY <1>6, <2>1, <2>5, <3>1, <3>2
  <2> QED BY <2>1, <2>4, <2>5, NextTokenFinds
<1> QED BY <1>3, <1>4, <1>5, <1>7, <1>8

LEMMA RetriesFind ==
  ASSUME ScanInv, FindInv, RateLimited \/ Wake \/ ReadFails \/ Abort
  PROVE  FindInv'
<1>1. CASE (RateLimited /\ attempt + 1 < Attempts) \/ (Wake /\ ~aborted) \/ Abort
  BY <1>1, QuietFinds DEF RateLimited, Wake, Abort, reading, query, progress
<1>2. CASE (RateLimited /\ ~(attempt + 1 < Attempts)) \/ (Wake /\ aborted) \/ ReadFails
  BY <1>2, RejectsFinds DEF RateLimited, Wake, ReadFails
<1> QED BY <1>1, <1>2

LEMMA FindStep == ScanInv /\ FindInv /\ [ScanNext]_scanVars => FindInv'
<1> SUFFICES ASSUME ScanInv, FindInv, [ScanNext]_scanVars PROVE FindInv'
  OBVIOUS
<1>1. ASSUME NEW a \in AllAccounts, NEW t \in Tokens,
             (\E logs \in 1..2 : Buy(a, t, logs)) \/ Receive(a, t) \/ Launch(a, t)
             \/ Sell(a, t)
      PROVE  FindInv'
  <2>1. ASSUME NEW logs \in 1..2, Buy(a, t, logs) PROVE FindInv'
    <3>1. Mine(Block(a, t, FALSE, logs, 1, FALSE))
      BY <2>1, Zenon DEF Buy
    <3>2. logs \in Nat /\ logs # 0
      OBVIOUS
    <3> QED BY <3>1, <3>2, MineFinds
  <2>2. CASE Receive(a, t)
    BY <2>2, MineFinds DEF Receive
  <2>3. CASE Launch(a, t)
    <3>1. PICK logs \in 0..1 : Mine(Block(a, t, TRUE, logs, logs, FALSE))
      BY <2>3 DEF Launch
    <3>2. logs \in Nat
      OBVIOUS
    <3> QED BY <3>1, <3>2, MineFinds
  <2>4. CASE Sell(a, t)
    BY <2>4, MineFinds DEF Sell
  <2> QED BY <1>1, <2>1, <2>2, <2>3, <2>4
<1>2. CASE Begin \/ AnswerLatest \/ AnswerBalance \/ AnswerRecord \/ AnswerReceipts
  BY <1>2, OtherReadsFind
<1>3. CASE AnswerLogs \/ RangeTimesOut
  BY <1>3, LogReadsFind
<1>4. CASE RateLimited \/ Wake \/ ReadFails \/ Abort
  BY <1>4, RetriesFind
<1>5. CASE UNCHANGED scanVars
  BY <1>5, QuietFinds DEF scanVars, reading, query, progress
<1> QED BY <1>1, <1>2, <1>3, <1>4, <1>5 DEF ScanNext, Scan

LEMMA FindInvInit == ScanInit => FindInv
<1> SUFFICES ASSUME ScanInit PROVE FindInv
  OBVIOUS
<1>1. BlocksInv
  BY DEF ScanInit, BlocksInv
<1>2. OwnInv /\ HeldInv /\ CoverInv /\ FoundIsReal
  BY DEF ScanInit, OwnInv, HeldInv, CoverInv, FoundIsReal, OfAccount, OfToken
<1> QED BY <1>1, <1>2 DEF FindInv

\* A scan that has ended has found positions of the user's only, with what was paid
\* for each, and every one that was held throughout, except for tokens whose record
\* it could not read (recoverPonsPositions), for any accounts, tokens, chain and
\* provider.
THEOREM RecoveryFindsAll == ScanSpec => []RecoveryIsExact
<1>1. FindInv => RecoveryIsExact
  <2> SUFFICES ASSUME FindInv, pc = "done", NEW a \in Own, NEW t \in PonsTokens, Due(a, t)
               PROVE  Recorded(a, t)
    BY DEF FindInv, RecoveryIsExact, Due, Recorded
  <2>1. ~ToCome(a, t)
    BY DEF FindInv, OwnInv, ToCome, OfToken
  <2> QED BY <2>1 DEF FindInv, CoverInv
<1>2. ScanInit => ScanInv /\ FindInv
  BY ScanInvInit, FindInvInit
<1>3. ScanInv /\ FindInv /\ [ScanNext]_scanVars => (ScanInv /\ FindInv)'
  BY ScanStep, FindStep
<1> QED BY <1>1, <1>2, <1>3, PTL DEF ScanSpec
=============================================================================
