----------------------- MODULE ReturnTransportProofs -----------------------
(***************************************************************************)
(* Proofs about the private returns: for every number of positions, calls  *)
(* and requests, whatever of them breaks off, a position that was closed   *)
(* is empty and the money on a staging account can move on.                *)
(***************************************************************************)
EXTENDS ReturnTransport, FiniteSetTheorems, TLAPS

Stages == {"idle", "reading", "looking", "quoting", "posted", "polling",
           "checking", "depositing", "merging"}

Job == [lane : Lanes \cup {Wallet, None}, of : SUBSET Positions,
        unread : SUBSET Positions, todo : SUBSET Positions,
        cur : Requests \cup {None}, seen : Nat, topup : BOOLEAN]

Request == [st : {"fresh", "sent", "paid", "filled", "refunded", "reverted"},
            src : Positions \cup {None},
            lane : Lanes \cup {Wallet, None}, topup : BOOLEAN]

\* The source of a request that was executed is empty.
Left == {"paid", "filled", "refunded"}

\* A request q is one of its source, with gas if it is a single return.
InOrder(q, h) ==
  q.st # "fresh" =>
    /\ q.src \in Positions /\ q.lane \in Lanes \cup {Wallet}
    /\ q.lane \in Positions => q.src = q.lane /\ q.topup
    /\ q.st \in Left => q.src \notin h

\* The stages at which a flow has a request, and those at which the money of a
\* single return is, or is about to be, on its staging account.
Asking  == {"posted", "polling", "checking"}
Staging == {"posted", "polling", "checking", "depositing"}

\* What a flow at a with the locals j may rely on, when the requests are q and the
\* accounts h still hold their money.
Works(a, j, q, h) ==
  /\ a # "idle" =>
       /\ j.lane \in Lanes \cup {Wallet}
       /\ j.lane \in Positions => j.of = {j.lane}
       /\ j.unread \subseteq j.of /\ j.todo \subseteq j.of
  /\ a # "reading" => j.unread = {}
  /\ j.cur # None <=> a \in Asking
  /\ a \in Asking => q[j.cur].st # "fresh" /\ q[j.cur].src \in j.of /\ q[j.cur].lane = j.lane
  /\ a \in {"polling", "checking"} => q[j.cur].st \in Left
  /\ a \in {"polling", "checking", "depositing", "merging"} => j.lane # Wallet
  /\ j.lane \in Positions /\ a \in {"reading", "looking", "quoting"} => j.topup
  /\ a \in {"depositing", "merging"} => j.todo = {}
  /\ j.lane \in Positions /\ a \in Asking => j.todo = {}
  /\ a # "idle" =>
       \A p \in (j.of \cap h) \ Small : \/ p \in j.unread \cup j.todo
                                        \/ a = "posted" /\ p = q[j.cur].src

FlowsWork ==
  /\ \A f \in Flows : Works(at[f], job[f], req, held)
  /\ \A f, g \in Flows : job[f].cur = job[g].cur /\ f # g => job[f].cur = None

\* The money of a position is in one place: on its account, in one request, or on
\* its staging account.
OnePlace ==
  /\ \A r \in Requests : InOrder(req[r], held)
  /\ \A r, q \in Requests :
       req[r].st = "paid" /\ req[q].st = "paid" /\ req[r].src = req[q].src => r = q
  /\ \A p \in Positions :
       /\ staging[p] \in {0, Worth(p)}
       /\ staging[p] > 0 => /\ p \notin held /\ gas[p] >= GasTopup
                            /\ \A r \in Requests : req[r].st = "paid" => req[r].src # p

\* What is on its way is some flow's, or was left by one.
InSight ==
  /\ \A r \in Requests : Pending(r) => Followed(r) \/ req[r].src \in dropped
  /\ \A p \in Positions \ dropped :
       staging[p] > FeeBuffer => \E f \in Flows : job[f].lane = p /\ at[f] \in Staging
  /\ closed \cap held \subseteq Small

ReturnInv == TypeOK /\ FlowsWork /\ OnePlace /\ InSight

-----------------------------------------------------------------------------
LEMMA Facts ==
  ASSUME TypeOK
  PROVE  /\ \A f \in Flows : /\ at[f] \in Stages /\ job[f] \in Job
                             /\ job[f].of \subseteq Positions
         /\ \A r \in Requests : req[r] \in Request
         /\ NoJob \in Job /\ Fresh \in Request
         /\ \A p \in Positions : Worth(p) \in {FeeBuffer, FeeBuffer + 1}
         /\ FeeBuffer \in Nat /\ FeeBuffer > 0
BY ReturnAssumption DEF TypeOK, Stages, Job, Request, NoJob, Fresh, Worth

\* Of a flow that takes a step of its own, with its request, it is enough to know
\* that it is in order afterwards.
LEMMA OwnStep ==
  ASSUME ReturnInv, NEW f \in Flows, NEW a \in Stages, NEW c \in Job,
         at' = [at EXCEPT ![f] = a], job' = [job EXCEPT ![f] = c],
         UNCHANGED <<req, money, dropped>>,
         Works(a, c, req, held), c.cur = job[f].cur,
         closed' \subseteq closed,
         at[f] \in Staging /\ job[f].lane \in Positions
           => a \in Staging /\ c.lane = job[f].lane
  PROVE  ReturnInv'
<1> USE Facts DEF ReturnInv
<1>1. /\ \A g \in Flows \ {f} : at'[g] = at[g] /\ job'[g] = job[g]
      /\ at'[f] = a /\ job'[f] = c
      /\ req' = req /\ held' = held /\ staging' = staging /\ gas' = gas /\ dropped' = dropped
  BY DEF TypeOK, money
<1>2. TypeOK'
  BY <1>1 DEF TypeOK, Stages, Job
<1>3. FlowsWork'
  <2>1. ASSUME NEW g \in Flows PROVE Works(at[g], job[g], req, held)'
    BY <1>1 DEF FlowsWork, Works
  <2>2. ASSUME NEW g \in Flows, NEW h \in Flows, job'[g].cur = job'[h].cur, g # h
        PROVE  job'[g].cur = None
    BY <1>1, <2>2 DEF FlowsWork
  <2> QED BY <2>1, <2>2 DEF FlowsWork
<1>4. OnePlace'
  BY <1>1 DEF OnePlace
<1>5. InSight'
  <2>1. ASSUME NEW r \in Requests, Pending(r)' PROVE Followed(r)' \/ req'[r].src \in dropped'
    <3>1. Followed(r) => Followed(r)'
      BY <1>1 DEF Followed
    <3> QED BY <1>1, <2>1, <3>1 DEF InSight, Pending
  <2>2. ASSUME NEW p \in Positions \ dropped', staging'[p] > FeeBuffer
        PROVE  \E g \in Flows : job'[g].lane = p /\ at'[g] \in Staging
    <3>1. PICK g \in Flows : job[g].lane = p /\ at[g] \in Staging
      BY <1>1, <2>2 DEF InSight
    <3>2. job'[g].lane = p /\ at'[g] \in Staging
      BY <1>1, <3>1
    <3> QED BY <3>2
  <2>3. closed' \cap held' \subseteq Small
    BY <1>1 DEF InSight
  <2> QED BY <2>1, <2>2, <2>3 DEF InSight
<1> QED BY <1>2, <1>3, <1>4, <1>5

\* Calls that are over leave no more behind than what is counted as dropped.
LEMMA EndStep ==
  ASSUME ReturnInv, NEW ended \in SUBSET Flows, EndAll(ended), UNCHANGED money,
         closed' \in SUBSET Positions, dropped' \in SUBSET Positions,
         dropped \subseteq dropped', closed' \cap held \subseteq Small,
         \A f \in ended : /\ job[f].cur # None /\ Pending(job[f].cur)
                               => req[job[f].cur].src \in dropped'
                          /\ at[f] \in Staging /\ job[f].lane \in Positions
                               => job[f].lane \in dropped' \/ staging[job[f].lane] = 0
  PROVE  ReturnInv'
<1> USE Facts DEF ReturnInv
<1>1. /\ \A g \in Flows \ ended : at'[g] = at[g] /\ job'[g] = job[g]
      /\ \A g \in ended : at'[g] = "idle" /\ job'[g] = NoJob
      /\ held' = held /\ staging' = staging /\ gas' = gas
  BY DEF EndAll, money
<1>2. \A r \in Requests :
        \/ req'[r] = req[r]
        \/ req'[r] = Fresh /\ ~Pending(r) /\ \E f \in ended : job[f].cur = r
  BY DEF EndAll
<1>3. TypeOK'
  <2>1. req' \in [Requests -> Request]
    BY DEF EndAll, TypeOK, Request
  <2>2. at' \in [Flows -> Stages] /\ job' \in [Flows -> Job]
    BY DEF EndAll, TypeOK, Stages, Job
  <2> QED BY <1>1, <2>1, <2>2 DEF TypeOK, Stages, Job, Request
<1>4. ASSUME NEW g \in Flows \ ended, job[g].cur # None PROVE req'[job[g].cur] = req[job[g].cur]
  <2>1. job[g].cur \in Requests
    BY <1>4 DEF Job
  <2>2. \A f \in ended : job[f].cur # job[g].cur
    BY <1>4 DEF FlowsWork
  <2> QED BY <1>2, <2>1, <2>2
<1>5. FlowsWork'
  <2>1. ASSUME NEW g \in ended PROVE Works(at[g], job[g], req, held)'
    BY <1>1 DEF Works, NoJob, Asking
  <2>2. ASSUME NEW g \in Flows \ ended PROVE Works(at[g], job[g], req, held)'
    <3>1. Works(at[g], job[g], req, held)
      BY DEF FlowsWork
    <3> QED BY <1>1, <1>4, <3>1 DEF Works, Asking
  <2>3. ASSUME NEW g \in Flows, NEW h \in Flows, job'[g].cur = job'[h].cur, g # h
        PROVE  job'[g].cur = None
    BY <1>1, <2>3 DEF FlowsWork, NoJob
  <2> QED BY <2>1, <2>2, <2>3 DEF FlowsWork
<1>6. OnePlace'
  <2>1. ASSUME NEW r \in Requests PROVE InOrder(req[r], held)'
    BY <1>1, <1>2 DEF OnePlace, InOrder, Fresh
  <2>2. \A r \in Requests : req'[r].st = "paid" => req'[r] = req[r]
    BY <1>2 DEF Fresh
  <2>3. ASSUME NEW p \in Positions
        PROVE  /\ staging'[p] \in {0, Worth(p)}
               /\ staging'[p] > 0 => /\ p \notin held' /\ gas'[p] >= GasTopup
                                     /\ \A r \in Requests : req'[r].st = "paid" => req'[r].src # p
    BY <1>1, <2>2 DEF OnePlace
  <2> QED BY <2>1, <2>2, <2>3 DEF OnePlace
<1>7. InSight'
  <2>1. ASSUME NEW r \in Requests, Pending(r)' PROVE Followed(r)' \/ req'[r].src \in dropped'
    <3>1. req'[r] = req[r] /\ Pending(r)
      BY <1>2, <2>1 DEF Pending, Fresh
    <3>2. CASE req[r].src \in dropped
      BY <3>1, <3>2
    <3>3. ASSUME NEW f \in Flows, job[f].cur = r PROVE Followed(r)' \/ req'[r].src \in dropped'
      <4>1. CASE f \in ended
        <5>1. r # None
          BY ReturnAssumption
        <5> QED BY <3>1, <3>3, <4>1, <5>1
      <4>2. CASE f \notin ended
        BY <1>1, <3>3, <4>2 DEF Followed
      <4> QED BY <4>1, <4>2
    <3> QED BY <3>1, <3>2, <3>3 DEF InSight, Followed
  <2>2. ASSUME NEW p \in Positions \ dropped', staging'[p] > FeeBuffer
        PROVE  \E g \in Flows : job'[g].lane = p /\ at'[g] \in Staging
    <3>1. PICK g \in Flows : job[g].lane = p /\ at[g] \in Staging
      BY <1>1, <2>2 DEF InSight
    <3>2. g \notin ended
      BY <1>1, <2>2, <3>1
    <3> QED BY <1>1, <3>1, <3>2
  <2>3. closed' \cap held' \subseteq Small
    BY <1>1
  <2> QED BY <2>1, <2>2, <2>3 DEF InSight
<1> QED BY <1>3, <1>5, <1>6, <1>7

-----------------------------------------------------------------------------
(***************************************************************************)
(* The reads.                                                              *)
(***************************************************************************)
LEMMA StartKeeps ==
  ASSUME ReturnInv, NEW f \in Flows, NEW lane \in Lanes \cup {Wallet},
         NEW of \in SUBSET Positions, Start(f, lane, of)
  PROVE  ReturnInv'
<1> USE Facts DEF ReturnInv
<1> DEFINE c == [NoJob EXCEPT !.lane = lane, !.of = of, !.unread = of]
<1>1. /\ at[f] = "idle" /\ (lane \in Positions => of = {lane})
      /\ at' = [at EXCEPT ![f] = "reading"] /\ job' = [job EXCEPT ![f] = c]
      /\ UNCHANGED <<req, money, dropped>> /\ closed' \subseteq closed
  BY DEF Start, Goto
<1>2. /\ c \in Job /\ c.lane = lane /\ c.of = of /\ c.unread = of /\ c.todo = {}
      /\ c.cur = None /\ c.topup = TRUE
  BY DEF Job, NoJob
<1> HIDE DEF c
<1>3. job[f].cur = None
  BY <1>1 DEF FlowsWork, Works, Asking
<1>4. Works("reading", c, req, held)
  BY <1>1, <1>2 DEF Works, Asking
<1> QED BY <1>1, <1>2, <1>3, <1>4, OwnStep DEF Stages, Staging

LEMMA ReadSourceKeeps ==
  ASSUME ReturnInv, NEW f \in Flows, ReadSource(f)
  PROVE  ReturnInv'
<1> USE Facts DEF ReturnInv
<1>1. PICK p \in job[f].unread :
        job' = [job EXCEPT ![f].unread = @ \ {p}, ![f].todo = @ \cup ({p} \cap held)]
  BY DEF ReadSource
<1> DEFINE c == [job[f] EXCEPT !.unread = @ \ {p}, !.todo = @ \cup ({p} \cap held)]
           a == IF Cardinality(job[f].unread) > 1 THEN "reading" ELSE "looking"
<1>2. /\ at[f] = "reading" /\ at' = [at EXCEPT ![f] = a]
      /\ job' = [job EXCEPT ![f] = c] /\ UNCHANGED <<req, money, closed, dropped>>
  BY <1>1 DEF ReadSource, Goto
<1>3. /\ p \in job[f].of /\ Works("reading", job[f], req, held) /\ p \in Positions
      /\ job[f].unread \subseteq Positions
  BY <1>2 DEF FlowsWork, Works, Job
<1>4. /\ c \in Job /\ c.lane = job[f].lane /\ c.of = job[f].of /\ c.cur = job[f].cur
      /\ c.unread = job[f].unread \ {p} /\ c.topup = job[f].topup
      /\ c.todo = job[f].todo \cup ({p} \cap held)
  BY <1>3 DEF Job
<1>5. a = "looking" => c.unread = {}
  <2>1. SUFFICES ASSUME ~(Cardinality(job[f].unread) > 1) PROVE job[f].unread \ {p} = {}
    BY <1>4
  <2>2. IsFiniteSet(job[f].unread)
    BY <1>3, ReturnAssumption, FS_Subset
  <2>3. Cardinality(job[f].unread) \in Nat
    BY <2>2, FS_CardinalityType
  <2>4. IsFiniteSet(job[f].unread \ {p}) /\ Cardinality(job[f].unread \ {p}) = Cardinality(job[f].unread) - 1
    BY <2>2, FS_RemoveElement
  <2>5. Cardinality(job[f].unread \ {p}) \in Nat
    BY <2>4, FS_CardinalityType
  <2>6. Cardinality(job[f].unread \ {p}) = 0
    BY <2>1, <2>3, <2>4, <2>5
  <2> QED BY <2>4, <2>6, FS_EmptySet
<1>6. a \in {"reading", "looking"}
  OBVIOUS
<1> HIDE DEF a, c
<1>7. Works(a, c, req, held)
  BY <1>3, <1>4, <1>5, <1>6 DEF Works, Asking
<1>8. a \in Stages /\ at[f] \notin Staging /\ closed' \subseteq closed
  BY <1>2, <1>6 DEF Stages, Staging
<1> QED BY <1>2, <1>4, <1>7, <1>8, OwnStep

\* A call that returns without having left anything behind.
LEMMA SucceedKeeps ==
  ASSUME ReturnInv, NEW f \in Flows, Succeed(f), UNCHANGED money,
         job[f].lane = Wallet \/ job[f].of \cap held \subseteq Small,
         job[f].cur = None \/ ~Pending(job[f].cur),
         at[f] \in Staging /\ job[f].lane \in Positions => staging[job[f].lane] = 0
  PROVE  ReturnInv'
<1> USE Facts DEF ReturnInv
<1>1. closed' \in SUBSET Positions /\ closed' \cap held \subseteq Small
  BY DEF Succeed, TypeOK, InSight
<1>2. EndAll({f}) /\ dropped' = dropped /\ dropped \in SUBSET Positions
  BY DEF Succeed, TypeOK
<1> QED BY <1>1, <1>2, EndStep

LEMMA LookKeeps ==
  ASSUME ReturnInv, NEW f \in Flows, Look(f)
  PROVE  ReturnInv'
<1> USE Facts DEF ReturnInv
<1>1. Works(at[f], job[f], req, held)
  BY DEF FlowsWork
<1>2. /\ at[f] = "looking" /\ job[f].cur = None /\ job[f].unread = {}
      /\ job[f].todo \subseteq job[f].of
      /\ \A p \in (job[f].of \cap held) \ Small : p \in job[f].todo
      /\ job[f].lane \in Positions => job[f].topup
      /\ job[f].lane \in Lanes \cup {Wallet} /\ (job[f].lane \in Positions => job[f].of = {job[f].lane})
  BY <1>1 DEF Look, LookSingle, NothingLeft, LookBatch, LookWallet, Works, Asking
<1>3. /\ Shared \notin Positions /\ Wallet \notin Positions /\ Shared # Wallet
  BY ReturnAssumption
<1>4. job = [job EXCEPT ![f] = job[f]]
  BY DEF TypeOK
<1>5. CASE Succeed(f) /\ UNCHANGED money /\ (job[f].lane = Wallet \/ job[f].todo = {})
  BY <1>2, <1>5, SucceedKeeps DEF Staging
<1>6. CASE /\ at' = [at EXCEPT ![f] = "quoting"]
           /\ UNCHANGED <<job, req, money, closed, dropped>>
  <2>1. Works("quoting", job[f], req, held)
    BY <1>2 DEF Works, Asking
  <2> QED BY <1>2, <1>4, <1>6, <2>1, OwnStep DEF Stages, Staging
<1>7. CASE LookSingle(f)
  <2>1. CASE Goto(f, "quoting") /\ UNCHANGED job
    BY <1>6, <1>7, <2>1 DEF LookSingle, Goto
  <2>2. CASE /\ job[f].todo \ Small = {}
             /\ job' = [job EXCEPT ![f].todo = {}, ![f].seen = staging[job[f].lane]]
             /\ Goto(f, "depositing")
    <3> DEFINE c == [job[f] EXCEPT !.todo = {}, !.seen = staging[job[f].lane]]
    <3>1. staging[job[f].lane] \in Nat /\ job[f].lane \in Positions
      BY <1>7 DEF LookSingle, TypeOK, Lanes
    <3>2. /\ c \in Job /\ c.lane = job[f].lane /\ c.of = job[f].of /\ c.cur = None
          /\ c.unread = {} /\ c.topup = job[f].topup /\ c.todo = {}
      BY <1>2, <3>1 DEF Job
    <3>3. job' = [job EXCEPT ![f] = c]
      BY <2>2
    <3> HIDE DEF c
    <3>4. Works("depositing", c, req, held)
      BY <1>2, <1>3, <2>2, <3>1, <3>2 DEF Works, Asking
    <3>5. /\ at' = [at EXCEPT ![f] = "depositing"] /\ "depositing" \in Stages
          /\ UNCHANGED <<req, money, dropped>> /\ closed' \subseteq closed
          /\ at[f] \notin Staging
      BY <1>2, <1>7, <2>2 DEF LookSingle, Goto, Stages, Staging
    <3> QED BY <1>2, <3>2, <3>3, <3>4, <3>5, OwnStep
  <2> QED BY <1>7, <2>1, <2>2 DEF LookSingle
<1>8. CASE NothingLeft(f)
  BY <1>5, <1>8 DEF NothingLeft
<1>9. CASE LookBatch(f)
  <2>1. CASE job[f].todo = {} /\ Succeed(f)
    BY <1>5, <1>9, <2>1 DEF LookBatch
  <2>2. CASE /\ job' = [job EXCEPT ![f].seen = staging[Shared],
                                   ![f].topup = gas[Shared] = 0]
             /\ Goto(f, IF job[f].todo = {} THEN "depositing" ELSE "quoting")
             /\ UNCHANGED <<req, closed, dropped>>
    <3> DEFINE c == [job[f] EXCEPT !.seen = staging[Shared], !.topup = gas[Shared] = 0]
               a == IF job[f].todo = {} THEN "depositing" ELSE "quoting"
    <3>1. staging[Shared] \in Nat /\ job[f].lane = Shared
      BY <1>9 DEF LookBatch, TypeOK, Lanes
    <3>2. /\ c \in Job /\ c.lane = Shared /\ c.of = job[f].of /\ c.cur = None
          /\ c.unread = {} /\ c.todo = job[f].todo
      BY <1>2, <3>1 DEF Job
    <3>3. job' = [job EXCEPT ![f] = c] /\ at' = [at EXCEPT ![f] = a]
      BY <2>2 DEF Goto
    <3>4. a \in {"depositing", "quoting"} /\ (a = "depositing" => job[f].todo = {})
      OBVIOUS
    <3> HIDE DEF a, c
    <3>5. Works(a, c, req, held)
      BY <1>2, <1>3, <3>1, <3>2, <3>4 DEF Works, Asking, Lanes
    <3>6. /\ a \in Stages /\ UNCHANGED <<req, money, dropped>> /\ closed' \subseteq closed
          /\ at[f] \notin Staging
      BY <1>2, <1>9, <2>2, <3>4 DEF LookBatch, Stages, Staging
    <3> QED BY <1>2, <3>2, <3>3, <3>5, <3>6, OwnStep
  <2> QED BY <1>9, <2>1, <2>2 DEF LookBatch
<1>10. CASE LookWallet(f)
  BY <1>5, <1>6, <1>10 DEF LookWallet, Goto
<1> QED BY <1>7, <1>8, <1>9, <1>10 DEF Look

-----------------------------------------------------------------------------
(***************************************************************************)
(* A flow sends a request, or is done with one.                            *)
(***************************************************************************)
\* The request r of the flow f becomes q, which is not paid; the flow goes on.
LEMMA RequestStep ==
  ASSUME ReturnInv, NEW f \in Flows, NEW r \in Requests, NEW q \in Request,
         NEW a \in Stages, NEW c \in Job,
         at' = [at EXCEPT ![f] = a], job' = [job EXCEPT ![f] = c],
         req' = [req EXCEPT ![r] = q], UNCHANGED <<money, closed, dropped>>,
         InOrder(q, held), q.st \in {"fresh", "sent"},
         q.st = "sent" => c.cur = r,
         Works(a, c, req', held),
         c.cur \in {r, None}, job[f].cur \in {r, None},
         \A g \in Flows \ {f} : job[g].cur # r,
         at[f] \in Staging /\ job[f].lane \in Positions
           => a \in Staging /\ c.lane = job[f].lane
  PROVE  ReturnInv'
<1> USE Facts DEF ReturnInv
<1>1. /\ \A g \in Flows \ {f} : at'[g] = at[g] /\ job'[g] = job[g]
      /\ at'[f] = a /\ job'[f] = c
      /\ req'[r] = q /\ \A s \in Requests \ {r} : req'[s] = req[s]
      /\ held' = held /\ staging' = staging /\ gas' = gas
      /\ dropped' = dropped /\ closed' = closed
  BY DEF TypeOK, money
<1>2. TypeOK'
  <2>1. req' \in [Requests -> Request]
    BY DEF TypeOK, Request
  <2>2. at' \in [Flows -> Stages] /\ job' \in [Flows -> Job]
    BY DEF TypeOK, Stages, Job
  <2> QED BY <1>1, <2>1, <2>2 DEF TypeOK, Stages, Job, Request
<1>3. FlowsWork'
  <2>1. ASSUME NEW g \in Flows \ {f} PROVE Works(at[g], job[g], req, held)'
    <3>1. Works(at[g], job[g], req, held)
      BY DEF FlowsWork
    <3>2. job[g].cur # None => req'[job[g].cur] = req[job[g].cur]
      BY <1>1 DEF Job
    <3> QED BY <1>1, <3>1, <3>2 DEF Works, Asking
  <2>2. Works(at[f], job[f], req, held)'
    BY <1>1 DEF Works
  <2>3. ASSUME NEW g \in Flows, NEW h \in Flows, job'[g].cur = job'[h].cur, g # h
        PROVE  job'[g].cur = None
    BY <1>1, <2>3 DEF FlowsWork
  <2> QED BY <2>1, <2>2, <2>3 DEF FlowsWork
<1>4. OnePlace'
  <2>1. ASSUME NEW s \in Requests PROVE InOrder(req[s], held)'
    <3>1. InOrder(req[s], held)
      BY DEF OnePlace
    <3> QED BY <1>1, <3>1 DEF InOrder
  <2>2. \A s \in Requests : req'[s].st = "paid" => req'[s] = req[s]
    BY <1>1
  <2>3. ASSUME NEW p \in Positions
        PROVE  /\ staging'[p] \in {0, Worth(p)}
               /\ staging'[p] > 0 => /\ p \notin held' /\ gas'[p] >= GasTopup
                                     /\ \A s \in Requests : req'[s].st = "paid" => req'[s].src # p
    BY <1>1, <2>2 DEF OnePlace
  <2> QED BY <2>1, <2>2, <2>3 DEF OnePlace
<1>5. InSight'
  <2>1. ASSUME NEW s \in Requests, Pending(s)' PROVE Followed(s)' \/ req'[s].src \in dropped'
    <3>1. CASE s = r
      <4>1. q.st = "sent"
        BY <1>1, <2>1, <3>1 DEF Pending
      <4> QED BY <1>1, <3>1, <4>1 DEF Followed
    <3>2. CASE s # r
      <4>1. req'[s] = req[s] /\ Pending(s)
        BY <1>1, <2>1, <3>2 DEF Pending
      <4>2. CASE req[s].src \in dropped
        BY <1>1, <4>1, <4>2
      <4>3. ASSUME NEW g \in Flows, job[g].cur = s PROVE Followed(s)'
        <5>1. g # f
          BY <3>2, <4>3, ReturnAssumption
        <5> QED BY <1>1, <4>3, <5>1 DEF Followed
      <4> QED BY <4>1, <4>2, <4>3 DEF InSight, Followed
    <3> QED BY <3>1, <3>2
  <2>2. ASSUME NEW p \in Positions \ dropped', staging'[p] > FeeBuffer
        PROVE  \E g \in Flows : job'[g].lane = p /\ at'[g] \in Staging
    <3>1. PICK g \in Flows : job[g].lane = p /\ at[g] \in Staging
      BY <1>1, <2>2 DEF InSight
    <3>2. job'[g].lane = p /\ at'[g] \in Staging
      BY <1>1, <3>1
    <3> QED BY <3>2
  <2>3. closed' \cap held' \subseteq Small
    BY <1>1 DEF InSight
  <2> QED BY <2>1, <2>2, <2>3 DEF InSight
<1> QED BY <1>2, <1>3, <1>4, <1>5

LEMMA SendKeeps ==
  ASSUME ReturnInv, NEW f \in Flows, NEW r \in Requests, Send(f, r)
  PROVE  ReturnInv'
<1> USE Facts DEF ReturnInv
<1>1. PICK p \in job[f].todo :
        /\ req' = [req EXCEPT ![r] = [st |-> "sent", src |-> p, lane |-> job[f].lane,
                                      topup |-> job[f].topup]]
        /\ job' = [job EXCEPT ![f].cur = r, ![f].todo = @ \ {p}]
  BY DEF Send
<1> DEFINE q == [st |-> "sent", src |-> p, lane |-> job[f].lane, topup |-> job[f].topup]
           c == [job[f] EXCEPT !.cur = r, !.todo = @ \ {p}]
<1>2. /\ at[f] = "quoting" /\ req[r] = Fresh /\ at' = [at EXCEPT ![f] = "posted"]
      /\ UNCHANGED <<money, closed, dropped>>
      /\ req' = [req EXCEPT ![r] = q] /\ job' = [job EXCEPT ![f] = c]
  BY <1>1 DEF Send, Goto
<1>3. /\ job[f].lane \in Lanes \cup {Wallet} /\ (job[f].lane \in Positions => job[f].of = {job[f].lane})
      /\ p \in job[f].of /\ p \in Positions /\ job[f].cur = None /\ job[f].unread = {}
      /\ job[f].todo \subseteq job[f].of /\ (job[f].lane \in Positions => job[f].topup)
      /\ \A s \in (job[f].of \cap held) \ Small : s \in job[f].todo
  BY <1>1, <1>2 DEF FlowsWork, Works, Asking, Job
<1>4. /\ c \in Job /\ c.lane = job[f].lane /\ c.of = job[f].of /\ c.cur = r
      /\ c.unread = {} /\ c.todo = job[f].todo \ {p}
  BY <1>3 DEF Job
<1>5. /\ q \in Request /\ q.st = "sent" /\ q.src = p /\ q.lane = job[f].lane
      /\ q.topup = job[f].topup
  BY <1>3 DEF Job, Request
<1> HIDE DEF q, c
<1>6. InOrder(q, held)
  BY <1>3, <1>5 DEF InOrder, Left
<1>7. req'[r] = q /\ r # None
  BY <1>2, ReturnAssumption DEF TypeOK
<1>8. Works("posted", c, req', held)
  BY <1>3, <1>4, <1>5, <1>7 DEF Works, Asking
<1>9. \A g \in Flows \ {f} : job[g].cur # r
  <2>1. SUFFICES ASSUME NEW g \in Flows, job[g].cur = r PROVE FALSE
    OBVIOUS
  <2>2. req[r].st # "fresh"
    BY <1>7, <2>1 DEF FlowsWork, Works
  <2> QED BY <1>2, <2>2 DEF Fresh
<1>10. "posted" \in Stages /\ at[f] \notin Staging
  BY <1>2 DEF Stages, Staging
<1>11. /\ c.cur \in {r, None} /\ job[f].cur \in {r, None} /\ q.st \in {"fresh", "sent"}
       /\ (q.st = "sent" => c.cur = r)
       /\ (at[f] \in Staging /\ job[f].lane \in Positions
            => "posted" \in Staging /\ c.lane = job[f].lane)
  BY <1>3, <1>4, <1>5, <1>10
<1>12. /\ q \in Request /\ c \in Job /\ "posted" \in Stages
       /\ at' = [at EXCEPT ![f] = "posted"] /\ job' = [job EXCEPT ![f] = c]
       /\ req' = [req EXCEPT ![r] = q] /\ UNCHANGED <<money, closed, dropped>>
  BY <1>2, <1>4, <1>5, <1>10
<1> HIDE Facts DEF ReturnInv
<1> QED BY <1>6, <1>8, <1>9, <1>11, <1>12, RequestStep

LEMMA ConfirmKeeps ==
  ASSUME ReturnInv, NEW f \in Flows, Confirm(f)
  PROVE  ReturnInv'
<1> USE Facts DEF ReturnInv
<1> DEFINE r == job[f].cur
<1>1. /\ at[f] = "posted" /\ req[r].st \in Left
      /\ UNCHANGED money
  BY DEF Confirm, Left
<1>2. Works("posted", job[f], req, held)
  BY <1>1 DEF FlowsWork
<1>3. /\ r \in Requests /\ r # None /\ req[r].lane = job[f].lane /\ req[r].src \in job[f].of
      /\ req[r].src \notin held
  <2>1. r \in Requests /\ r # None /\ req[r].lane = job[f].lane /\ req[r].src \in job[f].of
    BY <1>2 DEF Works, Asking, Job
  <2>2. InOrder(req[r], held)
    BY <2>1 DEF OnePlace
  <2> QED BY <1>1, <2>1, <2>2 DEF InOrder, Left
<1>4. \A p \in (job[f].of \cap held) \ Small : p \in job[f].todo
  BY <1>2, <1>3 DEF Works
<1>5. CASE /\ job[f].lane # Wallet /\ Goto(f, "polling")
           /\ UNCHANGED <<job, req, closed, dropped>>
  <2>1. Works("polling", job[f], req, held)
    BY <1>1, <1>2, <1>4, <1>5 DEF Works, Asking
  <2>2. job' = [job EXCEPT ![f] = job[f]] /\ "polling" \in Stages /\ "polling" \in Staging
    BY <1>5 DEF TypeOK, Stages, Staging
  <2> QED BY <1>1, <1>5, <2>1, <2>2, OwnStep DEF Goto
<1>6. CASE /\ job[f].lane = Wallet
           /\ job' = [job EXCEPT ![f].cur = None]
           /\ req' = [req EXCEPT ![r] = Fresh]
           /\ Goto(f, "quoting")
           /\ UNCHANGED <<closed, dropped>>
  <2> DEFINE c == [job[f] EXCEPT !.cur = None]
  <2>1. /\ c \in Job /\ c.lane = Wallet /\ c.of = job[f].of /\ c.cur = None
        /\ c.unread = job[f].unread /\ c.todo = job[f].todo
    BY <1>6 DEF Job
  <2>2. job' = [job EXCEPT ![f] = c]
    BY <1>6
  <2> HIDE DEF c
  <2>3. Wallet \notin Positions
    BY ReturnAssumption
  <2>4. Works("quoting", c, req', held)
    BY <1>2, <1>4, <1>6, <2>1, <2>3 DEF Works, Asking
  <2>5. \A g \in Flows \ {f} : job[g].cur # r
    BY <1>3 DEF FlowsWork
  <2>6. InOrder(Fresh, held) /\ Fresh.st = "fresh" /\ "quoting" \in Stages
    BY DEF InOrder, Fresh, Stages
  <2>7. /\ c.cur \in {r, None} /\ job[f].cur \in {r, None} /\ Fresh.st \in {"fresh", "sent"}
        /\ (Fresh.st = "sent" => c.cur = r)
        /\ (at[f] \in Staging /\ job[f].lane \in Positions
             => "quoting" \in Staging /\ c.lane = job[f].lane)
        /\ UNCHANGED <<money, closed, dropped>> /\ at' = [at EXCEPT ![f] = "quoting"]
        /\ req' = [req EXCEPT ![r] = Fresh] /\ Fresh \in Request /\ r \in Requests
    BY <1>1, <1>3, <1>6, <2>1, <2>3, <2>6 DEF Goto
  <2> HIDE DEF r
  <2> QED BY <2>1, <2>2, <2>4, <2>5, <2>6, <2>7, RequestStep
<1>7. CASE job[f].lane = Wallet /\ Succeed(f)
  <2>1. ~Pending(r)
    BY <1>1, <1>3, <1>7 DEF Pending, Left
  <2>2. Wallet \notin Positions
    BY ReturnAssumption
  <2> QED BY <1>1, <1>7, <2>1, <2>2, SucceedKeeps
<1> QED BY <1>5, <1>6, <1>7 DEF Confirm

LEMMA PollKeeps ==
  ASSUME ReturnInv, NEW f \in Flows, PollSuccess(f)
  PROVE  ReturnInv'
<1> USE Facts DEF ReturnInv
<1>1. Works("polling", job[f], req, held)
  BY DEF PollSuccess, FlowsWork
<1>2. Works("checking", job[f], req, held)
  BY <1>1 DEF Works, Asking
<1>3. job' = [job EXCEPT ![f] = job[f]] /\ "checking" \in Stages /\ "checking" \in Staging
  BY DEF PollSuccess, TypeOK, Stages, Staging
<1> QED BY <1>2, <1>3, OwnStep DEF PollSuccess, Goto

LEMMA CheckKeeps ==
  ASSUME ReturnInv, NEW f \in Flows, Check(f)
  PROVE  ReturnInv'
<1> USE Facts DEF ReturnInv
<1> DEFINE r == job[f].cur
           c == [job[f] EXCEPT !.cur = None, !.seen = staging[job[f].lane], !.topup = FALSE]
<1>1. /\ at[f] = "checking" /\ req' = [req EXCEPT ![r] = Fresh]
      /\ job' = [job EXCEPT ![f] = c] /\ UNCHANGED <<money, closed, dropped>>
  BY DEF Check
<1>2. PICK a \in {"quoting", "depositing"} :
        /\ at' = [at EXCEPT ![f] = a]
        /\ a = "quoting" <=> job[f].todo # {}
  BY DEF Check, Goto
<1>3. Works("checking", job[f], req, held)
  BY <1>1 DEF FlowsWork
<1>4. /\ r \in Requests /\ r # None /\ job[f].lane \in Lanes /\ job[f].unread = {}
  BY <1>3 DEF Works, Asking, Job
<1>5. staging[job[f].lane] \in Nat
  BY <1>4 DEF TypeOK
<1>6. /\ c \in Job /\ c.lane = job[f].lane /\ c.of = job[f].of /\ c.cur = None
      /\ c.unread = {} /\ c.todo = job[f].todo
  BY <1>4, <1>5 DEF Job
<1> HIDE DEF c
<1>7. job[f].lane \in Positions => a = "depositing"
  BY <1>2, <1>3 DEF Works, Asking
<1>8. Works(a, c, req', held)
  BY <1>2, <1>3, <1>4, <1>6, <1>7 DEF Works, Asking
<1>9. \A g \in Flows \ {f} : job[g].cur # r
  BY <1>4 DEF FlowsWork
<1>10. InOrder(Fresh, held) /\ Fresh.st = "fresh" /\ a \in Stages
  BY DEF InOrder, Fresh, Stages
<1>11. at[f] \in Staging /\ job[f].lane \in Positions => a \in Staging /\ c.lane = job[f].lane
  BY <1>6, <1>7 DEF Staging
<1> QED BY <1>1, <1>2, <1>4, <1>6, <1>8, <1>9, <1>10, <1>11, RequestStep

LEMMA DepositKeeps ==
  ASSUME ReturnInv, NEW f \in Flows, Deposit(f)
  PROVE  ReturnInv'
<1> USE Facts DEF ReturnInv
<1> DEFINE l == job[f].lane
           n == job[f].seen
<1>1. /\ at[f] = "depositing" /\ at' = [at EXCEPT ![f] = "merging"]
      /\ n > FeeBuffer /\ staging[l] >= n /\ gas[l] >= GasCost
      /\ staging' = [staging EXCEPT ![l] = @ - n] /\ gas' = [gas EXCEPT ![l] = @ - GasCost]
      /\ UNCHANGED <<job, req, held, closed, dropped>>
  BY DEF Deposit, Goto
<1>2. Works("depositing", job[f], req, held)
  BY <1>1 DEF FlowsWork
<1>3. l \in Lanes /\ n \in Nat /\ staging[l] \in Nat /\ gas[l] \in Nat /\ GasCost \in Nat
  BY <1>2, ReturnAssumption DEF Works, Job, TypeOK
<1> HIDE DEF l, n
<1>4. /\ \A g \in Flows \ {f} : at'[g] = at[g]
      /\ at'[f] = "merging"
      /\ staging'[l] = staging[l] - n
      /\ \A m \in Lanes \ {l} : staging'[m] = staging[m] /\ gas'[m] = gas[m]
  BY <1>1, <1>3 DEF TypeOK
<1>5. TypeOK'
  <2>1. staging' \in [Lanes -> Nat]
    <3>1. staging[l] - n \in Nat
      BY <1>1, <1>3
    <3> QED BY <1>1, <3>1 DEF TypeOK
  <2>2. gas' \in [Lanes -> Nat]
    <3>1. gas[l] - GasCost \in Nat
      BY <1>1, <1>3
    <3> QED BY <1>1, <3>1 DEF TypeOK
  <2> QED BY <1>1, <2>1, <2>2 DEF TypeOK
<1>6. FlowsWork'
  <2>1. ASSUME NEW g \in Flows PROVE Works(at[g], job[g], req, held)'
    <3>1. Works(at[g], job[g], req, held)
      BY DEF FlowsWork
    <3>2. CASE g = f
      BY <1>1, <1>2, <1>4, <3>2 DEF Works, Asking
    <3>3. CASE g # f
      BY <1>1, <1>4, <3>1, <3>3 DEF Works
    <3> QED BY <3>2, <3>3
  <2> QED BY <1>1, <2>1 DEF FlowsWork
<1>7. l \in Positions => staging'[l] = 0
  <2>1. SUFFICES ASSUME l \in Positions PROVE staging[l] = n
    BY <1>3, <1>4
  <2>2. staging[l] \in {0, FeeBuffer, FeeBuffer + 1}
    BY <2>1 DEF OnePlace
  <2> QED BY <1>1, <1>3, <2>2
<1>8. OnePlace'
  <2>1. ASSUME NEW p \in Positions
        PROVE  /\ staging'[p] \in {0, Worth(p)}
               /\ staging'[p] > 0 => /\ p \notin held' /\ gas'[p] >= GasTopup
                                     /\ \A s \in Requests : req'[s].st = "paid" => req'[s].src # p
    <3>1. CASE p = l
      BY <1>7, <3>1
    <3>2. CASE p # l
      BY <1>1, <1>4, <3>2 DEF OnePlace, Lanes
    <3> QED BY <3>1, <3>2
  <2> QED BY <1>1, <2>1 DEF OnePlace
<1>9. InSight'
  <2>1. \A r \in Requests : Pending(r)' => Followed(r)' \/ req'[r].src \in dropped'
    BY <1>1 DEF InSight, Pending, Followed
  <2>2. ASSUME NEW p \in Positions \ dropped', staging'[p] > FeeBuffer
        PROVE  \E g \in Flows : job'[g].lane = p /\ at'[g] \in Staging
    <3>1. p # l
      BY <1>7, <2>2
    <3>2. PICK g \in Flows : job[g].lane = p /\ at[g] \in Staging
      BY <1>1, <1>4, <2>2, <3>1 DEF InSight, Lanes
    <3>3. g # f
      BY <3>1, <3>2 DEF l
    <3> QED BY <1>1, <1>4, <3>2, <3>3
  <2>3. closed' \cap held' \subseteq Small
    BY <1>1 DEF InSight
  <2> QED BY <2>1, <2>2, <2>3 DEF InSight
<1> QED BY <1>5, <1>6, <1>8, <1>9

LEMMA MergeKeeps ==
  ASSUME ReturnInv, NEW f \in Flows, Merge(f)
  PROVE  ReturnInv'
<1>1. at[f] = "merging" /\ Succeed(f) /\ UNCHANGED money
  BY DEF Merge
<1>2. Works("merging", job[f], req, held)
  BY <1>1 DEF ReturnInv, FlowsWork
<1>3. job[f].cur = None /\ job[f].of \cap held \subseteq Small /\ at[f] \notin Staging
  BY <1>1, <1>2 DEF Works, Asking, Staging
<1> QED BY <1>1, <1>3, SucceedKeeps

-----------------------------------------------------------------------------
(***************************************************************************)
(* Calls that break off.                                                   *)
(***************************************************************************)
\* What a break-off leaves on the way, Drop records.
LEMMA DropCovers ==
  ASSUME ReturnInv, NEW ended \in SUBSET Flows, Drop(ended)
  PROVE  /\ dropped' \in SUBSET Positions /\ dropped \subseteq dropped'
         /\ \A f \in ended : /\ job[f].cur # None => req[job[f].cur].src \in dropped'
                             /\ at[f] \in Staging /\ job[f].lane \in Positions
                                  => job[f].lane \in dropped'
<1> USE Facts DEF ReturnInv
<1>1. dropped' \in SUBSET Positions /\ dropped \subseteq dropped'
  BY DEF Drop, TypeOK
<1>2. ASSUME NEW f \in ended, at[f] \in Staging PROVE job[f].of \subseteq dropped'
  BY <1>2 DEF Drop, Staging
<1>3. ASSUME NEW f \in ended
      PROVE  /\ job[f].cur # None => req[job[f].cur].src \in dropped'
             /\ at[f] \in Staging /\ job[f].lane \in Positions => job[f].lane \in dropped'
  <2>1. Works(at[f], job[f], req, held)
    BY DEF FlowsWork
  <2>2. /\ job[f].cur # None => at[f] \in Staging /\ req[job[f].cur].src \in job[f].of
        /\ at[f] \in Staging /\ job[f].lane \in Positions => job[f].lane \in job[f].of
    BY <2>1 DEF Works, Asking, Staging
  <2> QED BY <1>2, <2>2
<1> QED BY <1>1, <1>3

LEMMA ThrowKeeps ==
  ASSUME ReturnInv, NEW f \in Flows, Throw(f)
  PROVE  ReturnInv'
<1>1. EndAll({f}) /\ Drop({f}) /\ UNCHANGED money /\ closed' \subseteq closed
  BY DEF Throw
<1>2. closed' \in SUBSET Positions /\ closed' \cap held \subseteq Small /\ {f} \in SUBSET Flows
  BY <1>1 DEF ReturnInv, TypeOK, InSight
<1> QED BY <1>1, <1>2, EndStep, DropCovers

LEMMA ReloadKeeps ==
  ASSUME ReturnInv, Reload
  PROVE  ReturnInv'
<1> DEFINE running == {f \in Flows : at[f] # "idle"}
<1>1. EndAll(running) /\ Drop(running) /\ UNCHANGED money /\ closed' = closed
  BY DEF Reload
<1>2. closed' \in SUBSET Positions /\ closed' \cap held \subseteq Small /\ running \in SUBSET Flows
  BY <1>1 DEF ReturnInv, TypeOK, InSight
<1> HIDE DEF running
<1> QED BY <1>1, <1>2, EndStep, DropCovers

-----------------------------------------------------------------------------
(***************************************************************************)
(* What the chain and Relay do.                                            *)
(***************************************************************************)
\* How the requests may change beside the flows: a flow that follows one finds it
\* further on, and one that nobody follows may be forgotten.
Progress ==
  \A q \in Requests :
    \/ req'[q] = req[q]
    \/ req'[q] = Fresh /\ ~Followed(q)
    \/ \E s \in {"paid", "filled", "refunded", "reverted"} :
         /\ req'[q] = [req[q] EXCEPT !.st = s]
         /\ req[q].st \in Left => s \in Left

LEMMA OutsideStep ==
  ASSUME ReturnInv, UNCHANGED <<at, job, closed, dropped>>,
         TypeOK', OnePlace', held' \subseteq held, Progress,
         \A q \in Requests : Pending(q)' => Pending(q) /\ req'[q].src = req[q].src,
         \A p \in Positions \ dropped :
           staging'[p] > FeeBuffer =>
             \/ staging[p] > FeeBuffer
             \/ \E f \in Flows : job[f].lane = p /\ at[f] \in Staging
  PROVE  ReturnInv'
<1> USE Facts DEF ReturnInv
<1>1. ASSUME NEW q \in Requests, Followed(q), req[q].st # "fresh"
      PROVE  /\ req'[q].st # "fresh" /\ req'[q].src = req[q].src /\ req'[q].lane = req[q].lane
             /\ req[q].st \in Left => req'[q].st \in Left
  <2>1. CASE req'[q] = req[q]
    BY <1>1, <2>1
  <2>2. ASSUME NEW s \in {"paid", "filled", "refunded", "reverted"},
               req'[q] = [req[q] EXCEPT !.st = s], req[q].st \in Left => s \in Left
        PROVE  /\ req'[q].st # "fresh" /\ req'[q].src = req[q].src /\ req'[q].lane = req[q].lane
               /\ req[q].st \in Left => req'[q].st \in Left
    BY <2>2 DEF Request
  <2> QED BY <1>1, <2>1, <2>2 DEF Progress
<1>2. ASSUME NEW f \in Flows PROVE Works(at[f], job[f], req, held)'
  <2>1. Works(at[f], job[f], req, held)
    BY DEF FlowsWork
  <2>2. CASE at[f] \in Asking
    <3> DEFINE q == job[f].cur
    <3>1. q \in Requests /\ Followed(q) /\ req[q].st # "fresh"
      BY <2>1, <2>2 DEF Works, Job, Followed
    <3>2. /\ req'[q].st # "fresh" /\ req'[q].src = req[q].src /\ req'[q].lane = req[q].lane
          /\ req[q].st \in Left => req'[q].st \in Left
      BY <1>1, <3>1
    <3> QED BY <2>1, <2>2, <3>2 DEF Works
  <2>3. CASE at[f] \notin Asking
    BY <2>1, <2>3 DEF Works, Asking
  <2> QED BY <2>2, <2>3
<1>3. FlowsWork'
  BY <1>2 DEF FlowsWork
<1>4. InSight'
  <2>1. ASSUME NEW q \in Requests, Pending(q)' PROVE Followed(q)' \/ req'[q].src \in dropped'
    BY <2>1 DEF InSight, Followed
  <2>2. ASSUME NEW p \in Positions \ dropped', staging'[p] > FeeBuffer
        PROVE  \E g \in Flows : job'[g].lane = p /\ at'[g] \in Staging
    BY <2>2 DEF InSight
  <2>3. closed' \cap held' \subseteq Small
    BY DEF InSight
  <2> QED BY <2>1, <2>2, <2>3 DEF InSight
<1> QED BY <1>3, <1>4

LEMMA OutcomeTypes ==
  ASSUME TypeOK, NEW r \in Requests, NEW s \in {"paid", "filled", "refunded", "reverted"}
  PROVE  /\ Outcome(r, s) \in Request
         /\ Outcome(r, s).st \in {s, "fresh"}
         /\ Outcome(r, s).st = s => /\ Outcome(r, s) = [req[r] EXCEPT !.st = s]
                                    /\ Outcome(r, s).src = req[r].src
                                    /\ Outcome(r, s).lane = req[r].lane
                                    /\ Outcome(r, s).topup = req[r].topup
         /\ (Outcome(r, s) = Fresh /\ ~Followed(r)) \/ Outcome(r, s) = [req[r] EXCEPT !.st = s]
BY Facts DEF Outcome, Request, Fresh

LEMMA ExecuteKeeps ==
  ASSUME ReturnInv, NEW r \in Requests, Execute(r)
  PROVE  ReturnInv'
<1> USE Facts DEF ReturnInv
<1>1. /\ req[r].st = "sent" /\ req[r].src \in held /\ held' = held \ {req[r].src}
      /\ UNCHANGED <<at, job, staging, gas, closed, dropped>>
  BY DEF Execute
<1>2. /\ req' \in [Requests -> Request]
      /\ \A q \in Requests \ {r} :
           \/ req'[q] = req[q]
           \/ req[q].st = "sent" /\ req'[q] = Outcome(q, "reverted")
      /\ \/ req[r].lane = Wallet /\ req'[r] = Outcome(r, "paid")
         \/ req[r].lane # Wallet /\ req'[r] = [req[r] EXCEPT !.st = "paid"]
  <2> DEFINE v == [q \in Requests |->
                     IF q = r THEN IF req[r].lane = Wallet THEN Outcome(r, "paid")
                                                           ELSE [req[r] EXCEPT !.st = "paid"]
                     ELSE IF req[q].st = "sent" /\ req[q].src = req[r].src
                          THEN Outcome(q, "reverted")
                     ELSE req[q]]
  <2>1. req' = v
    BY DEF Execute
  <2>2. [req[r] EXCEPT !.st = "paid"] \in Request
    BY DEF Request
  <2>3. ASSUME NEW q \in Requests PROVE v[q] \in Request
    BY <2>2, OutcomeTypes
  <2>4. v \in [Requests -> Request]
    BY <2>3
  <2> QED BY <2>1, <2>4
<1>3. ASSUME NEW q \in Requests
      PROVE  /\ InOrder(req'[q], held')
             /\ req'[q].st = "paid" => req'[q].src = req[q].src /\ (q = r \/ req'[q] = req[q])
             /\ Pending(q)' => Pending(q) /\ req'[q].src = req[q].src
             /\ \/ req'[q] = req[q]
                \/ req'[q] = Fresh /\ ~Followed(q)
                \/ \E s \in {"paid", "filled", "refunded", "reverted"} :
                     /\ req'[q] = [req[q] EXCEPT !.st = s]
                     /\ req[q].st \in Left => s \in Left
  <2>1. InOrder(req[q], held)
    BY DEF OnePlace
  <2>2. CASE req'[q] = req[q]
    BY <1>1, <2>1, <2>2 DEF InOrder, Pending
  <2>3. CASE q # r /\ req[q].st = "sent" /\ req'[q] = Outcome(q, "reverted")
    BY <2>1, <2>3, OutcomeTypes DEF InOrder, Pending, Left
  <2>4. CASE q = r /\ req[r].lane = Wallet /\ req'[r] = Outcome(r, "paid")
    BY <1>1, <2>1, <2>4, OutcomeTypes DEF InOrder, Pending, Left
  <2>5. CASE q = r /\ req[r].lane # Wallet /\ req'[r] = [req[r] EXCEPT !.st = "paid"]
    <3>1. /\ req'[q].st = "paid" /\ req'[q].src = req[q].src /\ req'[q].lane = req[q].lane
          /\ req'[q].topup = req[q].topup
      BY <2>5 DEF Request
    <3> QED BY <1>1, <2>1, <2>5, <3>1 DEF InOrder, Pending, Left
  <2> QED BY <1>2, <2>2, <2>3, <2>4, <2>5
<1>4. TypeOK'
  BY <1>1, <1>2 DEF TypeOK, Request
<1>5. OnePlace'
  <2>1. ASSUME NEW q \in Requests, NEW s \in Requests,
               req'[q].st = "paid", req'[s].st = "paid", req'[q].src = req'[s].src
        PROVE  q = s
    <3>1. ASSUME NEW t \in Requests \ {r}, req'[t].st = "paid"
          PROVE  req'[t] = req[t] /\ req[t].src \notin held
      <4>1. req'[t] = req[t] /\ InOrder(req[t], held)
        BY <1>3, <3>1 DEF OnePlace
      <4> QED BY <3>1, <4>1 DEF InOrder, Left
    <3>2. CASE q # r /\ s # r
      <4>1. req'[q] = req[q] /\ req'[s] = req[s]
        BY <2>1, <3>1, <3>2
      <4> QED BY <2>1, <4>1 DEF OnePlace
    <3>3. CASE q = r /\ s # r
      BY <1>1, <1>3, <2>1, <3>1, <3>3
    <3>4. CASE q # r /\ s = r
      BY <1>1, <1>3, <2>1, <3>1, <3>4
    <3> QED BY <3>2, <3>3, <3>4
  <2>2. ASSUME NEW p \in Positions
        PROVE  /\ staging'[p] \in {0, Worth(p)}
               /\ staging'[p] > 0 => /\ p \notin held' /\ gas'[p] >= GasTopup
                                     /\ \A s \in Requests : req'[s].st = "paid" => req'[s].src # p
    <3>1. SUFFICES ASSUME staging[p] > 0, NEW s \in Requests, req'[s].st = "paid"
                   PROVE  req'[s].src # p
      BY <1>1 DEF OnePlace
    <3> QED BY <1>1, <1>3, <3>1 DEF OnePlace
  <2> QED BY <1>3, <2>1, <2>2 DEF OnePlace
<1>6. held' \subseteq held /\ Progress
  BY <1>1, <1>3 DEF Progress
<1> QED BY <1>1, <1>3, <1>4, <1>5, <1>6, OutsideStep DEF InSight

\* Outcomes other than an execution: one request moves on, or is forgotten.
LEMMA OutcomeKeeps ==
  ASSUME ReturnInv, NEW r \in Requests, NEW s \in {"filled", "refunded", "reverted"},
         Pending(r), req[r].st = "paid" => s # "reverted",
         req[r].st = "sent" => s = "reverted",
         req' = [req EXCEPT ![r] = Outcome(r, s)]
  PROVE  /\ req' \in [Requests -> Request] /\ Progress
         /\ \A q \in Requests : InOrder(req'[q], held)
         /\ \A q \in Requests : req'[q].st = "paid" => req'[q] = req[q] /\ q # r
         /\ \A q \in Requests : Pending(q)' => Pending(q) /\ req'[q].src = req[q].src
<1> USE Facts DEF ReturnInv
<1>1. req'[r] = Outcome(r, s) /\ \A q \in Requests \ {r} : req'[q] = req[q]
  BY DEF TypeOK
<1>2. req' \in [Requests -> Request]
  BY OutcomeTypes DEF TypeOK, Request
<1>3. req[r].st \in {"sent", "paid"} /\ InOrder(req[r], held)
  BY DEF Pending, OnePlace
<1>4. Progress
  <2>1. req[r].st \in Left => s \in Left
    BY <1>3 DEF Left
  <2>2. \/ req'[r] = Fresh /\ ~Followed(r)
        \/ req'[r] = [req[r] EXCEPT !.st = s]
    BY <1>1, OutcomeTypes
  <2> QED BY <1>1, <2>1, <2>2 DEF Progress
<1>5. InOrder(req'[r], held) /\ req'[r].st # "paid" /\ ~Pending(r)'
  BY <1>1, <1>3, OutcomeTypes DEF InOrder, Left, Pending
<1>6. \A q \in Requests : InOrder(req'[q], held)
  BY <1>1, <1>5 DEF OnePlace
<1>7. \A q \in Requests : req'[q].st = "paid" => req'[q] = req[q] /\ q # r
  BY <1>1, <1>5
<1>8. \A q \in Requests : Pending(q)' => Pending(q) /\ req'[q].src = req[q].src
  BY <1>1, <1>5 DEF Pending
<1> QED BY <1>2, <1>4, <1>6, <1>7, <1>8

LEMMA FailsOrRefundKeeps ==
  ASSUME ReturnInv, NEW r \in Requests, Fails(r) \/ Refund(r)
  PROVE  ReturnInv'
<1> USE Facts DEF ReturnInv
<1>1. PICK s \in {"refunded", "reverted"} :
        /\ req' = [req EXCEPT ![r] = Outcome(r, s)]
        /\ Pending(r) /\ (req[r].st = "paid" => s # "reverted") /\ (req[r].st = "sent" => s = "reverted")
        /\ UNCHANGED <<at, job, held, staging, gas, closed, dropped>>
  BY DEF Fails, Refund, Pending, money
<1>2. /\ req' \in [Requests -> Request] /\ Progress
      /\ \A q \in Requests : InOrder(req'[q], held)
      /\ \A q \in Requests : req'[q].st = "paid" => req'[q] = req[q] /\ q # r
      /\ \A q \in Requests : Pending(q)' => Pending(q) /\ req'[q].src = req[q].src
  BY <1>1, OutcomeKeeps
<1>3. TypeOK'
  BY <1>1, <1>2 DEF TypeOK, Request
<1>4. OnePlace'
  BY <1>1, <1>2 DEF OnePlace
<1>5. \A p \in Positions : staging'[p] = staging[p]
  BY <1>1
<1> QED BY <1>1, <1>2, <1>3, <1>4, <1>5, OutsideStep

LEMMA FillKeeps ==
  ASSUME ReturnInv, NEW r \in Requests, Fill(r)
  PROVE  ReturnInv'
<1> USE Facts DEF ReturnInv
<1> DEFINE l == req[r].lane
           p == req[r].src
           g == IF req[r].topup THEN GasTopup ELSE 0
<1>1. /\ req[r].st = "paid" /\ l # Wallet /\ req' = [req EXCEPT ![r] = Outcome(r, "filled")]
      /\ staging' = [staging EXCEPT ![l] = @ + Worth(p)] /\ gas' = [gas EXCEPT ![l] = @ + g]
      /\ UNCHANGED <<at, job, held, closed, dropped>> /\ Pending(r)
  BY DEF Fill, Pending
<1>2. /\ req' \in [Requests -> Request] /\ Progress
      /\ \A q \in Requests : InOrder(req'[q], held)
      /\ \A q \in Requests : req'[q].st = "paid" => req'[q] = req[q] /\ q # r
      /\ \A q \in Requests : Pending(q)' => Pending(q) /\ req'[q].src = req[q].src
  BY <1>1, OutcomeKeeps
<1>3. /\ l \in Lanes /\ p \in Positions /\ p \notin held
      /\ l \in Positions => p = l /\ req[r].topup
  BY <1>1 DEF OnePlace, InOrder, Left
<1>4. staging[l] \in Nat /\ gas[l] \in Nat /\ g \in Nat /\ Worth(p) \in Nat /\ GasTopup \in Nat
  BY <1>3, ReturnAssumption DEF TypeOK
<1>5. /\ staging'[l] = staging[l] + Worth(p) /\ gas'[l] = gas[l] + g
      /\ \A m \in Lanes \ {l} : staging'[m] = staging[m] /\ gas'[m] = gas[m]
      /\ l \in Positions => g = GasTopup
  BY <1>1, <1>3 DEF TypeOK
<1> HIDE DEF g
<1>6. TypeOK'
  <2>1. staging' \in [Lanes -> Nat] /\ gas' \in [Lanes -> Nat]
    <3>1. staging[l] + Worth(p) \in Nat /\ gas[l] + g \in Nat
      BY <1>4
    <3> QED BY <1>1, <3>1 DEF TypeOK
  <2> QED BY <1>1, <1>2, <2>1 DEF TypeOK, Request
<1>7. OnePlace'
  <2>1. ASSUME NEW m \in Positions
        PROVE  /\ staging'[m] \in {0, Worth(m)}
               /\ staging'[m] > 0 => /\ m \notin held' /\ gas'[m] >= GasTopup
                                     /\ \A s \in Requests : req'[s].st = "paid" => req'[s].src # m
    <3>1. CASE m = l
      <4>1. staging[l] = 0 /\ p = l
        BY <1>1, <1>3, <1>4, <3>1 DEF OnePlace
      <4>2. staging'[m] = Worth(m) /\ gas'[m] >= GasTopup
        BY <1>4, <1>5, <3>1, <4>1
      <4>3. \A s \in Requests : req'[s].st = "paid" => req'[s].src # m
        BY <1>1, <1>2, <3>1, <4>1 DEF OnePlace
      <4> QED BY <1>1, <1>3, <3>1, <4>1, <4>2, <4>3
    <3>2. CASE m # l
      <4>1. staging'[m] = staging[m] /\ gas'[m] = gas[m]
        BY <1>5, <3>2 DEF Lanes
      <4> QED BY <1>1, <1>2, <4>1 DEF OnePlace
    <3> QED BY <3>1, <3>2
  <2> QED BY <1>1, <1>2, <2>1 DEF OnePlace
<1>8. ASSUME NEW m \in Positions \ dropped, staging'[m] > FeeBuffer
      PROVE  \/ staging[m] > FeeBuffer
             \/ \E f \in Flows : job[f].lane = m /\ at[f] \in Staging
  <2>1. CASE m = l
    <3>1. PICK f \in Flows : job[f].cur = r
      BY <1>1, <1>3, <2>1 DEF InSight, Followed
    <3>2. job[f].lane = m /\ at[f] \in Staging
      <4>1. Works(at[f], job[f], req, held) /\ r # None
        BY ReturnAssumption DEF FlowsWork
      <4> QED BY <2>1, <3>1, <4>1 DEF Works, Asking, Staging
    <3> QED BY <3>2
  <2>2. CASE m # l
    BY <1>5, <1>8, <2>2 DEF Lanes
  <2> QED BY <2>1, <2>2
<1> QED BY <1>1, <1>2, <1>6, <1>7, <1>8, OutsideStep

-----------------------------------------------------------------------------
LEMMA ReturnInit == Init => ReturnInv
<1> SUFFICES ASSUME Init PROVE ReturnInv
  OBVIOUS
<1>1. TypeOK
  BY ReturnAssumption DEF Init, TypeOK, NoJob, Fresh
<1>2. FlowsWork
  BY DEF Init, FlowsWork, Works, NoJob, Asking
<1>3. OnePlace
  BY DEF Init, OnePlace, InOrder, Fresh, Lanes
<1>4. InSight
  BY ReturnAssumption DEF Init, InSight, Pending, Fresh, Lanes
<1> QED BY <1>1, <1>2, <1>3, <1>4 DEF ReturnInv

LEMMA ReturnStep == ReturnInv /\ [Next]_vars => ReturnInv'
<1> SUFFICES ASSUME ReturnInv, [Next]_vars PROVE ReturnInv'
  OBVIOUS
<1>1. ASSUME NEW f \in Flows, NEW p \in Positions, Start(f, p, {p}) PROVE ReturnInv'
  BY <1>1, StartKeeps DEF Lanes
<1>2. ASSUME NEW f \in Flows, NEW of \in SUBSET Positions, NEW lane \in {Shared, Wallet},
             Start(f, lane, of)
      PROVE  ReturnInv'
  BY <1>2, StartKeeps DEF Lanes
<1>3. ASSUME NEW f \in Flows, Advance(f) PROVE ReturnInv'
  BY <1>3, ReadSourceKeeps, LookKeeps, SendKeeps, ConfirmKeeps, PollKeeps, CheckKeeps,
     DepositKeeps, MergeKeeps DEF Advance
<1>4. ASSUME NEW f \in Flows, Throw(f) PROVE ReturnInv'
  BY <1>4, ThrowKeeps
<1>5. ASSUME NEW r \in Requests, Outside(r) PROVE ReturnInv'
  BY <1>5, ExecuteKeeps, FailsOrRefundKeeps, FillKeeps DEF Outside
<1>6. CASE Reload
  BY <1>6, ReloadKeeps
<1>7. CASE UNCHANGED vars
  <2>1. TypeOK'
    BY <1>7 DEF ReturnInv, TypeOK, vars, money
  <2>2. FlowsWork'
    BY <1>7 DEF ReturnInv, FlowsWork, Works, vars, money
  <2>3. OnePlace'
    BY <1>7 DEF ReturnInv, OnePlace, vars, money
  <2>4. InSight'
    BY <1>7 DEF ReturnInv, InSight, Pending, Followed, vars, money
  <2> QED BY <2>1, <2>2, <2>3, <2>4 DEF ReturnInv
<1> QED BY <1>1, <1>2, <1>3, <1>4, <1>5, <1>6, <1>7 DEF Next

LEMMA ReturnInvariant == Spec => []ReturnInv
BY ReturnInit, ReturnStep, PTL DEF Spec

\* Every flow, request and balance keeps the form the code gives it: no amount a
\* return subtracts makes a balance negative.
THEOREM ReturnTypeCorrect == Spec => []TypeOK
<1>1. ReturnInv => TypeOK
  BY DEF ReturnInv
<1> QED BY <1>1, ReturnInvariant, PTL

\* returnSession, returnSessions and the automatic return of a sale, any number of
\* them at a time: a position they have closed is empty, unless a return of it has
\* broken off with its money on the way.
THEOREM ClosedAreEmpty == Spec => []ClosedIsEmpty
<1>1. ASSUME ReturnInv PROVE ClosedIsEmpty
  <2>1. ASSUME NEW p \in closed \ dropped
        PROVE  /\ p \in held => p \in Small
               /\ \A r \in Requests : Pending(r) /\ req[r].src = p => Followed(r)
               /\ staging[p] > FeeBuffer => \E f \in Flows : job[f].lane = p
    <3>1. p \in Positions
      BY <1>1 DEF ReturnInv, TypeOK
    <3> QED BY <1>1, <3>1 DEF ReturnInv, InSight
  <2> QED BY <2>1 DEF ClosedIsEmpty
<1> QED BY <1>1, ReturnInvariant, PTL

\* The gas that a single return asks for with every transfer is enough for the
\* deposit, also of a later return that finds the money on the staging account.
THEOREM StagedCanMove == Spec => []StagedHasGas
<1>1. ASSUME ReturnInv PROVE StagedHasGas
  <2>1. ASSUME NEW p \in Positions, staging[p] > FeeBuffer PROVE gas[p] >= GasCost
    <3>1. gas[p] \in Nat /\ staging[p] > 0 /\ gas[p] >= GasTopup
      BY <1>1, <2>1, Facts DEF ReturnInv, OnePlace, TypeOK, Lanes
    <3> QED BY <3>1, ReturnAssumption
  <2> QED BY <2>1 DEF StagedHasGas
<1> QED BY <1>1, ReturnInvariant, PTL
=============================================================================
