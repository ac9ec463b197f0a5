------------------------ MODULE MainnetProverProofs ------------------------
(***************************************************************************)
(* What the two prover relays behind the proving endpoint guarantee, for   *)
(* any number of handlers, attempts and losses, timeouts and margins.      *)
(***************************************************************************)
EXTENDS MainnetProver, TLAPS

(***************************************************************************)
(* The Starkscan relay.                                                    *)
(*                                                                         *)
(* The argument: the end of a job is final at Starkscan, and all that the  *)
(* store and the handlers say of the end of a job is true.  So a handler   *)
(* that takes a new attempt, from the cursor, from a stored answer or from *)
(* the answer it has just heard, does so after a success.                  *)
(***************************************************************************)
\* The attempt n may be worked for, when the jobs are j.
Open(n, j) == n > 0 => j[n - 1] = "succeeded"

StoreIsTrue ==
  /\ Open(cursor.attempt, job)
  /\ cursor.status \in Ended => job[cursor.attempt] = cursor.status
  /\ \A n \in Attempts : terminal[n] # "none" => job[n] = terminal[n]

\* What the handler r says is true of the jobs j and the stored answers k.
IsTrue(r, j, k) ==
  /\ Open(r.attempt, j)
  /\ r.got.status \in Ended => j[r.attempt] = r.got.status
  /\ r.at = "rotate" => j[r.attempt] = "succeeded"
  /\ r.at = "mark" => r.got.status \in Ended /\ r.attempt \in k

HandlersAreTrue == \A h \in Handlers : IsTrue(handler[h], job, kept)

IInv ==
  /\ TypeOK
  /\ AttemptsFollowSuccess
  /\ StoreIsTrue
  /\ HandlersAreTrue
  /\ KeptBeforeMarked
  /\ AnswerIsEarned

Handler == [at: {"idle", "cursor", "terminal", "rotate", "post", "save", "mark",
                 "poll"},
            attempt: Attempts, got: Answer]

LEMMA InitIInv == Init => IInv
<1> SUFFICES ASSUME Init PROVE IInv
  OBVIOUS
<1>0. 0 \in Attempts /\ MaxLosses \in Nat
  BY ProverAssumption DEF Attempts
<1> USE <1>0 DEF Init, Idle, NoAnswer, NewCursor, Ended
<1>1. TypeOK
  BY DEF TypeOK, Cursor, Answer, Statuses
<1>2. AttemptsFollowSuccess /\ KeptBeforeMarked /\ AnswerIsEarned
  BY DEF AttemptsFollowSuccess, KeptBeforeMarked, AnswerIsEarned
<1>3. StoreIsTrue /\ HandlersAreTrue
  BY DEF StoreIsTrue, HandlersAreTrue, IsTrue, Open, Attempts
<1> QED BY <1>1, <1>2, <1>3 DEF IInv

\* The parts of a handler.
LEMMA HandlerFields ==
  ASSUME TypeOK, NEW h \in Handlers
  PROVE  /\ handler[h] \in Handler
         /\ N(h) \in Attempts /\ N(h) \in Nat /\ N(h) <= MaxAttempts
         /\ Got(h) \in Answer
         /\ Got(h).status \in Statuses /\ Got(h).proof \in BOOLEAN
  BY ProverAssumption DEF TypeOK, Handler, N, Got, Answer, Attempts

\* The end of a job is final, and what was stored was stored.
Later == /\ \A n \in Attempts : job[n] \in Ended => job'[n] = job[n]
         /\ kept \subseteq kept'

\* What is true of the jobs stays true.
LEMMA TrueStaysTrue ==
  ASSUME Later, NEW r \in Handler, IsTrue(r, job, kept)
  PROVE  IsTrue(r, job', kept')
<1>1. /\ r.attempt \in Attempts
      /\ r.attempt > 0 => r.attempt - 1 \in Attempts
  BY ProverAssumption DEF Handler, Attempts
<1> QED BY <1>1 DEF IsTrue, Open, Later, Ended

\* A handler may go to any state that is true.
LEMMA HandlerStep ==
  ASSUME TypeOK, HandlersAreTrue, Later,
         NEW h \in Handlers, NEW r \in Handler,
         handler' = [handler EXCEPT ![h] = r],
         IsTrue(r, job', kept')
  PROVE  HandlersAreTrue' /\ handler' \in [Handlers -> Handler]
<1>1. ASSUME NEW g \in Handlers
      PROVE  IsTrue(handler'[g], job', kept')
  <2>1. CASE g = h
    BY <2>1 DEF TypeOK
  <2>2. CASE g # h
    <3>1. handler'[g] = handler[g] /\ handler[g] \in Handler
      BY <2>2 DEF TypeOK, Handler
    <3>2. IsTrue(handler[g], job, kept)
      BY DEF HandlersAreTrue
    <3> QED BY <3>1, <3>2, TrueStaysTrue
  <2> QED BY <2>1, <2>2
<1> QED BY <1>1 DEF HandlersAreTrue, TypeOK, Handler

LEMMA IdleIsTrue == ASSUME NEW j, NEW k PROVE IsTrue(Idle, j, k)
  BY DEF IsTrue, Open, Idle, NoAnswer, Ended

LEMMA IdleIsHandler == Idle \in Handler
  BY ProverAssumption DEF Idle, Handler, NoAnswer, Answer, Attempts, Statuses

\* What a handler may answer.
LEMMA RepliesAreEarned ==
  ASSUME IInv, UNCHANGED job, NEW n \in Attempts, NEW status \in Ended,
         job[n] = status,
         answer' = ReplyTo(status) \/ answer' = answer
  PROVE  AnswerIsEarned' /\ (answer' \in {"none", "proof", "error"})
  BY DEF IInv, TypeOK, AnswerIsEarned, ReplyTo, Ended

\* Steps of a handler before it posts, which read the store.
Reads(h) == Receive(h) \/ ReadCursor(h) \/ ReadTerminal(h)

LEMMA ReadsKeepIInv ==
  ASSUME IInv, NEW h \in Handlers, Reads(h)
  PROVE  IInv'
<1> USE DEF IInv
<1>1. UNCHANGED <<starkscan, store, losses>>
  BY DEF Reads, Receive, ReadCursor, ReadTerminal
<1>0. /\ handler[h] \in Handler /\ N(h) \in Attempts /\ Got(h) \in Answer
      /\ Got(h).status \in Statuses
  BY HandlerFields
<1>2. IsTrue(handler[h], job, kept)
  BY DEF HandlersAreTrue
<1>3. PICK r \in Handler :
        /\ handler' = [handler EXCEPT ![h] = r]
        /\ IsTrue(r, job', kept')
        /\ \/ answer' = answer
           \/ \E n \in Attempts, status \in Ended :
                job[n] = status /\ answer' = ReplyTo(status)
  <2>1. CASE Receive(h)
    <3> DEFINE r == [handler[h] EXCEPT !.at = "cursor"]
    <3>1. r \in Handler
      BY <1>0 DEF Handler
    <3>2. handler' = [handler EXCEPT ![h] = r] /\ answer' = answer
      BY <2>1 DEF Receive, Goto, TypeOK
    <3>3. IsTrue(r, job', kept')
      BY <1>0, <1>1, <1>2 DEF IsTrue, Open, starkscan, store, Handler
    <3> QED BY <3>1, <3>2, <3>3
  <2>2. CASE ReadCursor(h)
    <3> DEFINE r == [at |-> "terminal", attempt |-> cursor.attempt,
                     got |-> [NoAnswer EXCEPT !.status = cursor.status]]
    <3>1. r \in Handler
      BY DEF Handler, TypeOK, Cursor, NoAnswer, Answer
    <3>2. handler' = [handler EXCEPT ![h] = r] /\ answer' = answer
      BY <2>2 DEF ReadCursor
    <3>3. IsTrue(r, job', kept')
      BY <1>1 DEF IsTrue, Open, starkscan, store, StoreIsTrue, NoAnswer
    <3> QED BY <3>1, <3>2, <3>3
  <2>3. CASE ReadTerminal(h)
    <3> DEFINE found == terminal[N(h)]
    <3>1. found \in {"none"} \cup Ended
      BY <1>0 DEF TypeOK
    <3>2. found # "none" => job[N(h)] = found
      BY <1>0 DEF StoreIsTrue
    <3>3. Got(h).status \in Ended => job[N(h)] = Got(h).status
      BY <1>2 DEF IsTrue, N, Got
    <3>4. ASSUME NEW what \in {"proof", "error"}, Reply(h, what)
          PROVE  handler' = [handler EXCEPT ![h] = Idle] /\ answer' = what
      BY <3>4 DEF Reply
    <3>5. CASE found # "none" /\ Reply(h, ReplyTo(found))
      <4>1. ReplyTo(found) \in {"proof", "error"}
        BY DEF ReplyTo
      <4>2. handler' = [handler EXCEPT ![h] = Idle] /\ answer' = ReplyTo(found)
        BY <3>5, <3>4, <4>1
      <4> QED BY <4>2, <3>5, <3>1, <3>2, <1>0, IdleIsTrue, IdleIsHandler
    <3>6. CASE /\ Got(h).status \in {"unknown_delivery", "failed"}
               /\ Reply(h, "error")
      <4>1. Got(h).status \in Ended /\ ReplyTo(Got(h).status) = "error"
        BY <3>6 DEF Ended, ReplyTo
      <4>2. handler' = [handler EXCEPT ![h] = Idle] /\ answer' = "error"
        BY <3>6, <3>4
      <4> QED BY <4>1, <4>2, <3>3, <1>0, IdleIsTrue, IdleIsHandler
    <3>7. ASSUME NEW stage \in {"rotate", "post"}, Goto(h, stage),
                 answer' = answer,
                 stage = "rotate" => job[N(h)] = "succeeded"
          PROVE  \E r \in Handler : /\ handler' = [handler EXCEPT ![h] = r]
                                    /\ IsTrue(r, job', kept') /\ answer' = answer
      <4> DEFINE r == [handler[h] EXCEPT !.at = stage]
      <4>1. r \in Handler
        BY <1>0 DEF Handler
      <4>2. handler' = [handler EXCEPT ![h] = r]
        BY <3>7 DEF Goto, TypeOK
      <4>3. IsTrue(r, job', kept')
        BY <1>0, <1>1, <1>2, <3>7 DEF IsTrue, Open, starkscan, store, Handler, N
      <4> QED BY <4>1, <4>2, <4>3, <3>7
    <3>8. CASE /\ \/ found = "succeeded"
                  \/ found = "none" /\ Got(h).status = "succeeded"
               /\ Goto(h, "rotate") /\ UNCHANGED answer
      BY <3>8, <3>7, <3>2, <3>3 DEF Ended
    <3>9. CASE Goto(h, "post") /\ UNCHANGED answer
      BY <3>9, <3>7
    <3> QED BY <2>3, <3>5, <3>6, <3>8, <3>9 DEF ReadTerminal
  <2> QED BY <2>1, <2>2, <2>3 DEF Reads
<1>4. HandlersAreTrue' /\ handler' \in [Handlers -> Handler]
  BY <1>1, <1>3, HandlerStep DEF store, starkscan, Later
<1>5. AnswerIsEarned' /\ answer' \in {"none", "proof", "error"}
  <2>1. CASE answer' = answer
    BY <2>1, <1>1 DEF AnswerIsEarned, starkscan, TypeOK
  <2>2. CASE answer' # answer
    BY <2>2, <1>1, <1>3, RepliesAreEarned DEF starkscan
  <2> QED BY <2>1, <2>2
<1>6. StoreIsTrue' /\ KeptBeforeMarked' /\ AttemptsFollowSuccess'
  BY <1>1 DEF StoreIsTrue, KeptBeforeMarked, AttemptsFollowSuccess, Open, starkscan, store
<1>7. TypeOK'
  BY <1>1, <1>4, <1>5 DEF TypeOK, starkscan, store, Handler
<1> QED BY <1>4, <1>5, <1>6, <1>7

\* A new attempt, after a success.
LEMMA RotatedStore ==
  ASSUME IInv, NEW n \in Attempts, n < MaxAttempts, job[n] = "succeeded",
         UNCHANGED <<starkscan, terminal, kept>>, cursor' = NewCursor(n + 1)
  PROVE  /\ StoreIsTrue' /\ KeptBeforeMarked' /\ AttemptsFollowSuccess'
         /\ cursor' \in Cursor
<1>1. n + 1 \in Attempts /\ (n + 1) - 1 = n
  BY ProverAssumption DEF Attempts
<1>2. cursor' \in Cursor /\ cursor'.attempt = n + 1 /\ cursor'.status = "none"
  BY <1>1 DEF NewCursor, Cursor, Statuses
<1> QED BY <1>1, <1>2 DEF IInv, StoreIsTrue, KeptBeforeMarked, AttemptsFollowSuccess,
                          Open, starkscan, Ended

LEMMA RotateKeepsIInv ==
  ASSUME IInv, NEW h \in Handlers, Rotate(h)
  PROVE  IInv'
<1> USE DEF IInv
<1> DEFINE n == N(h)
           r == [at |-> "post", attempt |-> n + 1, got |-> NoAnswer]
<1>1. /\ UNCHANGED <<starkscan, terminal, kept, answer, losses>>
      /\ cursor' = NewCursor(n + 1) /\ n < MaxAttempts
      /\ handler' = [handler EXCEPT ![h] = r]
  BY DEF Rotate
<1>2. n \in Attempts /\ job[n] = "succeeded"
  BY HandlerFields DEF Rotate, At, N, HandlersAreTrue, IsTrue
<1>3. r \in Handler
  BY <1>1, <1>2, ProverAssumption DEF Handler, NoAnswer, Answer, Statuses, Attempts
<1>4. IsTrue(r, job', kept')
  BY <1>1, <1>2 DEF IsTrue, Open, starkscan, NoAnswer, Ended, Attempts
<1>5. HandlersAreTrue' /\ handler' \in [Handlers -> Handler]
  BY <1>1, <1>3, <1>4, HandlerStep DEF Later, starkscan
<1>6. StoreIsTrue' /\ KeptBeforeMarked' /\ AttemptsFollowSuccess' /\ cursor' \in Cursor
  BY <1>1, <1>2, RotatedStore
<1>7. TypeOK' /\ AnswerIsEarned'
  BY <1>1, <1>5, <1>6 DEF TypeOK, AnswerIsEarned, starkscan, Handler
<1> QED BY <1>5, <1>6, <1>7

\* Starkscan's side of a request: what it says is true.
LEMMA SaysIsTrue ==
  ASSUME TypeOK, NEW n \in Attempts, NEW s \in Statuses
  PROVE  Says(n, s) \in Answer /\ Says(n, s).status = s
  BY DEF Says, Answer

LEMMA AsksKeepIInv ==
  ASSUME IInv, NEW h \in Handlers, Post(h) \/ Poll(h)
  PROVE  IInv'
<1> USE DEF IInv
<1>0. /\ handler[h] \in Handler /\ N(h) \in Attempts /\ N(h) = handler[h].attempt
      /\ IsTrue(handler[h], job, kept)
  BY HandlerFields DEF HandlersAreTrue, N
<1>1. UNCHANGED <<stale, store, answer, losses>> /\ holds' \subseteq Attempts
  BY DEF Post, Poll, TypeOK
<1>2. /\ job' \in [Attempts -> Statuses]
      /\ \/ job' = job
         \/ job[N(h)] \notin Ended /\ job' = [job EXCEPT ![N(h)] = "running"]
  BY <1>0 DEF Post, Poll, Posted, TypeOK, Ended, Statuses
<1>3. Later
  BY <1>0, <1>1, <1>2 DEF Later, store, TypeOK
<1> DEFINE got == Says(N(h), job'[N(h)])
           r == [handler[h] EXCEPT !.at = "save", !.got = got]
<1>4. got \in Answer /\ got.status = job'[N(h)]
  BY <1>0, <1>2 DEF Says, Answer, TypeOK
<1>5. handler' = [handler EXCEPT ![h] = r]
  BY DEF Post, Poll, TypeOK
<1>6. r \in Handler
  BY <1>0, <1>4 DEF Handler
<1>7. IsTrue(r, job', kept')
  <2>1. IsTrue(handler[h], job', kept')
    BY <1>0, <1>3, TrueStaysTrue
  <2> QED BY <2>1, <1>0, <1>4 DEF IsTrue, Handler
<1>8. HandlersAreTrue' /\ handler' \in [Handlers -> Handler]
  BY <1>3, <1>5, <1>6, <1>7, HandlerStep
<1>9. AttemptsFollowSuccess'
  <2> SUFFICES ASSUME NEW n \in Attempts, n > 0, job'[n] # "none"
               PROVE  job'[n - 1] = "succeeded"
    BY DEF AttemptsFollowSuccess
  <2>0. n - 1 \in Attempts
    BY ProverAssumption DEF Attempts
  <2>1. job[n - 1] = "succeeded"
    <3>1. CASE n = N(h)
      BY <3>1, <1>0 DEF IsTrue, Open
    <3>2. CASE n # N(h)
      BY <3>2, <1>2 DEF AttemptsFollowSuccess, TypeOK
    <3> QED BY <3>1, <3>2
  <2> QED BY <2>0, <2>1, <1>3 DEF Later, Ended
<1>10. StoreIsTrue' /\ KeptBeforeMarked'
  <2>1. UNCHANGED <<cursor, terminal, kept>>
    BY <1>1 DEF store
  <2>2. /\ cursor.attempt \in Attempts
        /\ cursor.attempt > 0 => cursor.attempt - 1 \in Attempts
    BY ProverAssumption DEF TypeOK, Cursor, Attempts
  <2>3. Open(cursor.attempt, job')
    BY <2>2, <1>3 DEF StoreIsTrue, Open, Later, Ended
  <2>4. cursor.status \in Ended => job'[cursor.attempt] = cursor.status
    BY <2>2, <1>3 DEF StoreIsTrue, Later
  <2>5. \A n \in Attempts : terminal[n] # "none" => job'[n] = terminal[n]
    BY <1>3 DEF StoreIsTrue, Later, TypeOK
  <2> QED BY <2>1, <2>3, <2>4, <2>5 DEF StoreIsTrue, KeptBeforeMarked
<1>11. AnswerIsEarned'
  BY <1>1, <1>3 DEF AnswerIsEarned, Later, Ended
<1>12. TypeOK'
  BY <1>1, <1>2, <1>8 DEF TypeOK, store, Handler
<1> QED BY <1>8, <1>9, <1>10, <1>11, <1>12

\* Steps that change the store or end the handler, once Starkscan has answered.
LEMMA IdleStep ==
  ASSUME IInv, NEW h \in Handlers, UNCHANGED job, kept \subseteq kept',
         handler' = [handler EXCEPT ![h] = Idle]
  PROVE  HandlersAreTrue' /\ handler' \in [Handlers -> Handler]
  BY HandlerStep, IdleIsTrue, IdleIsHandler DEF IInv, Later

LEMMA SaveRotatedKeepsIInv ==
  ASSUME IInv, NEW h \in Handlers, SaveRotated(h)
  PROVE  IInv'
<1> USE DEF IInv
<1>1. /\ UNCHANGED <<starkscan, terminal, kept, losses>> /\ answer' = answer
      /\ cursor' = NewCursor(N(h) + 1) /\ N(h) < MaxAttempts
      /\ handler' = [handler EXCEPT ![h] = Idle]
  BY DEF SaveRotated, Reply
<1>2. N(h) \in Attempts /\ job[N(h)] = "succeeded"
  BY HandlerFields DEF SaveRotated, NoProof, Ended, Got, N, HandlersAreTrue, IsTrue
<1>3. HandlersAreTrue' /\ handler' \in [Handlers -> Handler]
  BY <1>1, IdleStep DEF starkscan
<1>4. StoreIsTrue' /\ KeptBeforeMarked' /\ AttemptsFollowSuccess' /\ cursor' \in Cursor
  BY <1>1, <1>2, RotatedStore
<1>5. TypeOK' /\ AnswerIsEarned'
  BY <1>1, <1>3, <1>4 DEF TypeOK, AnswerIsEarned, starkscan, Handler
<1> QED BY <1>3, <1>4, <1>5

LEMMA SaveTerminalKeepsIInv ==
  ASSUME IInv, NEW h \in Handlers, SaveTerminal(h)
  PROVE  IInv'
<1> USE DEF IInv
<1> DEFINE n == N(h)
           s == Got(h).status
           r == [handler[h] EXCEPT !.at = "mark"]
<1>0. /\ handler[h] \in Handler /\ n \in Attempts /\ s \in Ended
      /\ IsTrue(handler[h], job, kept)
  BY HandlerFields DEF HandlersAreTrue, SaveTerminal
<1>1. /\ UNCHANGED <<starkscan, cursor, answer, losses>>
      /\ terminal' = [terminal EXCEPT ![n] = s] /\ kept' = kept \cup {n}
      /\ handler' = [handler EXCEPT ![h] = r]
  BY DEF SaveTerminal, Goto, TypeOK
<1>2. job[n] = s
  BY <1>0 DEF IsTrue, N, Got
<1>3. r \in Handler
  BY <1>0 DEF Handler
<1>4. IsTrue(r, job', kept')
  BY <1>0, <1>1 DEF IsTrue, Open, starkscan, Handler, N, Got
<1>5. HandlersAreTrue' /\ handler' \in [Handlers -> Handler]
  BY <1>1, <1>3, <1>4, HandlerStep DEF Later, starkscan
<1>6. StoreIsTrue' /\ KeptBeforeMarked' /\ AttemptsFollowSuccess' /\ AnswerIsEarned'
  BY <1>0, <1>1, <1>2 DEF StoreIsTrue, KeptBeforeMarked, AttemptsFollowSuccess,
     AnswerIsEarned, Open, starkscan, TypeOK
<1>7. TypeOK'
  BY <1>0, <1>1, <1>5 DEF TypeOK, starkscan, Handler
<1> QED BY <1>5, <1>6, <1>7

\* The cursor takes the status a handler has heard.
LEMMA CursorTakes ==
  ASSUME IInv, NEW h \in Handlers, UNCHANGED <<starkscan, terminal, kept>>,
         cursor' = [attempt |-> N(h), status |-> Got(h).status],
         Got(h).status \in Ended => N(h) \in kept
  PROVE  /\ StoreIsTrue' /\ KeptBeforeMarked' /\ AttemptsFollowSuccess'
         /\ cursor' \in Cursor
<1>1. /\ N(h) \in Attempts /\ Got(h).status \in Statuses
      /\ IsTrue(handler[h], job, kept)
  BY HandlerFields DEF IInv, HandlersAreTrue
<1> QED BY <1>1 DEF IInv, StoreIsTrue, KeptBeforeMarked, AttemptsFollowSuccess, Open,
                    IsTrue, N, Got, Cursor, starkscan

LEMMA MarkKeepsIInv ==
  ASSUME IInv, NEW h \in Handlers, Mark(h)
  PROVE  IInv'
<1> USE DEF IInv
<1>0. /\ N(h) \in Attempts /\ Got(h).status \in Ended /\ N(h) \in kept
      /\ job[N(h)] = Got(h).status
  BY HandlerFields DEF HandlersAreTrue, IsTrue, Mark, At, N, Got
<1>1. /\ UNCHANGED <<starkscan, terminal, kept, losses>>
      /\ cursor' = [attempt |-> N(h), status |-> Got(h).status]
  BY DEF Mark
<1>2. handler' = [handler EXCEPT ![h] = Idle] /\ answer' = ReplyTo(Got(h).status)
  BY DEF Mark, Reply, ReplyTo
<1>3. HandlersAreTrue' /\ handler' \in [Handlers -> Handler]
  BY <1>1, <1>2, IdleStep DEF starkscan
<1>4. StoreIsTrue' /\ KeptBeforeMarked' /\ AttemptsFollowSuccess' /\ cursor' \in Cursor
  BY <1>0, <1>1, CursorTakes
<1>5. AnswerIsEarned' /\ answer' \in {"none", "proof", "error"}
  BY <1>0, <1>1, <1>2, RepliesAreEarned DEF starkscan
<1>6. TypeOK'
  BY <1>1, <1>3, <1>4, <1>5 DEF TypeOK, starkscan, Handler
<1> QED BY <1>3, <1>4, <1>5, <1>6

LEMMA SaveCursorKeepsIInv ==
  ASSUME IInv, NEW h \in Handlers, SaveCursor(h)
  PROVE  IInv'
<1> USE DEF IInv
<1>1. /\ UNCHANGED <<starkscan, terminal, kept, losses>> /\ answer' = answer
      /\ cursor' = [attempt |-> N(h), status |-> Got(h).status]
      /\ Got(h).status \notin Ended
  BY DEF SaveCursor, Reply
<1>2. HandlersAreTrue' /\ handler' \in [Handlers -> Handler]
  <2>1. CASE Reply(h, "again")
    BY <2>1, <1>1, IdleStep DEF Reply, starkscan
  <2>2. CASE Goto(h, "poll")
    <3> DEFINE r == [handler[h] EXCEPT !.at = "poll"]
    <3>0. handler[h] \in Handler /\ IsTrue(handler[h], job, kept)
      BY HandlerFields DEF HandlersAreTrue
    <3>1. handler' = [handler EXCEPT ![h] = r]
      BY <2>2 DEF Goto, TypeOK
    <3>2. r \in Handler
      BY <3>0 DEF Handler
    <3>3. IsTrue(r, job', kept')
      BY <3>0, <1>1 DEF IsTrue, Open, starkscan, Handler
    <3> QED BY <3>1, <3>2, <3>3, <1>1, HandlerStep DEF Later, starkscan
  <2> QED BY <2>1, <2>2 DEF SaveCursor
<1>3. StoreIsTrue' /\ KeptBeforeMarked' /\ AttemptsFollowSuccess' /\ cursor' \in Cursor
  BY <1>1, CursorTakes
<1>4. TypeOK' /\ AnswerIsEarned'
  BY <1>1, <1>2, <1>3 DEF TypeOK, AnswerIsEarned, starkscan, Handler
<1> QED BY <1>2, <1>3, <1>4

LEMMA EndKeepsIInv ==
  ASSUME IInv, NEW h \in Handlers, StopPolling(h) \/ Die(h)
  PROVE  IInv'
<1> USE DEF IInv
<1>1. /\ UNCHANGED <<starkscan, store>> /\ answer' = answer
      /\ losses' \in 0..MaxLosses
      /\ handler' = [handler EXCEPT ![h] = Idle]
  BY ProverAssumption DEF StopPolling, Reply, Die, Lose, TypeOK
<1>2. HandlersAreTrue' /\ handler' \in [Handlers -> Handler]
  BY <1>1, IdleStep DEF starkscan, store
<1>3. StoreIsTrue' /\ KeptBeforeMarked' /\ AttemptsFollowSuccess' /\ AnswerIsEarned'
  BY <1>1 DEF StoreIsTrue, KeptBeforeMarked, AttemptsFollowSuccess, AnswerIsEarned,
              Open, starkscan, store
<1>4. TypeOK'
  BY <1>1, <1>2 DEF TypeOK, starkscan, store, Handler
<1> QED BY <1>2, <1>3, <1>4

\* What Starkscan and the store do by themselves.
World ==
  \/ \E n \in Attempts :
       \/ \E status \in Ended : Finish(n, status)
       \/ Unavailable(n) \/ LoseProof(n) \/ Age(n) \/ ExpireTerminal(n)
  \/ ExpireCursor

LEMMA WorldKeepsIInv == IInv /\ World => IInv'
<1> SUFFICES ASSUME IInv, World PROVE IInv'
  OBVIOUS
<1> USE DEF IInv
<1>1. /\ UNCHANGED <<kept, handler, answer>>
      /\ losses' \in 0..MaxLosses
      /\ holds' \subseteq Attempts /\ stale' \subseteq Attempts
  BY ProverAssumption DEF World, Finish, Unavailable, LoseProof, Age, ExpireTerminal,
     ExpireCursor, Lose, TypeOK, starkscan, store
<1>2. \/ job' = job
      \/ \E n \in Attempts, s \in Ended \cup {"unavailable"} :
            job[n] = "running" /\ job' = [job EXCEPT ![n] = s]
  BY DEF World, Finish, Unavailable, LoseProof, Age, ExpireTerminal, ExpireCursor,
         starkscan
<1>3. \/ terminal' = terminal
      \/ \E n \in Attempts : terminal' = [terminal EXCEPT ![n] = "none"]
  BY DEF World, Finish, Unavailable, LoseProof, Age, ExpireTerminal, ExpireCursor, store
<1>4. cursor' = cursor \/ cursor' = NewCursor(0)
  BY DEF World, Finish, Unavailable, LoseProof, Age, ExpireTerminal, ExpireCursor, store
<1>5. /\ job' \in [Attempts -> Statuses] /\ Later
      /\ \A n \in Attempts : job'[n] # "none" => job[n] # "none"
  BY <1>1, <1>2 DEF TypeOK, Statuses, Later, Ended
<1>6. \A n \in Attempts : n > 0 => n - 1 \in Attempts
  BY ProverAssumption DEF Attempts
<1>7. AttemptsFollowSuccess'
  BY <1>5, <1>6 DEF AttemptsFollowSuccess, Later, Ended
<1>8. HandlersAreTrue'
  <2> SUFFICES ASSUME NEW h \in Handlers
               PROVE  IsTrue(handler[h], job', kept')
    BY <1>1 DEF HandlersAreTrue
  <2>1. handler[h] \in Handler /\ IsTrue(handler[h], job, kept)
    BY HandlerFields DEF HandlersAreTrue
  <2> QED BY <2>1, <1>5, TrueStaysTrue
<1>9. cursor' \in Cursor /\ Open(cursor'.attempt, job')
      /\ (cursor'.status \in Ended =>
            job'[cursor'.attempt] = cursor'.status /\ cursor'.attempt \in kept')
  <2>1. CASE cursor' = cursor
    <3>1. cursor.attempt \in Attempts
      BY DEF TypeOK, Cursor
    <3> QED BY <2>1, <3>1, <1>1, <1>5, <1>6
            DEF StoreIsTrue, KeptBeforeMarked, Open, Later, Ended, TypeOK
  <2>2. CASE cursor' = NewCursor(0)
    BY <2>2, ProverAssumption DEF NewCursor, Cursor, Open, Statuses, Ended, Attempts
  <2> QED BY <1>4, <2>1, <2>2
<1>10. /\ terminal' \in [Attempts -> {"none"} \cup Ended]
       /\ \A n \in Attempts : terminal'[n] # "none" => job'[n] = terminal'[n]
  <2>1. \A n \in Attempts : terminal[n] # "none" => job'[n] = terminal[n]
    BY <1>5 DEF StoreIsTrue, Later, TypeOK
  <2> QED BY <2>1, <1>3 DEF TypeOK
<1>11. StoreIsTrue' /\ KeptBeforeMarked'
  BY <1>9, <1>10 DEF StoreIsTrue, KeptBeforeMarked
<1>12. AnswerIsEarned'
  BY <1>1, <1>5 DEF AnswerIsEarned, Later, Ended
<1>13. TypeOK'
  BY <1>1, <1>5, <1>9, <1>10 DEF TypeOK
<1> QED BY <1>7, <1>8, <1>11, <1>12, <1>13

LEMMA NextKeepsIInv == IInv /\ [Next]_vars => IInv'
<1> SUFFICES ASSUME IInv, [Next]_vars PROVE IInv'
  OBVIOUS
<1>1. ASSUME NEW h \in Handlers, Receive(h) \/ Work(h) \/ StopPolling(h) \/ Die(h)
      PROVE  IInv'
  BY <1>1, ReadsKeepIInv, RotateKeepsIInv, AsksKeepIInv, SaveRotatedKeepsIInv,
     SaveTerminalKeepsIInv, MarkKeepsIInv, SaveCursorKeepsIInv, EndKeepsIInv
     DEF Work, Reads
<1>2. CASE World
  BY <1>2, WorldKeepsIInv
<1>3. CASE UNCHANGED vars
  BY <1>3 DEF IInv, TypeOK, AttemptsFollowSuccess, StoreIsTrue, HandlersAreTrue,
     KeptBeforeMarked, AnswerIsEarned, IsTrue, Open, vars, starkscan, store
<1> QED BY <1>1, <1>2, <1>3 DEF Next, World

LEMMA Invariance == Spec => []IInv
  BY InitIInv, NextKeepsIInv, PTL DEF Spec

\* Every variable of the relay, of its store and of Starkscan keeps to its type.
THEOREM TypeCorrect == Spec => []TypeOK
<1>1. IInv => TypeOK
  BY DEF IInv
<1> QED BY <1>1, Invariance, PTL

\* persistJob and loadStoredAttempt rotate the key only after a success, whatever
\* handlers run beside each other and whatever the store has lost.
THEOREM NewKeyAfterSuccess == Spec => []AttemptsFollowSuccess
<1>1. IInv => AttemptsFollowSuccess
  BY DEF IInv
<1> QED BY <1>1, Invariance, PTL

\* persistJob stores the one-time payload before the cursor tells of it.
THEOREM PayloadFirst == Spec => []KeptBeforeMarked
<1>1. IInv => KeptBeforeMarked
  BY DEF IInv
<1> QED BY <1>1, Invariance, PTL

\* No answer of the relay is made up: terminalResponse and the stored answers
\* say what became of a job.
THEOREM AnswersAreTrue == Spec => []AnswerIsEarned
<1>1. IInv => AnswerIsEarned
  BY DEF IInv
<1> QED BY <1>1, Invariance, PTL

-----------------------------------------------------------------------------
(***************************************************************************)
(* The StarkWare relay.                                                    *)
(*                                                                         *)
(* The argument: a deadline goes from the handler that computes a time to  *)
(* live, through the store, to the handler that reads the entry, and every *)
(* command to the store takes at most its timeout.                         *)
(***************************************************************************)
\* When a proof must be out of the store, but for the delay of the write.
Deadline(issued) == issued + MaxAge - Margin

\* A command to the store is over, or aborted, after its timeout.
Prompt(c, t) ==
  /\ c.since <= t
  /\ c.at \in Storing => t <= c.since + StoreTimeout

\* What a handler was told by the store it was told before the entry expired, and
\* what it is about to write will expire in time.
Timely(c) ==
  /\ c.at = "hit" /\ c.issued # NoScreening
       => c.since < Deadline(c.issued) + StoreTimeout
  /\ c.at \in {"set", "stored"} /\ c.issued # NoScreening
       => c.ttl > 0 /\ c.since + c.ttl <= Deadline(c.issued)

Kept(e) == e.issued # NoScreening => e.expires <= Deadline(e.issued) + StoreTimeout

TimeInv ==
  /\ StarkwareTypeOK
  /\ Kept(entry)
  /\ \A h \in Callers : Prompt(call[h], now) /\ Timely(call[h])

Call == [at: Stages, since: Nat, issued: Screening, ttl: Nat]

-----------------------------------------------------------------------------
\* The time to live of a screened proof ends before its deadline.
LEMMA TtlInTime ==
  ASSUME NEW issued \in Screening, NEW t \in Nat, Ttl(issued, t) > 0
  PROVE  /\ Ttl(issued, t) \in Nat
         /\ issued # NoScreening => t + Ttl(issued, t) <= Deadline(issued)
  BY StarkwareAssumption DEF Ttl, Deadline, Screening, NoScreening

\* A handler whose record changes to c, the clock, the store and the others standing
\* still, keeps the invariant if c is in order.
LEMMA OneCall ==
  ASSUME TimeInv, NEW h \in Callers, NEW c \in Call,
         Prompt(c, now), Timely(c),
         call' = [call EXCEPT ![h] = c], UNCHANGED now,
         entry' \in [issued: Screening, expires: Nat], Kept(entry'),
         reply' \in [what: {"none", "proof", "error", "unknown"}, issued: Screening],
         failures' \in Nat
  PROVE  TimeInv'
<1>1. call \in [Callers -> Call]
  BY DEF TimeInv, StarkwareTypeOK, Call
<1>2. call' \in [Callers -> Call]
  BY <1>1
<1>3. StarkwareTypeOK'
  BY <1>2 DEF TimeInv, StarkwareTypeOK, Call
<1>4. ASSUME NEW g \in Callers PROVE (Prompt(call[g], now) /\ Timely(call[g]))'
  <2>1. CASE g = h
    BY <1>1, <2>1 DEF Prompt, Timely
  <2>2. CASE g # h
    BY <1>1, <2>2 DEF TimeInv, Prompt, Timely
  <2> QED BY <2>1, <2>2
<1> QED BY <1>3, <1>4 DEF TimeInv, Kept

LEMMA RestIsInOrder ==
  ASSUME now \in Nat
  PROVE  Resting \in Call /\ Prompt(Resting, now) /\ Timely(Resting)
  BY DEF Resting, Call, Prompt, Timely, Stages, Storing, Screening, NoScreening

LEMMA InitTimeInv == StarkwareInit => TimeInv
<1> SUFFICES ASSUME StarkwareInit PROVE TimeInv
  OBVIOUS
<1>1. StarkwareTypeOK
  BY StarkwareAssumption DEF StarkwareInit, StarkwareTypeOK, NoEntry, Resting, Stages,
                             Screening, NoScreening
<1>2. Kept(entry)
  BY DEF StarkwareInit, Kept, NoEntry
<1>3. ASSUME NEW h \in Callers PROVE Prompt(call[h], now) /\ Timely(call[h])
  BY StarkwareAssumption, RestIsInOrder DEF StarkwareInit
<1> QED BY <1>1, <1>2, <1>3 DEF TimeInv

LEMMA TickKeeps == TimeInv /\ Tick => TimeInv'
<1> SUFFICES ASSUME TimeInv, Tick PROVE TimeInv'
  OBVIOUS
<1>1. StarkwareTypeOK'
  BY DEF TimeInv, Tick, StarkwareTypeOK
<1>2. Kept(entry)'
  BY DEF TimeInv, Tick, Kept, Deadline
<1>3. ASSUME NEW h \in Callers PROVE (Prompt(call[h], now) /\ Timely(call[h]))'
  <2>1. InTime(h) /\ Prompt(call[h], now) /\ Timely(call[h])
    BY DEF TimeInv, Tick
  <2>2. call[h] \in Call /\ now \in Nat
    BY DEF TimeInv, StarkwareTypeOK, Call
  <2>3. Prompt(call[h], now)'
    BY <2>1, <2>2, StarkwareAssumption DEF Tick, InTime, Prompt, Call
  <2>4. Timely(call[h])'
    BY <2>1 DEF Tick, Timely, Deadline
  <2> QED BY <2>3, <2>4
<1> QED BY <1>1, <1>2, <1>3 DEF TimeInv

LEMMA ServeKeeps == ASSUME TimeInv, NEW h \in Callers PROVE
  (Ask(h) \/ Serve(h) \/ Fail(h)) => TimeInv'
<1> DEFINE c == call[h]
<1>1. c \in Call /\ now \in Nat /\ failures \in Nat /\ call \in [Callers -> Call]
  BY DEF TimeInv, StarkwareTypeOK, Call
<1>2. entry \in [issued: Screening, expires: Nat] /\ Kept(entry)
  BY DEF TimeInv, StarkwareTypeOK
<1>3. reply \in [what: {"none", "proof", "error", "unknown"}, issued: Screening]
  BY DEF TimeInv, StarkwareTypeOK
<1>4. Prompt(c, now) /\ Timely(c)
  BY DEF TimeInv
<1>5. NoScreening \in Screening
  BY DEF Screening
<1>6. CASE Ask(h)
  <2> DEFINE d == [c EXCEPT !.at = "get", !.since = now]
  <2>1. call' = [call EXCEPT ![h] = d]
    BY <1>1, <1>6 DEF Ask
  <2>2. d \in Call
    BY <1>1 DEF Call, Stages
  <2>3. d.at = "get" /\ d.since = now
    BY <1>1 DEF Call
  <2>4. Prompt(d, now) /\ Timely(d)
    BY <2>3, <1>1, StarkwareAssumption DEF Prompt, Timely
  <2>5. UNCHANGED <<now, entry, reply, failures>>
    BY <1>6 DEF Ask
  <2> HIDE DEF c, d
  <2> QED BY <2>1, <2>2, <2>4, <2>5, <1>1, <1>2, <1>3, OneCall
<1>7. CASE Get(h)
  <2>1. CASE now < entry.expires
    <3> DEFINE d == [c EXCEPT !.at = "hit", !.issued = entry.issued]
    <3>1. call' = [call EXCEPT ![h] = d]
      BY <1>1, <1>7, <2>1 DEF Get
    <3>2. d \in Call
      BY <1>1, <1>2 DEF Call, Stages
    <3>3. Prompt(d, now)
      BY <1>1, <1>4, <1>7 DEF Get, Call, Prompt, Storing
    <3>4. Timely(d)
      <4>1. d.at = "hit" /\ d.issued = entry.issued /\ d.since = c.since /\ c.since <= now
        BY <1>1, <1>4 DEF Call, Prompt
      <4>2. d.issued # NoScreening => c.since < Deadline(d.issued) + StoreTimeout
        BY <4>1, <1>1, <1>2, <2>1, StarkwareAssumption
           DEF Kept, Deadline, Call, Screening, NoScreening
      <4> QED BY <4>1, <4>2 DEF Timely
    <3> QED BY <3>1, <3>2, <3>3, <3>4, <1>1, <1>2, <1>3, <1>7, OneCall DEF Get
  <2>2. CASE ~(now < entry.expires)
    <3> DEFINE d == [c EXCEPT !.at = "prove", !.since = now]
    <3>1. call' = [call EXCEPT ![h] = d]
      BY <1>1, <1>7, <2>2 DEF Get
    <3>2. d \in Call
      BY <1>1 DEF Call, Stages
    <3>3. d.at = "prove" /\ d.since = now
      BY <1>1 DEF Call
    <3>4. Prompt(d, now) /\ Timely(d)
      BY <3>3, <1>1 DEF Prompt, Timely, Storing
    <3> HIDE DEF c, d
    <3> QED BY <3>1, <3>2, <3>4, <1>1, <1>2, <1>3, <1>7, OneCall DEF Get
  <2> QED BY <2>1, <2>2
<1>8. CASE Hit(h) \/ Stored(h)
  <2>1. c.issued \in Screening
    BY <1>1 DEF Call
  <2> QED BY <2>1, <1>1, <1>2, <1>8, RestIsInOrder, OneCall DEF Hit, Stored, Answers
<1>9. CASE Proved(h)
  <2>1. PICK issued \in {NoScreening} \cup (c.since)..now :
          IF Ttl(issued, now) <= 0
            THEN TryAgain(h)
            ELSE /\ call' = [call EXCEPT ![h] =
                               [at |-> "set", since |-> now, issued |-> issued,
                                ttl |-> Ttl(issued, now)]]
                 /\ UNCHANGED reply
    BY <1>9 DEF Proved
  <2>2. issued \in Screening
    BY <1>1 DEF Call, Screening
  <2>3. Ttl(issued, now) \in Int
    BY <1>1, <2>2, StarkwareAssumption DEF Ttl, Screening, NoScreening
  <2>4. CASE Ttl(issued, now) <= 0
    BY <2>1, <2>4, <1>1, <1>2, <1>3, <1>9, RestIsInOrder, OneCall DEF Proved, TryAgain
  <2>5. CASE ~(Ttl(issued, now) <= 0)
    <3> DEFINE d == [at |-> "set", since |-> now, issued |-> issued,
                     ttl |-> Ttl(issued, now)]
    <3>1. Ttl(issued, now) > 0
      BY <2>3, <2>5
    <3>2. /\ Ttl(issued, now) \in Nat
          /\ issued # NoScreening => now + Ttl(issued, now) <= Deadline(issued)
      BY <3>1, <2>2, <1>1, TtlInTime
    <3>3. d \in Call
      BY <3>2, <2>2, <1>1 DEF Call, Stages
    <3>4. Prompt(d, now)
      BY <1>1, StarkwareAssumption DEF Prompt
    <3>5. Timely(d)
      BY <3>1, <3>2 DEF Timely
    <3>6. call' = [call EXCEPT ![h] = d] /\ UNCHANGED reply
      BY <2>1, <2>5
    <3> QED BY <3>3, <3>4, <3>5, <3>6, <1>1, <1>2, <1>3, <1>9, OneCall DEF Proved
  <2> QED BY <2>4, <2>5
<1>10. CASE ProverRefuses(h) \/ TimesOut(h)
  BY <1>1, <1>2, <1>5, <1>10, RestIsInOrder, OneCall DEF ProverRefuses, TimesOut, Answers
<1>11. CASE Put(h)
  <2> DEFINE d == [c EXCEPT !.at = "stored"]
  <2>1. call' = [call EXCEPT ![h] = d]
    BY <1>1, <1>11 DEF Put
  <2>2. c.at = "set" /\ entry' = [issued |-> c.issued, expires |-> now + c.ttl]
    BY <1>11 DEF Put
  <2>6. d \in Call
    BY <1>1 DEF Call, Stages
  <2>7. /\ d.at = "stored" /\ d.since = c.since
        /\ d.issued = c.issued /\ d.ttl = c.ttl
    BY <1>1 DEF Call
  <2>3. Prompt(d, now) /\ Timely(d)
    BY <1>4, <2>2, <2>7 DEF Prompt, Timely, Storing
  <2>4. entry' \in [issued: Screening, expires: Nat]
    BY <1>1, <2>2 DEF Call
  <2>5. Kept(entry')
    <3>1. entry'.issued = c.issued /\ entry'.expires = now + c.ttl
      BY <2>2
    <3>2. now <= c.since + StoreTimeout
      BY <1>4, <2>2 DEF Prompt, Storing
    <3>3. c.issued # NoScreening => c.since + c.ttl <= Deadline(c.issued)
      BY <1>4, <2>2 DEF Timely
    <3>4. c.issued # NoScreening => now + c.ttl <= Deadline(c.issued) + StoreTimeout
      BY <3>2, <3>3, <1>1, StarkwareAssumption
         DEF Call, Deadline, Screening, NoScreening
    <3> QED BY <3>1, <3>4 DEF Kept
  <2> HIDE DEF c, d
  <2> QED BY <2>1, <2>6, <2>3, <2>4, <2>5, <1>1, <1>3, <1>11, OneCall DEF Put
<1>12. CASE Fail(h)
  <2>1. call' = [call EXCEPT ![h] = Resting] /\ UNCHANGED <<now, entry, reply>>
    BY <1>12 DEF Fail, TryAgain
  <2>2. failures' \in Nat
    BY <1>1, <1>12 DEF Fail
  <2> QED BY <2>1, <2>2, <1>1, <1>2, <1>3, RestIsInOrder, OneCall
<1>13. CASE Serve(h)
  BY <1>7, <1>8, <1>9, <1>10, <1>11, <1>13 DEF Serve
<1> QED BY <1>6, <1>12, <1>13

LEMMA TimeInvIsInvariant == StarkwareSpec => []TimeInv
<1>1. TimeInv /\ [StarkwareNext]_starkware => TimeInv'
  <2> SUFFICES ASSUME TimeInv, [StarkwareNext]_starkware PROVE TimeInv'
    OBVIOUS
  <2>1. CASE StarkwareNext
    BY <2>1, TickKeeps, ServeKeeps DEF StarkwareNext
  <2>2. CASE UNCHANGED starkware
    BY <2>2 DEF starkware, TimeInv, StarkwareTypeOK, Kept, Prompt, Timely, Deadline
  <2> QED BY <2>1, <2>2
<1> QED BY <1>1, InitTimeInv, PTL DEF StarkwareSpec

-----------------------------------------------------------------------------
\* The type invariant of the relay, for any timeouts.
THEOREM StarkwareTypeCorrect == StarkwareSpec => []StarkwareTypeOK
<1>1. TimeInv => StarkwareTypeOK
  BY DEF TimeInv
<1> QED BY <1>1, TimeInvIsInvariant, PTL

\* Every proof the relay answers, fresh or from the store, comes early enough to be
\* submitted: of its margin, at most two commands to the store are lost.
THEOREM ProofsComeInTime == StarkwareSpec => AnsweredInTime
<1>1. TimeInv /\ [StarkwareNext]_starkware
        => [reply' # reply => Submittable(reply'.issued, now)]_starkware
  <2> SUFFICES ASSUME TimeInv, StarkwareNext, reply' # reply
               PROVE  Submittable(reply'.issued, now)
    OBVIOUS
  <2>1. PICK h \in Callers : Ask(h) \/ Serve(h) \/ Fail(h)
    BY DEF StarkwareNext, Tick
  <2> DEFINE c == call[h]
  <2>2. c \in Call /\ now \in Nat /\ Prompt(c, now) /\ Timely(c)
    BY DEF TimeInv, StarkwareTypeOK, Call
  <2>3. CASE Hit(h)
    <3>1. c.at = "hit" /\ reply'.issued = c.issued
      BY <2>3 DEF Hit, Answers
    <3>2. now <= c.since + StoreTimeout
      BY <2>2, <3>1 DEF Prompt, Storing
    <3>3. c.issued # NoScreening => c.since < Deadline(c.issued) + StoreTimeout
      BY <2>2, <3>1 DEF Timely
    <3>4. c.issued # NoScreening
            => now < c.issued + MaxAge - Margin + 2 * StoreTimeout
      BY <2>2, <3>2, <3>3, StarkwareAssumption
         DEF Call, Deadline, Screening, NoScreening
    <3> QED BY <3>1, <3>4 DEF Submittable
  <2>4. CASE Stored(h)
    <3>1. c.at = "stored" /\ reply'.issued = c.issued
      BY <2>4 DEF Stored, Answers
    <3>2. now <= c.since + StoreTimeout
      BY <2>2, <3>1 DEF Prompt, Storing
    <3>3. c.issued # NoScreening => c.ttl > 0 /\ c.since + c.ttl <= Deadline(c.issued)
      BY <2>2, <3>1 DEF Timely
    <3>4. c.issued # NoScreening
            => now < c.issued + MaxAge - Margin + 2 * StoreTimeout
      BY <2>2, <3>2, <3>3, StarkwareAssumption
         DEF Call, Deadline, Screening, NoScreening
    <3> QED BY <3>1, <3>4 DEF Submittable
  <2>5. CASE ProverRefuses(h) \/ TimesOut(h)
    BY <2>5 DEF ProverRefuses, TimesOut, Answers, Submittable
  <2>6. CASE Proved(h)
    BY <2>6 DEF Proved, TryAgain
  <2>7. CASE Ask(h) \/ Get(h) \/ Put(h) \/ Fail(h)
    BY <2>7 DEF Ask, Get, Put, Fail, TryAgain
  <2> QED BY <2>1, <2>3, <2>4, <2>5, <2>6, <2>7 DEF Serve
<1> QED BY <1>1, TimeInvIsInvariant, PTL DEF StarkwareSpec, AnsweredInTime

-----------------------------------------------------------------------------
(***************************************************************************)
(* The endpoint.                                                           *)
(***************************************************************************)
\* The endpoint implements both relays: whatever one of them does is no step of the
\* other, although they share a deployment.
THEOREM EndpointIsBoth == EndpointSpec => Spec /\ StarkwareSpec
<1>1. EndpointInit => Init /\ StarkwareInit
  BY DEF EndpointInit
<1>2. [EndpointNext]_endpoint => [Next]_vars /\ [StarkwareNext]_starkware
  BY DEF EndpointNext, endpoint, ByStarkscan, ByStarkware
<1> QED BY <1>1, <1>2, PTL DEF EndpointSpec, Spec, StarkwareSpec

\* What the relays guarantee is guaranteed by the endpoint, whichever is deployed:
\* no Starkscan job without the success of the one before, no answer that no job
\* has earned, and no StarkWare proof past its screening.
THEOREM EndpointIsSafe ==
  EndpointSpec => [](AttemptsFollowSuccess /\ AnswerIsEarned) /\ AnsweredInTime
BY EndpointIsBoth, NewKeyAfterSuccess, AnswersAreTrue, ProofsComeInTime, PTL
=============================================================================
