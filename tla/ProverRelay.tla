----------------------------- MODULE ProverRelay -----------------------------
(***************************************************************************)
(* The Starkscan prover relay (starkscan-prover-relay.ts) and its job store *)
(* (starkscan-prover-store.ts): serverless handlers that answer one proving *)
(* request of the Privacy SDK, each of them starting from what the store    *)
(* says, and the SDK, which sends the request again until it is answered.   *)
(*                                                                         *)
(* Starkscan keeps one job per idempotency key and hands its proof out      *)
(* once.  The key names the request and an attempt; the store has a cursor  *)
(* (the current attempt and the last status seen) and, for a few minutes,   *)
(* the terminal answer of each attempt.  A handler dies, a response is      *)
(* lost, and a record expires between any two of its steps.                 *)
(***************************************************************************)
EXTENDS Naturals

CONSTANTS
  Handlers,
  MaxAttempts, \* bound on the attempts
  MaxLosses    \* bound on what is lost: handlers, responses, proofs, records

ASSUME ProverAssumption == {MaxAttempts, MaxLosses} \subseteq Nat

VARIABLES
  job,       \* of each attempt, the status of its job at Starkscan
  holds,     \* the attempts whose proof Starkscan has still to hand out
  stale,     \* the attempts whose screening is about to expire
  cursor,    \* in the store: the attempt and its status
  terminal,  \* in the store: the terminal answers, by attempt
  kept,      \* the attempts whose terminal answer was ever stored
  handler,   \* where each handler is, for which attempt, with what answer
  answer,    \* what the SDK was answered
  losses

starkscan == <<job, holds, stale>>
store     == <<cursor, terminal, kept>>
vars      == <<starkscan, store, handler, answer, losses>>

Attempts == 0..MaxAttempts

Ended == {"succeeded", "failed", "unknown_delivery"}
Statuses == {"none", "running", "unavailable"} \cup Ended

\* The statuses queued and dispatched are one here: both are polled.
Cursor == [attempt: Attempts, status: Statuses]
NewCursor(n) == [attempt |-> n, status |-> "none"]

\* A proof that came with an answer, or none.
Answer == [status: Statuses, proof: BOOLEAN]
NoAnswer == [status |-> "none", proof |-> FALSE]

Idle == [at |-> "idle", attempt |-> 0, got |-> NoAnswer]

Init ==
  /\ job = [n \in Attempts |-> "none"]
  /\ holds = {} /\ stale = {}
  /\ cursor = NewCursor(0)
  /\ terminal = [n \in Attempts |-> "none"]
  /\ kept = {}
  /\ handler = [h \in Handlers |-> Idle]
  /\ answer = "none"
  /\ losses = 0

Goto(h, stage) == handler' = [handler EXCEPT ![h].at = stage]
N(h) == handler[h].attempt
Got(h) == handler[h].got
At(h) == handler[h].at

\* The response of a handler that ends.  A 503 and a 502 are tried again.
Reply(h, what) ==
  /\ handler' = [handler EXCEPT ![h] = Idle]
  /\ answer' = IF what = "again" THEN answer ELSE what

ReplyTo(status) == IF status = "succeeded" THEN "proof" ELSE "error"

(***************************************************************************)
(* loadStoredAttempt: a read of the cursor, then one of the terminal answer *)
(* of its attempt.                                                         *)
(***************************************************************************)
\* The SDK sends the request, again while an earlier handler still works on it.
Receive(h) ==
  /\ At(h) = "idle" /\ answer = "none"
  /\ Goto(h, "cursor")
  /\ UNCHANGED <<starkscan, store, answer, losses>>

ReadCursor(h) ==
  /\ At(h) = "cursor"
  /\ handler' = [handler EXCEPT ![h] =
                   [at |-> "terminal", attempt |-> cursor.attempt,
                    got |-> [NoAnswer EXCEPT !.status = cursor.status]]]
  /\ UNCHANGED <<starkscan, store, answer, losses>>

\* Mutant: a job that failed is tried again under a new key.
EagerReadTerminal(h) ==
  /\ At(h) = "terminal"
  /\ LET found == terminal[N(h)] IN
       \/ /\ found # "none" /\ ~(found = "succeeded" /\ N(h) \in stale)
          /\ Reply(h, ReplyTo(found))
       \/ /\ \/ found = "succeeded" /\ N(h) \in stale
             \/ found = "none" /\ Got(h).status \in {"succeeded", "failed"}
          /\ Goto(h, "rotate") /\ UNCHANGED answer
       \/ /\ found = "none" /\ Got(h).status = "unknown_delivery"
          /\ Reply(h, "error")
       \/ /\ found = "none" /\ Got(h).status \notin Ended
          /\ Goto(h, "post") /\ UNCHANGED answer
  /\ UNCHANGED <<starkscan, store, losses>>

\* A stored answer is given, unless its screening would not outlast the
\* submission.  A success whose proof is gone, or stale, takes a new attempt.
ReadTerminal(h) ==
  /\ At(h) = "terminal"
  /\ LET found == terminal[N(h)] IN
       \/ /\ found # "none" /\ ~(found = "succeeded" /\ N(h) \in stale)
          /\ Reply(h, ReplyTo(found))
       \/ /\ \/ found = "succeeded" /\ N(h) \in stale
             \/ found = "none" /\ Got(h).status = "succeeded"
          /\ Goto(h, "rotate") /\ UNCHANGED answer
       \/ /\ found = "none" /\ Got(h).status \in {"unknown_delivery", "failed"}
          /\ Reply(h, "error")
       \/ /\ found = "none" /\ Got(h).status \notin Ended
          /\ Goto(h, "post") /\ UNCHANGED answer
  /\ UNCHANGED <<starkscan, store, losses>>

Rotate(h) ==
  /\ At(h) = "rotate" /\ N(h) < MaxAttempts
  /\ cursor' = NewCursor(N(h) + 1)
  /\ handler' = [handler EXCEPT ![h] = [at |-> "post", attempt |-> N(h) + 1,
                                        got |-> NoAnswer]]
  /\ UNCHANGED <<starkscan, terminal, kept, answer, losses>>

(***************************************************************************)
(* The submission and the polls.                                           *)
(***************************************************************************)
\* What Starkscan says of attempt n: the proof goes with the first such answer.
Says(n, status) == [status |-> status,
                    proof |-> status = "succeeded" /\ n \in holds]

\* A POST creates the job of a new key, and may start an unavailable one again.
Posted(n) ==
  IF job[n] \in {"none", "unavailable"}
    THEN job' = [job EXCEPT ![n] = "running"]
    ELSE UNCHANGED job

Post(h) ==
  /\ At(h) = "post"
  /\ Posted(N(h))
  /\ handler' = [handler EXCEPT ![h].at = "save",
                                ![h].got = Says(N(h), job'[N(h)])]
  /\ holds' = holds \ {N(h)}
  /\ UNCHANGED <<stale, store, answer, losses>>

Poll(h) ==
  /\ At(h) = "poll"
  /\ handler' = [handler EXCEPT ![h].at = "save", ![h].got = Says(N(h), job[N(h)])]
  /\ holds' = IF job[N(h)] = "succeeded" THEN holds \ {N(h)} ELSE holds
  /\ UNCHANGED <<job, stale, store, answer, losses>>

\* The deadline of the handler, which answers 503.
StopPolling(h) ==
  /\ At(h) = "poll"
  /\ Reply(h, "again")
  /\ UNCHANGED <<starkscan, store, losses>>

(***************************************************************************)
(* persistJob: two writes for a terminal job, one for the others.          *)
(***************************************************************************)
NoProof(h) == Got(h).status = "succeeded" /\ (~Got(h).proof \/ N(h) \in stale)

\* Mutant: the next request finds the same attempt.
StuckSaveRotated(h) ==
  /\ At(h) = "save" /\ NoProof(h) /\ N(h) < MaxAttempts
  /\ cursor' = NewCursor(N(h))
  /\ Reply(h, "again")
  /\ UNCHANGED <<starkscan, terminal, kept, losses>>

\* The proof was handed out before, or will not last: the next request proves
\* anew.
SaveRotated(h) ==
  /\ At(h) = "save" /\ NoProof(h) /\ N(h) < MaxAttempts
  /\ cursor' = NewCursor(N(h) + 1)
  /\ Reply(h, "again")
  /\ UNCHANGED <<starkscan, terminal, kept, losses>>

\* The one-time payload is stored before the cursor tells of it.
SaveTerminal(h) ==
  /\ At(h) = "save" /\ Got(h).status \in Ended /\ ~NoProof(h)
  /\ terminal' = [terminal EXCEPT ![N(h)] = Got(h).status]
  /\ kept' = kept \cup {N(h)}
  /\ Goto(h, "mark")
  /\ UNCHANGED <<starkscan, cursor, answer, losses>>

Mark(h) ==
  /\ At(h) = "mark"
  /\ cursor' = [attempt |-> N(h), status |-> Got(h).status]
  /\ Reply(h, ReplyTo(Got(h).status))
  /\ UNCHANGED <<starkscan, terminal, kept, losses>>

\* Mutant: an unavailable prover is answered as a failure of the proof.
GloomySaveCursor(h) ==
  /\ At(h) = "save" /\ Got(h).status \notin Ended
  /\ cursor' = [attempt |-> N(h), status |-> Got(h).status]
  /\ IF Got(h).status = "unavailable"
       THEN Reply(h, "error")
       ELSE Goto(h, "poll") /\ UNCHANGED answer
  /\ UNCHANGED <<starkscan, terminal, kept, losses>>

\* A job that goes on is polled; of an unavailable one the SDK is told at once.
SaveCursor(h) ==
  /\ At(h) = "save" /\ Got(h).status \notin Ended
  /\ cursor' = [attempt |-> N(h), status |-> Got(h).status]
  /\ IF Got(h).status = "unavailable"
       THEN Reply(h, "again")
       ELSE Goto(h, "poll") /\ UNCHANGED answer
  /\ UNCHANGED <<starkscan, terminal, kept, losses>>

(***************************************************************************)
(* Starkscan works, and things are lost.                                   *)
(***************************************************************************)
Finish(n, status) ==
  /\ job[n] = "running"
  /\ job' = [job EXCEPT ![n] = status]
  /\ holds' = IF status = "succeeded" THEN holds \cup {n} ELSE holds
  /\ UNCHANGED <<stale, store, handler, answer, losses>>

Lose == losses < MaxLosses /\ losses' = losses + 1

Unavailable(n) ==
  /\ Lose
  /\ job[n] = "running"
  /\ job' = [job EXCEPT ![n] = "unavailable"]
  /\ UNCHANGED <<holds, stale, store, handler, answer>>

\* The function is ended, a request of it fails, or its response is lost.
Die(h) ==
  /\ Lose
  /\ At(h) # "idle"
  /\ handler' = [handler EXCEPT ![h] = Idle]
  /\ UNCHANGED <<starkscan, store, answer>>

\* Starkscan has handed the proof out, and the handler never sees it.
LoseProof(n) ==
  /\ Lose
  /\ n \in holds
  /\ holds' = holds \ {n}
  /\ UNCHANGED <<job, stale, store, handler, answer>>

Age(n) ==
  /\ Lose
  /\ job[n] = "succeeded" /\ n \notin stale
  /\ stale' = stale \cup {n}
  /\ UNCHANGED <<job, holds, store, handler, answer>>

\* The terminal answers live five minutes, the cursor a day.
ExpireTerminal(n) ==
  /\ Lose
  /\ terminal[n] # "none"
  /\ terminal' = [terminal EXCEPT ![n] = "none"]
  /\ UNCHANGED <<starkscan, cursor, kept, handler, answer>>

ExpireCursor ==
  /\ Lose
  /\ cursor # NewCursor(0)
  /\ cursor' = NewCursor(0)
  /\ UNCHANGED <<starkscan, terminal, kept, handler, answer>>

Work(h) ==
  \/ ReadCursor(h) \/ ReadTerminal(h) \/ Rotate(h) \/ Post(h) \/ Poll(h)
  \/ SaveRotated(h) \/ SaveTerminal(h) \/ Mark(h) \/ SaveCursor(h)

Next ==
  \/ \E h \in Handlers : Receive(h) \/ Work(h) \/ StopPolling(h) \/ Die(h)
  \/ \E n \in Attempts :
       \/ \E status \in Ended : Finish(n, status)
       \/ Unavailable(n) \/ LoseProof(n) \/ Age(n) \/ ExpireTerminal(n)
  \/ ExpireCursor

Spec == Init /\ [][Next]_vars

\* The SDK asks again until it is answered, a handler works until it ends, and
\* Starkscan finishes every job.
FairSpec ==
  /\ Spec
  /\ WF_vars(\E h \in Handlers : Receive(h))
  /\ \A h \in Handlers : WF_vars(Work(h))
  /\ WF_vars(\E n \in Attempts, status \in Ended : Finish(n, status))
-----------------------------------------------------------------------------
TypeOK ==
  /\ job \in [Attempts -> Statuses]
  /\ holds \subseteq Attempts /\ stale \subseteq Attempts /\ kept \subseteq Attempts
  /\ cursor \in Cursor
  /\ terminal \in [Attempts -> {"none"} \cup Ended]
  /\ handler \in [Handlers ->
                    [at: {"idle", "cursor", "terminal", "rotate", "post", "save",
                          "mark", "poll"},
                     attempt: Attempts, got: Answer]]
  /\ answer \in {"none", "proof", "error"}
  /\ losses \in 0..MaxLosses

\* However the handlers of one request overtake each other, and whatever the
\* store forgets, a job is created under a new key only when the job of the key
\* before it has succeeded: none runs twice, and none is started over that
\* failed or whose delivery is unknown.
AttemptsFollowSuccess ==
  \A n \in Attempts : n > 0 /\ job[n] # "none" => job[n - 1] = "succeeded"

\* The cursor tells of the end of a job only when its one-time answer was
\* stored, so that a handler that dies between the two writes loses nothing.
KeptBeforeMarked == cursor.status \in Ended => cursor.attempt \in kept

\* A proof is answered only if Starkscan has finished one, and an error only if
\* a job of the request ended without one.
AnswerIsEarned ==
  /\ answer = "proof" => \E n \in Attempts : job[n] = "succeeded"
  /\ answer = "error" => \E n \in Attempts : job[n] \in {"failed", "unknown_delivery"}

\* A request that is sent until it is answered is answered.
RequestAnswered == <>(answer # "none")
=============================================================================
