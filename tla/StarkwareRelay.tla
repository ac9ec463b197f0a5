--------------------------- MODULE StarkwareRelay ---------------------------
(***************************************************************************)
(* The StarkWare prover relay (starkware-prover-relay.ts): handlers pass   *)
(* one proving request of the Privacy SDK on to a prover that answers in   *)
(* the same call, and keep the proof for a while in the shared store, so   *)
(* that a request whose response was lost need not be proved again.        *)
(*                                                                         *)
(* A proof may carry a screening that is good for MaxAge and must be left  *)
(* time for its submission.  The relay computes how long it may serve the  *)
(* proof when the proof comes; the store counts from when it gets the      *)
(* write, and what a handler reads of it comes later still.  The model has *)
(* one clock: the relay, the store and the screening agree on the time.    *)
(***************************************************************************)
EXTENDS Integers

CONSTANTS
  Callers,        \* handlers of the relay
  MaxAge,         \* SCREENING_MAX_AGE_SECONDS
  Margin,         \* SCREENING_SUBMISSION_MARGIN_SECONDS
  CacheTtl,       \* RESULT_CACHE_TTL_SECONDS
  RequestTimeout, \* DEFAULT_REQUEST_TIMEOUT_MS
  StoreTimeout,   \* REDIS_TIMEOUT_MS
  MaxTime,        \* bound on the clock
  MaxFailures     \* bound on what fails: handlers, responses, the store, the prover

ASSUME StarkwareAssumption ==
  /\ {MaxAge, Margin, RequestTimeout, StoreTimeout, MaxTime, MaxFailures}
       \subseteq Nat
  /\ CacheTtl \in Nat \ {0}

VARIABLES
  now,      \* the clock
  entry,    \* the proof in the store: its screening, and when it expires
  call,     \* where each handler is, since when, with what proof, for how long
  reply,    \* what the SDK was answered, and the screening of the proof
  failures

starkware == <<now, entry, call, reply, failures>>

\* A proof is told by the time of its screening; there may be none.
NoScreening == -1
Screening == {NoScreening} \cup Nat

Stages == {"idle", "get", "hit", "prove", "set", "stored"}

\* Of these a command to the store is in progress.
Storing == {"get", "hit", "set", "stored"}

Resting == [at |-> "idle", since |-> 0, issued |-> NoScreening, ttl |-> 0]

NoEntry == [issued |-> NoScreening, expires |-> 0]

StarkwareInit ==
  /\ now = 0
  /\ entry = NoEntry
  /\ call = [h \in Callers |-> Resting]
  /\ reply = [what |-> "none", issued |-> NoScreening]
  /\ failures = 0

\* Mutant: every proof is kept as long as one without a screening.
LazyTtl(issued, t) == CacheTtl

\* resultTtlSeconds
Ttl(issued, t) ==
  LET left == issued + MaxAge - Margin - t
  IN  IF issued = NoScreening \/ CacheTtl <= left THEN CacheTtl ELSE left

\* The handler ends with an answer, or with an error the SDK tries again after.
Answers(h, what, issued) ==
  /\ call' = [call EXCEPT ![h] = Resting]
  /\ reply' = [what |-> what, issued |-> issued]

TryAgain(h) ==
  /\ call' = [call EXCEPT ![h] = Resting]
  /\ UNCHANGED reply

\* The SDK sends the request, again while an earlier handler still works on it.
Ask(h) ==
  /\ call[h].at = "idle" /\ reply.what = "none"
  /\ call' = [call EXCEPT ![h].at = "get", ![h].since = now]
  /\ UNCHANGED <<now, entry, reply, failures>>

\* The store looks the proof up, if it has not expired.
Get(h) ==
  /\ call[h].at = "get"
  /\ call' = IF now < entry.expires
               THEN [call EXCEPT ![h].at = "hit", ![h].issued = entry.issued]
               ELSE [call EXCEPT ![h].at = "prove", ![h].since = now]
  /\ UNCHANGED <<now, entry, reply, failures>>

Hit(h) ==
  /\ call[h].at = "hit"
  /\ Answers(h, "proof", call[h].issued)
  /\ UNCHANGED <<now, entry, failures>>

\* The prover screens and proves while the handler waits.
Proved(h) ==
  /\ call[h].at = "prove"
  /\ \E issued \in {NoScreening} \cup (call[h].since)..now :
       IF Ttl(issued, now) <= 0
         THEN TryAgain(h)
         ELSE /\ call' = [call EXCEPT ![h] =
                            [at |-> "set", since |-> now, issued |-> issued,
                             ttl |-> Ttl(issued, now)]]
              /\ UNCHANGED reply
  /\ UNCHANGED <<now, entry, failures>>

\* A JSON-RPC error of the prover is passed on.
ProverRefuses(h) ==
  /\ call[h].at = "prove"
  /\ Answers(h, "error", NoScreening)
  /\ UNCHANGED <<now, entry, failures>>

\* 504: "Proof delivery is unknown".
TimesOut(h) ==
  /\ call[h].at = "prove"
  /\ now - call[h].since >= RequestTimeout
  /\ Answers(h, "unknown", NoScreening)
  /\ UNCHANGED <<now, entry, failures>>

\* The store counts the time to live from when it gets the command.
Put(h) ==
  /\ call[h].at = "set"
  /\ entry' = [issued |-> call[h].issued, expires |-> now + call[h].ttl]
  /\ call' = [call EXCEPT ![h].at = "stored"]
  /\ UNCHANGED <<now, reply, failures>>

Stored(h) ==
  /\ call[h].at = "stored"
  /\ Answers(h, "proof", call[h].issued)
  /\ UNCHANGED <<now, entry, failures>>

\* The handler is ended, the store or the prover fails, or the response is lost.
Fail(h) ==
  /\ failures < MaxFailures /\ failures' = failures + 1
  /\ call[h].at # "idle"
  /\ TryAgain(h)
  /\ UNCHANGED <<now, entry>>

\* Fetches are aborted at their timeouts; one that has reached the store or the
\* prover by then has been carried out or never will be.
InTime(h) ==
  /\ call[h].at \in Storing => now - call[h].since < StoreTimeout
  /\ call[h].at = "prove" => now - call[h].since < RequestTimeout

Tick ==
  /\ now < MaxTime
  /\ \A h \in Callers : InTime(h)
  /\ now' = now + 1
  /\ UNCHANGED <<entry, call, reply, failures>>

Serve(h) ==
  \/ Get(h) \/ Hit(h) \/ Proved(h) \/ ProverRefuses(h) \/ TimesOut(h)
  \/ Put(h) \/ Stored(h)

StarkwareNext == Tick \/ \E h \in Callers : Ask(h) \/ Serve(h) \/ Fail(h)

StarkwareSpec == StarkwareInit /\ [][StarkwareNext]_starkware
-----------------------------------------------------------------------------
StarkwareTypeOK ==
  /\ now \in Nat
  /\ entry \in [issued: Screening, expires: Nat]
  /\ call \in [Callers -> [at: Stages, since: Nat, issued: Screening, ttl: Nat]]
  /\ reply \in [what: {"none", "proof", "error", "unknown"}, issued: Screening]
  /\ failures \in Nat

\* What is left of the margin when a proof is answered at time t.
Submittable(issued, t) ==
  issued # NoScreening => t < issued + MaxAge - Margin + 2 * StoreTimeout

\* A proof is answered, fresh or from the store, with the submission margin of its
\* screening but for the time of two commands to the store: one that wrote the
\* proof after its time to live was computed, one that read it before it expired.
AnsweredInTime ==
  [][reply' # reply => Submittable(reply'.issued, now)]_starkware
=============================================================================
