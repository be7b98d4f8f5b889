----------------------------- MODULE RateLimiter -----------------------------
(***************************************************************************)
(* The token bucket of rateLimiter.ts, with both of its strategies.        *)
(*                                                                         *)
(* Time is counted from the last refill, up to an interval; the clock does *)
(* not step back, and a timer fires at any time once it is set.  A task    *)
(* that is executed may call the limiter again, from within processQueue   *)
(* too, whose loop is therefore modelled step by step.                     *)
(*                                                                         *)
(* Vars, types, initial states and steps carry the component's name, since *)
(* Chain_proofs extends this module beside ChainProvider.                  *)
(***************************************************************************)
EXTENDS Integers, Sequences

CONSTANTS
  Task,          \* calls of schedule
  MaxRequests,   \* config.maxRequestsPerInterval
  Interval,      \* config.intervalMs
  MaxQueued      \* config.maxQueuedRequests

ASSUME ConfigIsNat == MaxRequests \in Nat /\ Interval \in Nat \ {0} /\ MaxQueued \in Nat

VARIABLES
  strategy,
  tokens,      \* remainingTokens
  elapsed,     \* time since lastRefillTimestamp, at most an interval
  queue,
  timerIsSet,  \* timerId # undefined
  timers,      \* timers that are still to fire, timerId's among them
  processing,  \* processQueue is running
  task,        \* task[t]: what became of it
  executed     \* executed[a]: tasks executed in the last a + 1 instants, up to an interval

timeVars == <<elapsed, executed>>
queueVars == <<queue, timerIsSet, timers, processing>>
limiterVars == <<strategy, tokens, timeVars, queueVars, task>>

Age == 0 .. Interval - 1

LimiterTypeOK ==
  /\ strategy \in {"queue", "drop"}
  /\ tokens \in 0 .. MaxRequests
  /\ elapsed \in 0 .. Interval
  /\ queue \in Seq(Task) /\ Len(queue) <= MaxQueued
  /\ timerIsSet \in BOOLEAN /\ timers \in Nat /\ processing \in BOOLEAN
  /\ task \in [Task -> {"new", "queued", "executed", "rejected"}]
  /\ executed \in [Age -> Nat]

LimiterInit ==
  /\ strategy \in {"queue", "drop"}
  /\ tokens = MaxRequests /\ elapsed = 0
  /\ queue = << >> /\ timerIsSet = FALSE /\ timers = 0 /\ processing = FALSE
  /\ task = [t \in Task |-> "new"] /\ executed = [a \in Age |-> 0]

(* refillTokens: whole, once an interval has passed. *)
DueEarlyFault == elapsed > 0
IsDue == elapsed = Interval
TokensNow == IF IsDue THEN MaxRequests ELSE tokens
ElapsedNow == IF IsDue THEN 0 ELSE elapsed

Tick ==
  /\ ~processing
  /\ elapsed' = IF elapsed = Interval THEN Interval ELSE elapsed + 1
  /\ executed' = [a \in Age |-> IF a = 0 THEN 0 ELSE executed[a - 1]]
  /\ UNCHANGED <<strategy, tokens, queueVars, task>>

Execute(t) ==
  /\ task' = [task EXCEPT ![t] = "executed"]
  /\ executed' = [a \in Age |-> executed[a] + 1]

-----------------------------------------------------------------------------
(* schedule, at any time, also from within a task. *)

ExecuteNow(t) ==
  /\ TokensNow > 0 /\ queue = << >>
  /\ tokens' = TokensNow - 1
  /\ Execute(t)
  /\ UNCHANGED queueVars

Reject(t) ==
  /\ ~(TokensNow > 0 /\ queue = << >>)
  /\ strategy = "drop" \/ Len(queue) >= MaxQueued
  /\ tokens' = TokensNow
  /\ task' = [task EXCEPT ![t] = "rejected"]
  /\ UNCHANGED <<queueVars, executed>>

TimersToSet == IF timerIsSet THEN 0 ELSE 1

Enqueue(t) ==
  /\ ~(TokensNow > 0 /\ queue = << >>)
  /\ strategy = "queue" /\ Len(queue) < MaxQueued
  /\ tokens' = TokensNow
  /\ queue' = Append(queue, t)
  /\ task' = [task EXCEPT ![t] = "queued"]
  /\ timerIsSet' = TRUE /\ timers' = timers + TimersToSet
  /\ UNCHANGED <<processing, executed>>

Schedule(t) ==
  /\ task[t] = "new"
  /\ elapsed' = ElapsedNow
  /\ ExecuteNow(t) \/ Reject(t) \/ Enqueue(t)
  /\ UNCHANGED strategy

-----------------------------------------------------------------------------
(* processQueue. *)

StaleTimerFault == timerIsSet
AfterFiring == FALSE

TimerFires ==
  /\ ~processing /\ timers > 0
  /\ timers' = timers - 1 /\ timerIsSet' = AfterFiring /\ processing' = TRUE
  /\ tokens' = TokensNow /\ elapsed' = ElapsedNow
  /\ UNCHANGED <<strategy, queue, task, executed>>

ProcessNext ==
  /\ processing /\ tokens > 0 /\ queue # << >>
  /\ queue' = Tail(queue) /\ tokens' = tokens - 1
  /\ Execute(Head(queue))
  /\ UNCHANGED <<strategy, elapsed, timerIsSet, timers, processing>>

(* A timer is set for what is left, whether or not a task has just set one. *)
UnlessSetFault == queue # << >> /\ tokens > 0
LeavesSome == queue # << >>

ProcessEnds ==
  /\ processing /\ ~(tokens > 0 /\ queue # << >>)
  /\ processing' = FALSE
  /\ timerIsSet' = (timerIsSet \/ LeavesSome)
  /\ timers' = IF LeavesSome THEN timers + 1 ELSE timers
  /\ UNCHANGED <<strategy, tokens, elapsed, queue, task, executed>>

Queued == {queue[i] : i \in DOMAIN queue}

Destroy ==
  /\ strategy = "queue"
  /\ timers' = IF timerIsSet THEN timers - 1 ELSE timers
  /\ timerIsSet' = FALSE
  /\ queue' = << >>
  /\ task' = [t \in Task |-> IF t \in Queued THEN "rejected" ELSE task[t]]
  /\ UNCHANGED <<strategy, tokens, elapsed, processing, executed>>

LimiterNext ==
  \/ Tick \/ TimerFires \/ ProcessNext \/ ProcessEnds \/ Destroy
  \/ \E t \in Task : Schedule(t)

LimiterSpec == LimiterInit /\ [][LimiterNext]_limiterVars

(* Timers fire and a loop that runs goes on; time passes between timers, which
   are half an interval long. *)
LimiterFairSpec ==
  /\ LimiterSpec
  /\ SF_limiterVars(Tick) /\ WF_limiterVars(TimerFires)
  /\ WF_limiterVars(ProcessNext) /\ WF_limiterVars(ProcessEnds)

-----------------------------------------------------------------------------
(* Properties. *)

(* Tokens come back whole, so that two buckets may be spent on either side of a
   refill, but never more within one interval. *)
RateBounded == \A a \in Age : executed[a] <= 2 * MaxRequests

(* Why: what was executed since the last refill came out of the bucket that it
   filled, and what an interval saw before it, out of the one before. *)
BucketsInv ==
  \A a \in Age : /\ executed[a] <= 2 * MaxRequests - tokens
                 /\ a < elapsed => executed[a] <= MaxRequests - tokens

(* While something is queued, a timer is to fire or the loop is running,
   however tasks call schedule and destroy. *)
QueueServed ==
  /\ queue # << >> => timerIsSet \/ processing
  /\ timerIsSet => timers > 0

(* What is queued is executed, or rejected by destroy. *)
QueuedIsSettled ==
  MaxRequests > 0 => \A t \in Task : task[t] = "queued" ~> task[t] \in {"executed", "rejected"}
=============================================================================
