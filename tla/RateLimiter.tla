------------------------------ MODULE RateLimiter ------------------------------
(***************************************************************************)
(* The rate limit of a source: ConservativeSourceRateLimiter over the      *)
(* token bucket and the cool-down key in Redis.                            *)
(*                                                                         *)
(* Every fetch task makes a limiter of its own (create_source_rate_limiter)*)
(* so its process-local bucket, counter and cool-down start anew and only  *)
(* Redis holds what tasks share.  A call of Redis is a step of its own,    *)
(* and Redis can become unreachable between any two.                       *)
(***************************************************************************)
EXTENDS Naturals, FiniteSets

CONSTANTS Fetches,     \* fetch tasks
          Rate,        \* tokens the bucket gains in a unit of time
          Capacity,    \* tokens it holds at most
          Ttl,         \* time without a call after which Redis drops the bucket
          CoolDown,    \* length of a cool-down
          MaxTime      \* bound: time that passes

VARIABLES
  now,
  strict,   \* the policy of the source: strict_rate_limit or render_required
  up,       \* Redis answers
  bucket,   \* the bucket's tokens and the time they were counted
  cooling,  \* when the cool-down key expires
  fetch,    \* where a fetch task is in acquire
  mark,     \* history: the start of an observed span of time
  granted   \* history: fetches granted since the mark, counted beyond any allowance

limiter == <<bucket, cooling>>
vars == <<now, strict, up, bucket, cooling, fetch, mark, granted>>

Points == {"idle", "cooldown", "token", "fetching"}

Least(a, b) == IF a <= b THEN a ELSE b

Init ==
  /\ now = 0
  /\ strict \in BOOLEAN
  /\ up = TRUE
  /\ bucket = [tokens |-> Capacity, updated |-> 0]
  /\ cooling = 0
  /\ fetch = [t \in Fetches |-> "idle"]
  /\ mark = 0
  /\ granted = 0

(* The process-local part of acquire: a new limiter has one token and no   *)
(* fetch under way, so it grants.                                          *)
Grant(t) ==
  /\ fetch' = [fetch EXCEPT ![t] = "fetching"]
  /\ granted' = Least(granted + 1, Capacity + Rate * MaxTime + 1)

Refuse(t) == fetch' = [fetch EXCEPT ![t] = "idle"] /\ UNCHANGED granted

(* The healthcheck.  Without Redis only a source that is not strict goes on.*)
Acquire(t) ==
  /\ fetch[t] = "idle"
  /\ IF up THEN fetch' = [fetch EXCEPT ![t] = "cooldown"] /\ UNCHANGED granted
     ELSE ~strict /\ Grant(t)
  /\ UNCHANGED <<now, strict, up, limiter, mark>>

(* get_json: an error looks like no cool-down.                             *)
ReadCooldown(t) ==
  /\ fetch[t] = "cooldown"
  /\ IF up /\ cooling > now THEN Refuse(t)
     ELSE fetch' = [fetch EXCEPT ![t] = "token"] /\ UNCHANGED granted
  /\ UNCHANGED <<now, strict, up, limiter, mark>>

(* Variant: the refill forgets the capacity.                               *)
TokensUncapped == bucket.tokens + Rate * (now - bucket.updated)

(* The script: refill by the time that passed, at most to the capacity.    *)
Tokens ==
  IF now - bucket.updated >= Ttl THEN Capacity
  ELSE Least(Capacity, bucket.tokens + Rate * (now - bucket.updated))

(* Variant: the time of the last refill is not written back.               *)
ConsumeUndated(t) ==
  /\ fetch[t] = "token" /\ up
  /\ IF Tokens >= 1
       THEN bucket' = [bucket EXCEPT !.tokens = Tokens - 1] /\ Grant(t)
       ELSE bucket' = [bucket EXCEPT !.tokens = Tokens] /\ Refuse(t)
  /\ UNCHANGED <<now, strict, up, cooling, mark>>

ConsumeToken(t) ==
  /\ fetch[t] = "token" /\ up
  /\ IF Tokens >= 1
       THEN bucket' = [tokens |-> Tokens - 1, updated |-> now] /\ Grant(t)
       ELSE bucket' = [tokens |-> Tokens, updated |-> now] /\ Refuse(t)
  /\ UNCHANGED <<now, strict, up, cooling, mark>>

(* consume_token without Redis is a refusal, strict or not.                *)
ConsumeFails(t) ==
  /\ fetch[t] = "token" /\ ~up
  /\ Refuse(t)
  /\ UNCHANGED <<now, strict, up, limiter, mark>>

(* release: the counter of a limiter that nobody asks again.               *)
Release(t) ==
  /\ fetch[t] = "fetching"
  /\ fetch' = [fetch EXCEPT ![t] = "idle"]
  /\ UNCHANGED <<now, strict, up, limiter, mark, granted>>

(* cool_down after a blocked fetch: kept in Redis only if it answers.      *)
CoolDownSource(t) ==
  /\ fetch[t] = "fetching"
  /\ cooling' = IF up THEN now + CoolDown ELSE cooling
  /\ fetch' = [fetch EXCEPT ![t] = "idle"]
  /\ UNCHANGED <<now, strict, up, bucket, mark, granted>>

Tick ==
  /\ now < MaxTime
  /\ now' = now + 1
  /\ UNCHANGED <<strict, up, limiter, fetch, mark, granted>>

Outage ==
  /\ up' = ~up
  /\ UNCHANGED <<now, strict, limiter, fetch, mark, granted>>

(* The observed span starts at any time.                                   *)
Observe ==
  /\ mark = 0 /\ now > 0
  /\ mark' = now /\ granted' = 0
  /\ UNCHANGED <<now, strict, up, limiter, fetch>>

Next ==
  \/ \E t \in Fetches : Acquire(t) \/ ReadCooldown(t) \/ ConsumeToken(t) \/ ConsumeFails(t)
                          \/ Release(t) \/ CoolDownSource(t)
  \/ Tick \/ Outage \/ Observe

Allowance == Capacity + Rate * (now - mark)

TypeOK ==
  /\ now \in 0 .. MaxTime /\ mark \in 0 .. now
  /\ strict \in BOOLEAN /\ up \in BOOLEAN
  /\ bucket \in [tokens : 0 .. Capacity, updated : 0 .. now]
  /\ cooling \in 0 .. MaxTime + CoolDown
  /\ fetch \in [Fetches -> Points]
  /\ granted \in 0 .. Capacity + Rate * MaxTime + 1

(* In no span of time does a strict source see more fetches than a full    *)
(* bucket and what it gains in that span, however the tasks interleave and *)
(* whether or not Redis answers (acquire, consume_token).                  *)
StrictIsLimited == strict => granted <= Allowance

-----------------------------------------------------------------------------
(* The inductive invariant: what was granted and what the bucket could     *)
(* still grant are within the allowance together.                          *)
Available == Least(Capacity, bucket.tokens + Rate * (now - bucket.updated))

IInv == TypeOK /\ (strict => granted + Available <= Allowance)
================================================================================
