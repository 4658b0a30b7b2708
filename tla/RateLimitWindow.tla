---------------------------- MODULE RateLimitWindow ----------------------------
(***************************************************************************)
(* One rate-limit window in Redis (redis.service.ts, incrementWindow) and  *)
(* the calls it lets through (redis-rate-limit.service.ts, enforce).       *)
(*                                                                         *)
(* The counter and its time to live are set by two commands: the call that *)
(* counts to one sets the time.  A call for which Redis fails goes         *)
(* through.                                                                *)
(***************************************************************************)
EXTENDS Naturals

CONSTANTS
  Callers,          \* requests of one client that may be handled at once
  Limit,            \* requests that a window lets through
  MaxCalls,         \* requests made; bounds the model
  MaxRedisFailures

ASSUME LimitConstants == Limit \in Nat /\ MaxCalls \in Nat /\ MaxRedisFailures \in Nat

VARIABLES
  window,    \* the key: its count, 0 when it is missing, and whether it expires
  caller,    \* what each request waits for
  calls, redisFailures,
  orphaned   \* history: a call failed between its two commands

limitVars == <<window, caller, calls, redisFailures, orphaned>>

NoWindow == [count |-> 0, timed |-> FALSE]

LimitInit ==
  /\ window = NoWindow /\ caller = [c \in Callers |-> "idle"]
  /\ calls = 0 /\ redisFailures = 0 /\ orphaned = FALSE

\* Mutant of SetsTime: INCR taken for the count before the call.
SetsTimeBefore(count) == count = 0

SetsTime(count) == count = 1

\* INCR.  The request is let through or refused by the count it got.
Count(c) ==
  /\ caller[c] = "idle" /\ calls < MaxCalls /\ calls' = calls + 1
  /\ window' = [window EXCEPT !.count = @ + 1]
  /\ caller' = [caller EXCEPT ![c] =
       IF SetsTime(window'.count) THEN "expire"
       ELSE IF window'.count > Limit THEN "refused" ELSE "passed"]
  /\ UNCHANGED <<redisFailures, orphaned>>

\* EXPIRE, by the call that opened the window; the count it got was 1.
SetExpiry(c) ==
  /\ caller[c] = "expire"
  /\ window' = [window EXCEPT !.timed = window.count > 0]
  /\ caller' = [caller EXCEPT ![c] = IF 1 > Limit THEN "refused" ELSE "passed"]
  /\ UNCHANGED <<calls, redisFailures, orphaned>>

\* Redis fails, or the process stops, before the counting or before the expiry.
RedisFails(c) ==
  /\ redisFailures < MaxRedisFailures /\ redisFailures' = redisFailures + 1
  /\ \/ caller[c] = "idle" /\ UNCHANGED orphaned
     \/ caller[c] = "expire" /\ orphaned' = TRUE
  /\ caller' = [caller EXCEPT ![c] = "passed"]
  /\ UNCHANGED <<window, calls>>

\* The request is handled, or its client is told to wait.
EndCall(c) ==
  /\ caller[c] \in {"passed", "refused"}
  /\ caller' = [caller EXCEPT ![c] = "idle"]
  /\ UNCHANGED <<window, calls, redisFailures, orphaned>>

WindowEnds ==
  /\ window.timed /\ window' = NoWindow
  /\ UNCHANGED <<caller, calls, redisFailures, orphaned>>

LimitNext == WindowEnds \/ \E c \in Callers :
  Count(c) \/ SetExpiry(c) \/ RedisFails(c) \/ EndCall(c)

LimitSpec == LimitInit /\ [][LimitNext]_limitVars

\* The call that opened a window goes on, and time passes.
LimitFairness ==
  /\ WF_limitVars(WindowEnds)
  /\ WF_limitVars(\E c \in Callers : SetExpiry(c))

LimitFairSpec == LimitSpec /\ LimitFairness

LimitTypeOK ==
  /\ window \in [count : 0..MaxCalls, timed : BOOLEAN]
  /\ caller \in [Callers -> {"idle", "expire", "passed", "refused"}]
  /\ calls \in 0..MaxCalls /\ redisFailures \in 0..MaxRedisFailures
  /\ orphaned \in BOOLEAN

\* A client that is refused is let in again after some time, as the answer
\* promises, unless a call failed between counting and setting the time: that
\* window never ends.
BlockEnds == [](window.count > Limit => <>(orphaned \/ window.count = 0))
=============================================================================
