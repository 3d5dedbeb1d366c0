----------------------------- MODULE RetryBackoff -----------------------------
(***************************************************************************)
(* The delay before a retry, computed three times: in TypeScript           *)
(* (src/utils/retryBackoff.ts), in Kotlin and in Swift                     *)
(* (RetryPolicyEvaluator on either platform).  Swift clamps a delay far    *)
(* below the overflow of a double, the other two do not.                   *)
(*                                                                         *)
(* All three compute in doubles.  A double is a hundredth of a             *)
(* millisecond counted in Nat, Infinity from the overflow bound on, or     *)
(* NaN.  Jitter is a factor in percent, drawn by the caller.               *)
(***************************************************************************)
EXTENDS SyncTypes

CONSTANTS
  Infinity,   \* where a double overflows, in hundredths of a millisecond
  Ceiling     \* maxRepresentableDelayMs of Swift, in milliseconds

ASSUME InfinityAssumption == Infinity \in Nat \ {0}
ASSUME CeilingAssumption == Ceiling \in Nat \ {0} /\ 100 * Ceiling < Infinity

NaN == -1

\* RetryPolicy, with its delays in milliseconds; "OTHER" is a strategy the code does not know.
RetryPolicy(delays) ==
  [backoff : BackoffStrategy \cup {"OTHER"}, baseDelayMs : delays, maxDelayMs : delays, jitter : BOOLEAN]

Larger(m, n)  == IF m > n THEN m ELSE n
Smaller(m, n) == IF m < n THEN m ELSE n

Saturated(x) == Smaller(x, Infinity)

\* 0 * Infinity is not a number.
Times(x, y) ==
  CASE x = NaN \/ y = NaN -> NaN
    [] {x, y} = {0, Infinity} -> NaN
    [] OTHER -> Saturated(x * y)

\* 2^n and the Fibonacci numbers, overflowing to Infinity.
Power[n \in Nat] == IF n = 0 THEN 1 ELSE Saturated(2 * Power[n - 1])

Fibonacci[n \in Nat] ==
  IF n = 0 THEN 0 ELSE IF n <= 2 THEN 1 ELSE Saturated(Fibonacci[n - 1] + Fibonacci[n - 2])

\* The curve all three share, in hundredths of a millisecond.
Curve(backoff, base, attempt) ==
  Times(100 * base,
        CASE backoff = "LINEAR"    -> attempt
          [] backoff = "FIBONACCI" -> Fibonacci[attempt]
          [] OTHER                 -> Power[attempt - 1])

\* factor percent of x, for a factor that is not zero.
Jittered(x, jitter, factor) ==
  IF ~jitter \/ x \in {NaN, Infinity} THEN x ELSE Saturated((x * factor) \div 100)

\* min and max of a double give NaN when it is NaN.
Clamped(x, cap) == IF NaN \in {x, cap} THEN NaN ELSE Smaller(Larger(0, x), cap)

\* Math.round, and rounded() of a delay that is not negative.
Rounded(x) == IF x \in {NaN, Infinity} THEN x ELSE (x + 50) \div 100
-----------------------------------------------------------------------------
\* retryBackoff.ts: a cap of 0 is no cap.
ComputeNextDelayMs(attempt, policy, factor) ==
  LET safeAttempt == Larger(1, attempt)
      base == Larger(0, policy.baseDelayMs)
      raw  == Jittered(Curve(policy.backoff, base, safeAttempt), policy.jitter, factor)
      cap  == IF policy.maxDelayMs > 0 THEN 100 * policy.maxDelayMs ELSE raw
  IN Rounded(Clamped(raw, cap))

\* RetryPolicyEvaluator.kt: the cap is never below the base; toLong truncates, takes NaN
\* to 0, and a cap that is finite keeps Infinity out.
ComputeDelayMs(attempt, policy, factor) ==
  LET base == Larger(0, policy.baseDelayMs)
      cap  == 100 * Larger(policy.maxDelayMs, base)
      raw  == Jittered(Curve(policy.backoff, base, attempt), policy.jitter, factor)
      delay == Clamped(raw, cap)
  IN IF attempt < 1 \/ delay = NaN THEN 0 ELSE delay \div 100

\* Without the ceiling, on a policy that has no cap.
BugNextDelayMs(attempt, policy, factor) ==
  LET safeAttempt == Larger(1, attempt)
      base == Larger(0, policy.baseDelayMs)
      curve == Curve(policy.backoff, base, safeAttempt)
      raw  == Jittered(IF curve = NaN THEN 0 ELSE curve, policy.jitter, factor)
      cap  == IF policy.maxDelayMs > 0 THEN 100 * policy.maxDelayMs ELSE raw
  IN Rounded(Clamped(raw, cap))

\* RetryPolicyEvaluator.swift: as in TypeScript, with NaN taken to 0 and a last ceiling,
\* the largest integer a JavaScript number holds exactly.
NextDelayMs(attempt, policy, factor) ==
  LET safeAttempt == Larger(1, attempt)
      base == Larger(0, policy.baseDelayMs)
      curve == Curve(policy.backoff, base, safeAttempt)
      raw  == Jittered(IF curve = NaN THEN 0 ELSE curve, policy.jitter, factor)
      cap  == IF policy.maxDelayMs > 0 THEN 100 * policy.maxDelayMs ELSE raw
  IN Rounded(Smaller(Clamped(raw, cap), 100 * Ceiling))
-----------------------------------------------------------------------------
\* The strategies native knows; an unknown one cannot cross the bridge.
Crosses(policy) == policy.backoff \in BackoffStrategy

\* What the two engines wait is a number that respects the cap: on iOS the configured one and
\* the ceiling, on Android the configured one or the base delay, whatever the attempt number
\* overflows to.
DelayBounded(attempt, policy, factor) ==
  Crosses(policy) =>
    LET android == ComputeDelayMs(attempt, policy, factor)
        ios == NextDelayMs(attempt, policy, factor)
    IN /\ android >= 0 /\ ios >= 0
       /\ android <= Larger(policy.maxDelayMs, Larger(0, policy.baseDelayMs))
       /\ ios <= Ceiling
       /\ policy.maxDelayMs > 0 => ios <= policy.maxDelayMs

\* No engine waits less for a later attempt under the same policy, jitter aside.
DelayGrows(attempt, policy) ==
  (Crosses(policy) /\ ~policy.jitter) =>
    /\ ComputeDelayMs(attempt, policy, 100) <= ComputeDelayMs(attempt + 1, policy, 100)
    /\ NextDelayMs(attempt, policy, 100) <= NextDelayMs(attempt + 1, policy, 100)

\* iOS waits what the TypeScript reference computes up to the ceiling, and the ceiling where
\* the reference goes beyond it, to Infinity too; a NaN of the reference is no wait.
IosMatchesJs(attempt, policy, factor) ==
  Crosses(policy) =>
    LET reference == ComputeNextDelayMs(attempt, policy, factor)
    IN NextDelayMs(attempt, policy, factor) =
         IF reference = NaN THEN 0 ELSE Smaller(reference, Ceiling)

\* So does Android, ceiling or not, for the attempts it is asked for and a cap that is not below the base.
AndroidMatchesJs(attempt, policy) ==
  (/\ Crosses(policy) /\ attempt >= 1 /\ ~policy.jitter
   /\ policy.maxDelayMs > 0 /\ policy.maxDelayMs >= policy.baseDelayMs
   /\ ComputeNextDelayMs(attempt, policy, 100) # NaN) =>
    ComputeDelayMs(attempt, policy, 100) = ComputeNextDelayMs(attempt, policy, 100)
=============================================================================
