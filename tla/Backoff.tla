------------------------------- MODULE Backoff -------------------------------
(***************************************************************************)
(* The two retry schedules: relay/retry.go (cappedExp under delay) and     *)
(* consumer/retry.go (retryDelay).  Both cap the exponential               *)
(*     base, 2 base, 4 base, ...                                           *)
(* at a maximum, in fixed-width arithmetic, by different means.  The jitter*)
(* only picks a point below the cap and is left out.                       *)
(***************************************************************************)
EXTENDS Integers

CONSTANTS
    Width,              \* bits of a time.Duration
    MaxAttempt          \* bound: attempts of one event

ASSUME BackoffConstants == Width \in Nat /\ Width > 3 /\ MaxAttempt \in Nat

VARIABLES
    base, maximum,      \* BaseDelay and MaxDelay, as validated
    tries,              \* attempts of the event so far
    relayCap,           \* the relay's cap after that many attempts
    consumerCap         \* the consumer's

backoffVars == <<base, maximum, tries, relayCap, consumerCap>>

\* math.Ldexp(1, n), for every exponent that occurs.
Pow2[n \in 0 .. Width + MaxAttempt] == IF n = 0 THEN 1 ELSE 2 * Pow2[n - 1]

Duration == 1 .. Pow2[Width - 1] - 1

\* Two's complement.
Wrap(x) == ((x + Pow2[Width - 1]) % Pow2[Width]) - Pow2[Width - 1]

\* cappedExp with the exponent delay() passes it.  The comparison is made in
\* floating point (exact for any delay below 2^53 ns), so nothing is multiplied
\* before it is known to fit.
CappedExp(n, b, m) ==
    CASE n <= 0 -> b
      [] n > Width - 2 -> m
      [] n \in 1 .. Width - 2 /\ Pow2[n] * b >= m -> m
      [] OTHER -> Wrap(b * Pow2[n])

\* A pass of retryDelay's loop; the first is one that doubles before it compares.
DoubledUnguarded(c, m) == IF c < m THEN Wrap(2 * c) ELSE c
Doubled(c, m) ==
    CASE c >= m -> c
      [] c < m /\ c > m \div 2 -> m
      [] OTHER -> Wrap(2 * c)

\* capDelay after k passes.
RetryDelayCap(n, b, m) ==
    LET cap[k \in 0 .. n - 1] == IF k = 0 THEN b ELSE Doubled(cap[k - 1], m)
    IN  IF cap[n - 1] > m THEN m ELSE cap[n - 1]

NextAttempt ==
    /\ tries < MaxAttempt
    /\ tries' = tries + 1
    /\ relayCap' = CappedExp(tries' - 1, base, maximum)
    /\ consumerCap' = RetryDelayCap(tries', base, maximum)
    /\ UNCHANGED <<base, maximum>>

BackoffInit ==
    /\ base \in Duration /\ maximum \in Duration /\ base <= maximum
    /\ tries = 1
    /\ relayCap = CappedExp(0, base, maximum)
    /\ consumerCap = RetryDelayCap(1, base, maximum)

BackoffNext == NextAttempt

BackoffSpec == BackoffInit /\ [][BackoffNext]_backoffVars
-----------------------------------------------------------------------------
\* For every legal pair of delays and every number of attempts, however large, both
\* schedules are the exact min(maximum, base * 2^(tries - 1)) of the comment
\* on delay(): neither overflows, wraps to a negative delay or shrinks.
BackoffExact ==
    LET exact == base * Pow2[tries - 1]
        capped == IF exact < maximum THEN exact ELSE maximum
    IN  relayCap = capped /\ consumerCap = capped
=============================================================================
