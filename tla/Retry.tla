------------------------------- MODULE Retry --------------------------------
(***************************************************************************)
(* The retry schedule of pkg/client: RetryPolicy, its defaults, and the    *)
(* longest wait before each further attempt of a request.  A Duration is a *)
(* signed machine integer.                                                 *)
(***************************************************************************)
EXTENDS Integers

CONSTANTS
  MaxDuration,     \* the greatest Duration, 2^63 - 1 nanoseconds
  DefaultPolicy    \* DefaultRetryPolicy

Duration == -(MaxDuration + 1) .. MaxDuration
Policy   == [attempts : Int, base : Duration, max : Duration]

\* Bound: a MaxDelay up to half of the range of a Duration, 146 years.  Beyond
\* it d *= 2 may overflow, and the draw panics.
Roomy(p) == 2 * p.max <= MaxDuration + 1

ASSUME DurationAssumption == MaxDuration \in Nat \ {0}
ASSUME DefaultAssumption  == /\ DefaultPolicy \in Policy /\ Roomy(DefaultPolicy)
                             /\ DefaultPolicy.base > 0 /\ DefaultPolicy.max > 0

Normalized(p) ==
  [attempts |-> IF p.attempts < 1 THEN 1 ELSE p.attempts,
   base     |-> IF p.base <= 0 THEN DefaultPolicy.base ELSE p.base,
   max      |-> IF p.max <= 0 THEN DefaultPolicy.max ELSE p.max]

\* d *= 2, in the width of a Duration.
Doubled(d) == IF 2 * d > MaxDuration THEN 2 * d - 2 * (MaxDuration + 1)
              ELSE IF 2 * d < -(MaxDuration + 1) THEN 2 * d + 2 * (MaxDuration + 1)
              ELSE 2 * d

\* backoff's loop doubling first and comparing afterwards.
LongestDoublingFirst(p, n) ==
  LET d[i \in 0 .. n] == IF i = 0 THEN p.base ELSE Doubled(d[i - 1])
  IN IF d[n] > p.max THEN p.max ELSE d[n]

\* The longest wait that backoff may draw before retry n: its loop, and the cap.
Longest(p, n) ==
  LET d[i \in 0 .. n] == IF i = 0 THEN p.base
                         ELSE IF d[i - 1] < p.max THEN Doubled(d[i - 1])
                         ELSE d[i - 1]
  IN IF d[n] > p.max THEN p.max ELSE d[n]

\* Int63n(d + 1): what is drawn from, empty where Int63n panics.
Draws(p, n) == 0 .. Longest(p, n)

=============================================================================
