------------------------------ MODULE MCSession -----------------------------
(***************************************************************************)
(* Session for TLC: retry policies in units of 100ms, in a Duration of     *)
(* seven bits.                                                             *)
(***************************************************************************)
EXTENDS Session

\* DefaultRetryPolicy: 5 attempts, 100ms, 2s.
Defaults == [attempts |-> 5, base |-> 1, max |-> 20]

\* Two attempts or, for a value below 1, one; delays left to the defaults, a
\* MaxDelay that is no multiple of the BaseDelay, one at half of the range, and
\* a BaseDelay at its end.
SomePolicies == {[attempts |-> 0, base |-> -1, max |-> 7],
                 [attempts |-> 3, base |-> 3, max |-> 32],
                 [attempts |-> 2, base |-> 63, max |-> 0]}

=============================================================================
