------------------------------- MODULE Vector -------------------------------
(***************************************************************************)
(* Version vectors (internal/vector): for one record, how many writes of   *)
(* each device a state knows about.                                        *)
(*                                                                         *)
(* The Go type is map[string]uint64 whose absent keys read as 0; a vector  *)
(* is here a total function on the devices, 0 standing for an absent key.  *)
(* Compare's second loop only exists to visit the keys that are absent in  *)
(* its receiver, so both loops become one quantifier over Device.          *)
(***************************************************************************)
EXTENDS Naturals

CONSTANT Device    \* device ids, ordered as the code orders the id strings

\* Node id "" (the zero Timestamp, the server's own replica) is 0.
ASSUME DeviceAssumption == Device \subseteq Nat \ {0}

VectorType == [Device -> Nat]

\* A nil map.
ZeroVector == [n \in Device |-> 0]

Increment(v, n) == [v EXCEPT ![n] = @ + 1]

Greater(v, w) == \E n \in Device : v[n] > w[n]

Compare(v, w) ==
  CASE ~Greater(v, w) /\ ~Greater(w, v) -> "Equal"
    []  Greater(v, w) /\ ~Greater(w, v) -> "Descendant"
    [] ~Greater(v, w) /\  Greater(w, v) -> "Ancestor"
    []  Greater(v, w) /\  Greater(w, v) -> "Concurrent"

\* A Merge that raises the counters the left map has and adds none.
MergeAddsNone(a, b) ==
  [n \in Device |-> IF a[n] # 0 /\ b[n] > a[n] THEN b[n] ELSE a[n]]

Merge(a, b) == [n \in Device |-> IF b[n] > a[n] THEN b[n] ELSE a[n]]

=============================================================================
