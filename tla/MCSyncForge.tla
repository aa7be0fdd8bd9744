---------------------------- MODULE MCSyncForge -----------------------------
(***************************************************************************)
(* SyncForge for TLC: the values of Quota, the number of writes of each    *)
(* device, and of Time, its wall clock, that a configuration cannot spell. *)
(***************************************************************************)
EXTENDS Replication

OneEach     == [d \in Device |-> 1]
TwoAndOne   == [d \in Device |-> IF d = 1 THEN 2 ELSE 1]

\* Clocks that stand still, so that only the logical counters order events.
Still       == [d \in Device |-> {1}]
\* Clocks that read either time at any moment: they advance, step back and
\* disagree.
TwoReadings == [d \in Device |-> {1, 2}]
\* One clock that jumps around the other's reading.
OneUnsteady == [d \in Device |-> IF d = 1 THEN {1, 3} ELSE {2}]
\* One clock behind the others, as far as reading goes.
OneBehind   == [d \in Device |-> IF d = 1 THEN {1} ELSE {2}]
\* Three clocks that disagree, the first ahead and the second behind.
AllDisagree  == [d \in Device |-> IF d = 1 THEN {3} ELSE IF d = 2 THEN {1} ELSE {2}]

=============================================================================
