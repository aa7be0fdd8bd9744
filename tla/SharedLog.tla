----------------------------- MODULE SharedLog ------------------------------
(***************************************************************************)
(* What SyncForge's logs amount to, with neither requests nor handlers nor *)
(* pages: devices write, the server puts the writes in one sequence, and   *)
(* every device reads that sequence from the front.  A write is known by   *)
(* its device and its number there, <<d, n>>.                              *)
(***************************************************************************)
EXTENDS Naturals, Sequences

CONSTANT Device

VARIABLES
  wrote,    \* wrote[d]: how many writes device d has made
  shared,   \* the sequence, which only grows at its end
  copy,     \* copy[d]: the writes that d holds, its own included
  acked,    \* acked[d]: those of its own that d knows to be in the sequence
  place     \* place[d]: how much of the sequence d has done with

vars == <<wrote, shared, copy, acked, place>>

Shared == {shared[i] : i \in DOMAIN shared}

Init ==
  /\ wrote  = [d \in Device |-> 0]
  /\ shared = <<>>
  /\ copy   = [d \in Device |-> {}]
  /\ acked  = [d \in Device |-> {}]
  /\ place  = [d \in Device |-> 0]

\* A device writes without asking anyone.
Write(d) ==
  /\ wrote' = [wrote EXCEPT ![d] = @ + 1]
  /\ copy'  = [copy EXCEPT ![d] = @ \cup {<<d, wrote[d] + 1>>}]
  /\ UNCHANGED <<shared, acked, place>>

\* The first write of d that is not in the sequence gets there.
Share(d) ==
  /\ \E n \in 1 .. wrote[d] :
       /\ <<d, n>> \notin Shared
       /\ \A m \in 1 .. n - 1 : <<d, m>> \in Shared
       /\ shared' = Append(shared, <<d, n>>)
  /\ UNCHANGED <<wrote, copy, acked, place>>

\* d learns that some of its writes are in the sequence.
Acknowledge(d) ==
  /\ \E ids \in SUBSET {id \in Shared : id[1] = d} :
       acked' = [acked EXCEPT ![d] = @ \cup ids]
  /\ UNCHANGED <<wrote, shared, copy, place>>

\* The first write of the sequence that d does not hold reaches d.
Fetch(d) ==
  /\ \E i \in DOMAIN shared :
       /\ shared[i] \notin copy[d]
       /\ \A j \in 1 .. i - 1 : shared[j] \in copy[d]
       /\ copy' = [copy EXCEPT ![d] = @ \cup {shared[i]}]
  /\ UNCHANGED <<wrote, shared, acked, place>>

\* d will not read again what it holds from the front on.
MovePlace(d) ==
  /\ \E c \in place[d] .. Len(shared) :
       /\ \A i \in 1 .. c : shared[i] \in copy[d]
       /\ place' = [place EXCEPT ![d] = c]
  /\ UNCHANGED <<wrote, shared, copy, acked>>

Next == \E d \in Device : \/ Write(d) \/ Share(d) \/ Acknowledge(d)
                          \/ Fetch(d) \/ MovePlace(d)

Spec == Init /\ [][Next]_vars

-----------------------------------------------------------------------------
\* The sequence has the writes of each device without gaps and in order.
Contiguous == \A i \in DOMAIN shared : \A m \in 1 .. shared[i][2] - 1 :
                \E j \in 1 .. i - 1 : shared[j] = <<shared[i][1], m>>

\* Whoever holds a write holds the earlier writes of the same device.
InOrder == \A d \in Device : \A id \in copy[d] : \A m \in 1 .. id[2] - 1 :
             <<id[1], m>> \in copy[d]

=============================================================================
