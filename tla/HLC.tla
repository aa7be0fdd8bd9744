-------------------------------- MODULE HLC ---------------------------------
(***************************************************************************)
(* Hybrid logical clock timestamps (internal/hlc): the order on them and   *)
(* the two update rules of a Clock, as operators on the clock's last       *)
(* timestamp.  Clock.Now and Clock.Observe hold the clock's mutex for      *)
(* their whole body, so each is one step of whoever calls it.              *)
(***************************************************************************)
EXTENDS Naturals

CONSTANT LogicalMod    \* Timestamp.Logical is a uint32: 2^32 in the code

ASSUME LogicalModAssumption == LogicalMod \in Nat \ {0}

Timestamp == [physical : Nat, logical : Nat, node : Nat]

\* The zero Timestamp: a Clock that has not ticked since NewClock.
ZeroStamp == [physical |-> 0, logical |-> 0, node |-> 0]

Larger(a, b) == IF a >= b THEN a ELSE b

\* The lexicographic order without its tie-breakers.
AfterIgnoringLogical(t, u) == t.physical > u.physical

After(t, u) ==
  \/ t.physical > u.physical
  \/ /\ t.physical = u.physical
     /\ \/ t.logical > u.logical
        \/ t.logical = u.logical /\ t.node > u.node

\* uint32 addition of one.
Succ32(l) == (l + 1) % LogicalMod

\* A Now that trusts the wall clock.
NowFollowingWall(last, phys, node) ==
  [physical |-> phys,
   logical  |-> IF phys = last.physical THEN Succ32(last.logical) ELSE 0,
   node     |-> node]

Now(last, phys, node) ==
  [physical |-> Larger(phys, last.physical),
   logical  |-> IF phys <= last.physical THEN Succ32(last.logical) ELSE 0,
   node     |-> node]

\* An Observe that forgets the remote counter when the remote time is newest.
ObserveRestartingLogical(last, phys, remote, node) ==
  [physical |-> Larger(phys, Larger(last.physical, remote.physical)),
   logical  |-> IF Larger(phys, remote.physical) <= last.physical
                  THEN Succ32(last.logical) ELSE 0,
   node     |-> node]

Observe(last, phys, remote, node) ==
  LET newPhys == Larger(phys, Larger(last.physical, remote.physical)) IN
  [physical |-> newPhys,
   logical  |->
     CASE newPhys = last.physical /\ newPhys = remote.physical ->
            Succ32(Larger(last.logical, remote.logical))
       [] newPhys = last.physical /\ newPhys # remote.physical ->
            Succ32(last.logical)
       [] newPhys # last.physical /\ newPhys = remote.physical ->
            Succ32(remote.logical)
       [] newPhys # last.physical /\ newPhys # remote.physical -> 0,
   node |-> node]

=============================================================================
