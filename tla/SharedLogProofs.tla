-------------------------- MODULE SharedLogProofs ---------------------------
(***************************************************************************)
(* What follows from one shared sequence alone: every device holds the     *)
(* writes of every other in the order they were made.                      *)
(***************************************************************************)
EXTENDS SharedLog, TLAPS

Id == Device \X Nat

\* A device holds all of its own writes.
HoldsOwn == \A d \in Device : \A m \in 1 .. wrote[d] : <<d, m>> \in copy[d]

SharedInv ==
  /\ wrote \in [Device -> Nat] /\ shared \in Seq(Id) /\ copy \in [Device -> SUBSET Id]
  /\ Contiguous /\ HoldsOwn /\ InOrder

LEMMA SharedInit == Init => SharedInv
BY DEF Init, SharedInv, Contiguous, HoldsOwn, InOrder

\* One more write of the sequence, and one more in a copy, in their turn.
LEMMA ShareKeeps ==
  ASSUME SharedInv, NEW d \in Device, Share(d)
  PROVE  SharedInv'
<1>1. PICK n \in 1 .. wrote[d] :
        /\ \A m \in 1 .. n - 1 : <<d, m>> \in Shared
        /\ shared' = Append(shared, <<d, n>>)
  BY DEF Share
<1>2. /\ wrote \in [Device -> Nat] /\ shared \in Seq(Id) /\ copy \in [Device -> SUBSET Id]
      /\ Len(shared) \in Nat /\ DOMAIN shared = 1 .. Len(shared)
      /\ UNCHANGED <<wrote, copy>>
  BY DEF SharedInv, Share
<1>3. n \in Nat /\ <<d, n>> \in Id
  BY <1>2 DEF Id
<1>4. /\ shared' \in Seq(Id) /\ DOMAIN shared' = 1 .. Len(shared) + 1
      /\ \A i \in 1 .. Len(shared) : shared'[i] = shared[i]
      /\ shared'[Len(shared) + 1] = <<d, n>>
  BY <1>1, <1>2, <1>3
<1>5. ASSUME NEW i \in DOMAIN shared', NEW m \in 1 .. shared'[i][2] - 1
      PROVE  \E j \in 1 .. i - 1 : shared'[j] = <<shared'[i][1], m>>
  <2>1. CASE i \in 1 .. Len(shared)
    <3>1. PICK j \in 1 .. i - 1 : shared[j] = <<shared[i][1], m>>
      BY <1>2, <1>4, <1>5, <2>1 DEF SharedInv, Contiguous
    <3>2. shared'[j] = shared[j] /\ shared'[i] = shared[i]
      BY <1>2, <1>4, <2>1
    <3>. QED  BY <3>1, <3>2
  <2>2. CASE i = Len(shared) + 1
    <3>1. m \in 1 .. n - 1 /\ shared'[i][1] = d
      BY <1>4, <1>5, <2>2
    <3>2. PICK j \in 1 .. Len(shared) : shared[j] = <<d, m>>
      BY <1>1, <1>2, <3>1 DEF Shared
    <3>3. j \in 1 .. i - 1
      BY <1>2, <2>2, <3>2
    <3>. QED  BY <1>4, <3>1, <3>2, <3>3
  <2>. QED  BY <1>2, <1>4, <2>1, <2>2
<1>6. Contiguous'
  BY <1>5 DEF Contiguous
<1>. QED  BY <1>2, <1>4, <1>6 DEF SharedInv, HoldsOwn, InOrder

LEMMA CopyKeeps ==
  ASSUME SharedInv, NEW d \in Device, NEW id \in Id,
         copy' = [copy EXCEPT ![d] = @ \cup {id}],
         \A m \in 1 .. id[2] - 1 : <<id[1], m>> \in copy[d]
  PROVE  copy' \in [Device -> SUBSET Id] /\ InOrder'
<1>1. copy \in [Device -> SUBSET Id]
  BY DEF SharedInv
<1>2. copy' \in [Device -> SUBSET Id] /\ \A e \in Device : copy[e] \subseteq copy'[e]
  BY <1>1
<1>3. ASSUME NEW e \in Device, NEW x \in copy'[e], NEW m \in 1 .. x[2] - 1
      PROVE  <<x[1], m>> \in copy'[e]
  <2>1. CASE x \in copy[e]
    BY <1>2, <2>1 DEF SharedInv, InOrder
  <2>2. CASE x = id /\ e = d
    BY <1>2, <2>2
  <2>. QED  BY <1>1, <1>3, <2>1, <2>2
<1>. QED  BY <1>2, <1>3 DEF InOrder

LEMMA SharedStep == SharedInv /\ [Next]_vars => SharedInv'
<1> SUFFICES ASSUME SharedInv, [Next]_vars PROVE SharedInv'
  OBVIOUS
<1>1. wrote \in [Device -> Nat] /\ shared \in Seq(Id) /\ copy \in [Device -> SUBSET Id]
  BY DEF SharedInv
<1>2. CASE UNCHANGED <<wrote, shared, copy>>
  BY <1>2 DEF SharedInv, Contiguous, HoldsOwn, InOrder
<1>3. ASSUME NEW d \in Device, Write(d)
      PROVE  SharedInv'
  <2>1. wrote' = [wrote EXCEPT ![d] = @ + 1] /\ shared' = shared
    BY <1>3 DEF Write
  <2> DEFINE id == <<d, wrote[d] + 1>>
  <2>2. id \in Id /\ id[1] = d /\ id[2] = wrote[d] + 1 /\ wrote[d] \in Nat
    BY <1>1 DEF Id
  <2>3. copy' = [copy EXCEPT ![d] = @ \cup {id}]
    BY <1>3 DEF Write
  <2>4. \A m \in 1 .. id[2] - 1 : <<id[1], m>> \in copy[d]
    BY <2>2 DEF SharedInv, HoldsOwn
  <2> HIDE DEF id
  <2>5. copy' \in [Device -> SUBSET Id] /\ InOrder'
    BY <2>2, <2>3, <2>4, CopyKeeps
  <2>6. ASSUME NEW e \in Device, NEW m \in 1 .. wrote'[e]
        PROVE  <<e, m>> \in copy'[e]
    <3>1. CASE m \in 1 .. wrote[e]
      BY <1>1, <2>3, <3>1 DEF SharedInv, HoldsOwn
    <3>2. CASE m \notin 1 .. wrote[e]
      <4>1. e = d /\ m = wrote[d] + 1
        BY <1>1, <2>1, <2>2, <2>6, <3>2
      <4>. QED  BY <1>1, <2>3, <4>1 DEF id
    <3>. QED  BY <3>1, <3>2
  <2>7. wrote' \in [Device -> Nat]
    BY <1>1, <2>1, <2>2
  <2>8. shared' \in Seq(Id) /\ Contiguous'
    BY <1>1, <2>1 DEF SharedInv, Contiguous
  <2>. QED  BY <2>5, <2>6, <2>7, <2>8 DEF SharedInv, HoldsOwn
<1>4. ASSUME NEW d \in Device, Fetch(d)
      PROVE  SharedInv'
  <2>1. PICK i \in DOMAIN shared :
          /\ \A j \in 1 .. i - 1 : shared[j] \in copy[d]
          /\ copy' = [copy EXCEPT ![d] = @ \cup {shared[i]}]
    BY <1>4 DEF Fetch
  <2>2. shared[i] \in Id
    BY <1>1
  <2>3. \A m \in 1 .. shared[i][2] - 1 : <<shared[i][1], m>> \in copy[d]
    BY <2>1 DEF SharedInv, Contiguous
  <2>4. copy' \in [Device -> SUBSET Id] /\ InOrder'
    BY <2>1, <2>2, <2>3, CopyKeeps
  <2>5. UNCHANGED <<wrote, shared>> /\ \A e \in Device : copy[e] \subseteq copy'[e]
    BY <1>1, <1>4, <2>1 DEF Fetch
  <2>. QED  BY <2>4, <2>5 DEF SharedInv, Contiguous, HoldsOwn
<1>5. ASSUME NEW d \in Device, Acknowledge(d) \/ MovePlace(d)
      PROVE  SharedInv'
  BY <1>2, <1>5 DEF Acknowledge, MovePlace
<1>6. CASE UNCHANGED vars
  BY <1>2, <1>6 DEF vars
<1>. QED  BY <1>3, <1>4, <1>5, <1>6, ShareKeeps DEF Next

\* The sequence has the writes of each device in order.
THEOREM ContiguousAlways == Spec => []Contiguous
<1>1. SharedInv => Contiguous
  BY DEF SharedInv
<1>. QED  BY <1>1, SharedInit, SharedStep, PTL DEF Spec

\* Whoever reads one sequence from the front holds every device's writes in the
\* order they were made.
THEOREM InOrderAlways == Spec => []InOrder
<1>1. SharedInv => InOrder
  BY DEF SharedInv
<1>. QED  BY <1>1, SharedInit, SharedStep, PTL DEF Spec

=============================================================================
