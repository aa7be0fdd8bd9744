------------------------------ MODULE Conflict ------------------------------
(***************************************************************************)
(* Ops, materialized records and the resolution engine that the server and *)
(* every client share (internal/oplog, internal/record, internal/conflict).*)
(*                                                                         *)
(* A payload is never looked at: it is identified with the op that wrote   *)
(* it, so `win' (WinningOpID) stands for the payload too.                  *)
(***************************************************************************)
EXTENDS Vector, HLC

CONSTANT RecordId    \* (collection, record id) pairs

\* A client-generated uuid: the device that draws it and a fresh number.
OpId == Nat \X Nat
NoOp == <<0, 0>>     \* the empty op id

OpType == {"create", "update", "delete"}

Op == [id : OpId, device : Device, record : RecordId, type : OpType,
       vv : VectorType, hlc : Timestamp]

\* `found' is GetRecord's second result; a missing record reads as the zero
\* Record, whose nil vector is the zero vector.
Record == [found : BOOLEAN, win : OpId, deleted : BOOLEAN,
           vv : VectorType, hlc : Timestamp]

NoRecord == [found |-> FALSE, win |-> NoOp, deleted |-> FALSE,
             vv |-> ZeroVector, hlc |-> ZeroStamp]

FromOp(op) == [found |-> TRUE, win |-> op.id, deleted |-> op.type = "delete",
               vv |-> op.vv, hlc |-> op.hlc]

Decision(record, conflicted, winner, loser) ==
  [record |-> record, conflicted |-> conflicted,
   winner |-> winner, loser |-> loser]

\* A Resolve that lets the op that arrives last win a conflict.
ResolveLastArrival(existing, op) ==
  LET merged == Merge(existing.vv, op.vv) IN
  IF existing.found /\ Compare(existing.vv, op.vv) \in {"Equal", "Descendant"}
    THEN Decision(existing, FALSE, existing.win, NoOp)
    ELSE Decision([FromOp(op) EXCEPT !.vv = merged],
                  existing.found /\ Compare(existing.vv, op.vv) = "Concurrent",
                  op.id, existing.win)

\* A Resolve that forgets to merge the vectors when the existing state wins.
ResolveWithoutMerge(existing, op) ==
  IF existing.found
     /\ \/ Compare(existing.vv, op.vv) \in {"Equal", "Descendant"}
        \/ /\ Compare(existing.vv, op.vv) = "Concurrent"
           /\ ~After(op.hlc, existing.hlc)
    THEN Decision(existing, FALSE, existing.win, NoOp)
    ELSE Decision(FromOp(op), FALSE, op.id, NoOp)

Resolve(existing, op) ==
  LET relation == Compare(existing.vv, op.vv)
      merged   == Merge(existing.vv, op.vv)
  IN CASE ~existing.found ->
            Decision(FromOp(op), FALSE, op.id, NoOp)
       [] existing.found /\ relation \in {"Equal", "Descendant"} ->
            Decision(existing, FALSE, existing.win, NoOp)
       [] existing.found /\ relation = "Ancestor" ->
            Decision(FromOp(op), FALSE, op.id, NoOp)
       [] existing.found /\ relation = "Concurrent" /\ After(op.hlc, existing.hlc) ->
            Decision([FromOp(op) EXCEPT !.vv = merged], TRUE, op.id, existing.win)
       [] existing.found /\ relation = "Concurrent" /\ ~After(op.hlc, existing.hlc) ->
            Decision([existing EXCEPT !.vv = merged], TRUE, existing.win, op.id)

=============================================================================
