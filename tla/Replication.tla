---------------------------- MODULE Replication -----------------------------
(***************************************************************************)
(* What the synchronization core is for: the properties of SyncForge.      *)
(***************************************************************************)
EXTENDS SyncForge

\* The shape of every variable; the checkpoint of a device never lies beyond
\* the server's log (server_counter and last_checkpoint count the same thing).
TypeOK ==
  /\ serverLog \in Seq(Op)
  /\ serverRec \in [RecordId -> Record]
  /\ serverAudit \subseteq AuditRow
  /\ handler \in [Device -> [Attempt -> Handler]]
  /\ log \in [Device -> SUBSET Op]
  /\ rec \in [Device -> [RecordId -> Record]]
  /\ audit \in [Device -> SUBSET AuditRow]
  /\ pushed \in [Device -> SUBSET OpId]
  /\ checkpoint \in [Device -> Nat]
  /\ written \in [Device -> Nat]
  /\ clock \in [Device -> Timestamp]
  /\ sync \in [Device -> Sync]
  /\ write \in [Device -> {NoWrite} \cup WriteInProgress]
  /\ faults \in 0 .. MaxFaults
  /\ \A d \in Device : /\ checkpoint[d] <= Len(serverLog)
                       /\ sync[d].upto <= Len(serverLog)

-----------------------------------------------------------------------------
(***************************************************************************)
(* The logs: what a push and a pull promise, whatever fails.               *)
(***************************************************************************)

ServerOps == {serverLog[i] : i \in DOMAIN serverLog}

\* An op that a device has marked as pushed, and so will never push again, is
\* in the server's log: an acknowledgement is never ahead of the store
\* (handlePush, MarkPushed; "accepted" of PushResponse).
AckedDurable == \A d \in Device : pushed[d] \subseteq Ids(ServerOps)

\* Retries, late handlers and overlapping attempts never log an op twice
\* (AppendOp is idempotent on the op id).
ExactlyOnce == \A i, j \in DOMAIN serverLog :
                 serverLog[i].id = serverLog[j].id => i = j

\* Everything at or before a device's checkpoint is in the device's own log:
\* no pull will return it again, so nothing may have been skipped (OpsSince,
\* the pull loop, setCheckpoint).
CheckpointCovers == \A d \in Device : \A i \in 1 .. checkpoint[d] :
                      serverLog[i] \in log[d]

\* The server logs the ops of one device without gaps and in the order the
\* device wrote them, even when several attempts run at the same time.
SessionOrder ==
  \A i \in DOMAIN serverLog :
    \A m \in 1 .. serverLog[i].id[2] - 1 :
      \E j \in 1 .. i - 1 : serverLog[j].id = <<serverLog[i].device, m>>

\* The server's log is a causal order: an op that knows of c writes of a
\* device to a record comes after the first, second, ..., c-th of them.
CausalLog ==
  \A i \in DOMAIN serverLog : \A n \in Device : \A c \in 1 .. serverLog[i].vv[n] :
    \E j \in 1 .. i : /\ serverLog[j].device = n
                      /\ serverLog[j].record = serverLog[i].record
                      /\ serverLog[j].vv[n] = c

\* The same of every device's log, at any moment: whoever holds a write of a
\* device, even halfway through a pull, holds the earlier ones.
CopiesInOrder ==
  \A d \in Device : \A op \in log[d] : \A m \in 1 .. op.id[2] - 1 :
    <<op.device, m>> \in Ids(log[d])

\* The logs implement one sequence that all devices write to and read from the
\* front (SharedLog), whatever is retried, answered late, lost or interrupted.
Logs == INSTANCE SharedLog WITH
          wrote  <- written,
          shared <- [i \in DOMAIN serverLog |-> serverLog[i].id],
          copy   <- [d \in Device |-> Ids(log[d])],
          acked  <- pushed,
          place  <- checkpoint

ImplementsSharedLog == Logs!Spec

-----------------------------------------------------------------------------
(***************************************************************************)
(* The records: what the resolution engine promises.                       *)
(***************************************************************************)

OpsOn(ops, r) == {op \in ops : op.record = r}
AllOps == UNION {log[d] : d \in Device}

Knows(v, w) == Compare(v, w) \in {"Equal", "Descendant"}

\* Record value x is the greatest op of the set by HLC, with a vector that
\* is the join of all their vectors.
Resolved(x, ops) ==
  \/ ops = {} /\ x = NoRecord
  \/ \E top \in ops :
       /\ \A op \in ops : op = top \/ After(top.hlc, op.hlc)
       /\ [x EXCEPT !.vv = ZeroVector] = [FromOp(top) EXCEPT !.vv = ZeroVector]
       /\ \A op \in ops : Knows(x.vv, op.vv)
       /\ \A n \in Device : \E op \in ops : x.vv[n] = op.vv[n]

\* No op of the device is between AppendOp and PutRecord.
SettledDevice(d) == write[d].pc # "save" /\ sync[d].pc \notin {"load", "save"}
SettledServer == \A d \in Device, k \in Attempt :
                   handler[d][k].pc \notin {"load", "save"}

\* On every device, whenever no op is half applied, each record is the
\* greatest op, by HLC, of those the device holds: the same function of the
\* same set of ops everywhere, whatever order they came in (Resolve).
DeviceRecords == \A d \in Device : SettledDevice(d) =>
                   \A r \in RecordId : Resolved(rec[d][r], OpsOn(log[d], r))

\* The same of the server's own replica.
ServerRecords == SettledServer =>
                   \A r \in RecordId : Resolved(serverRec[r], OpsOn(ServerOps, r))

\* A replica's record only advances: no write to the records table loses
\* knowledge or replaces a winner by a lesser one (PutRecord).
Advances(x, y) == Knows(y.vv, x.vv) /\ ~After(x.hlc, y.hlc)

RecordsNeverGoBack ==
  [][\A r \in RecordId : /\ Advances(serverRec[r], serverRec'[r])
                         /\ \A d \in Device : Advances(rec[d][r], rec'[d][r])]_vars

\* A counter of a version vector names one write: no two ops of a device on a
\* record carry the same own counter (applyLocalWrite, Increment).
CounterNamesWrite ==
  \A a, b \in AllOps :
    a.device = b.device /\ a.record = b.record /\ a.vv[a.device] = b.vv[b.device]
      => a = b

\* An op whose vector counts another op was written knowing it, and has the
\* greater timestamp: the counter of a device names one of its writes, and the
\* fast-forward rule and the greatest-HLC rule never disagree (Increment on the
\* record as last saved, Clock.Observe on every pulled op, Clock.Now).
StampsFollowKnowledge ==
  \A a, b \in AllOps :
    a.record = b.record /\ a.vv[b.device] >= b.vv[b.device]
      => a = b \/ After(a.hlc, b.hlc)

\* No write is lost without trace: an op that is neither the record's winner
\* nor in the winner's past is in the past of an op with a conflict row.
Traced(x, ops, rows) ==
  \A op \in ops :
    \/ op.id = x.win
    \/ \E w \in ops : w.id = x.win /\ Knows(w.vv, op.vv)
    \/ \E l \in ops : Knows(l.vv, op.vv) /\ \E row \in rows : row.loser = l.id

LosersAudited ==
  \A d \in Device : SettledDevice(d) /\ sync[d].pc # "audit" =>
    \A r \in RecordId : Traced(rec[d][r], OpsOn(log[d], r), audit[d])

\* The same of the server's conflict rows.
ServerLosersAudited ==
  SettledServer /\ (\A d \in Device, k \in Attempt : handler[d][k].pc # "audit") =>
    \A r \in RecordId : Traced(serverRec[r], OpsOn(ServerOps, r), serverAudit)

-----------------------------------------------------------------------------
(***************************************************************************)
(* Progress.                                                               *)
(***************************************************************************)

Delivered == \A d \in Device : log[d] = AllOps /\ ServerOps = AllOps

\* Once the writes and the faults are over, every op reaches the server and
\* every device, and stays there (Sync, called again and again).
EveryOpDelivered == <>[]Delivered

-----------------------------------------------------------------------------
(***************************************************************************)
(* What the documentation says and the code does not do in every case: the *)
(* configurations that check these formulas produce counterexamples.       *)
(***************************************************************************)

NothingInProgress ==
  \A d \in Device : /\ write[d].pc = "idle" /\ sync[d].pc = "idle"
                    /\ \A k \in Attempt : handler[d][k].pc = "free"

Value(x) == <<x.found, x.win, x.deleted>>

\* "Every device and the server converge on the identical value, regardless
\* of sync order" (README): with every op delivered everywhere and nothing in
\* progress, all replicas show the same value.
ReplicasConverge ==
  NothingInProgress /\ Delivered =>
    \A d \in Device, r \in RecordId : Value(rec[d][r]) = Value(serverRec[r])

\* The same of the devices alone.
ClientsConverge ==
  NothingInProgress /\ Delivered =>
    \A d, e \in Device, r \in RecordId : Value(rec[d][r]) = Value(rec[e][r])

\* "Accepts a batch of ops, applies each through the conflict resolver [...]
\* client-side retries [are] safe" (handlePush): an op that was acknowledged
\* has been applied to the server's record.
AckedApplied ==
  NothingInProgress =>
    \A d \in Device : \A op \in log[d] :
      op.id \in pushed[d] => Knows(serverRec[op.record].vv, op.vv)

\* "Already applied" (the comment where pull skips an op): an op of another
\* device that is in the log when its page comes again is in the record.
SkipsOnlyApplied ==
  \A d \in Device :
    sync[d].pc = "append" =>
      LET op == serverLog[sync[d].at] IN
      op.device # d /\ op \in log[d] => Knows(rec[d][op.record].vv, op.vv)

=============================================================================
