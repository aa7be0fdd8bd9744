----------------------------- MODULE SyncForge ------------------------------
(***************************************************************************)
(* The synchronization core: the clients of pkg/client (applyLocalWrite    *)
(* and Sync), the server's push and pull handlers (internal/server) and    *)
(* the SQLite store on both sides (internal/storage/sqlite).               *)
(*                                                                         *)
(* One action is one call that reads or writes a database, with the memory *)
(* operations around it: the code opens a transaction for each such call   *)
(* and for nothing larger, so two handlers, or two goroutines of a client, *)
(* interleave between any two of these calls, and a process may stop there.*)
(*                                                                         *)
(* The model leaves out registration and tokens, the wire encoding, the    *)
(* payloads, and the `collection' filter of a pull, which Sync never sends.*)
(***************************************************************************)
EXTENDS Conflict, Sequences

CONSTANTS
  Time,          \* what the wall clock of each device may read, at any moment
  Kinds,         \* the local mutations tried: a subset of {"put", "delete"}
  Quota,         \* bound: how many writes each device makes
  MaxAttempts,   \* RetryPolicy.MaxAttempts; handlers of a device at one time
  PageSize,      \* pullPageSize
  FaultKinds,    \* which faults may happen, see MayFault
  MaxFaults,     \* bound: how many do
  SerialPush,    \* TRUE: the server has one op at a time in hand
  SharedClient   \* TRUE: the application writes while a Sync is running

ASSUME TimeAssumption     == Time \in [Device -> SUBSET Nat]
ASSUME KindsAssumption    == Kinds \subseteq {"put", "delete"}
ASSUME QuotaAssumption    == Quota \in [Device -> Nat]
ASSUME AttemptsAssumption == MaxAttempts \in Nat \ {0}
ASSUME PageAssumption     == PageSize \in Nat \ {0}
ASSUME FaultsAssumption   == MaxFaults \in Nat
ASSUME RegimeAssumption   == SerialPush \in BOOLEAN /\ SharedClient \in BOOLEAN

VARIABLES
  \* the server's database
  serverLog,     \* the oplog; an op's server_seq is its position
  serverRec,     \* the materialized records
  serverAudit,   \* the conflict rows
  handler,       \* handler[d][k]: the handlePush that serves d's k-th attempt
  \* a client's database
  log,           \* the oplog, as a set
  rec,           \* the materialized records
  audit,         \* the conflict rows
  pushed,        \* ids of the ops marked as pushed
  checkpoint,    \* last_checkpoint
  written,       \* how many ops the device has appended
  \* a client's memory
  clock,         \* Client.clock's last timestamp
  sync,          \* the Sync in progress
  write,         \* the Put or Delete in progress
  \* the environment
  faults         \* how many faults have happened

serverVars == <<serverLog, serverRec, serverAudit>>
storeVars  == <<log, rec, audit, pushed, checkpoint, written>>
vars == <<serverVars, handler, storeVars, clock, sync, write, faults>>

Attempt == 1 .. MaxAttempts

AuditRow == [record : RecordId, winner : OpId, loser : OpId]
\* A row with its two sides swapped.
RowSwapped(op, decision) ==
  [record |-> op.record, winner |-> decision.loser, loser |-> decision.winner]
Row(op, decision) ==
  [record |-> op.record, winner |-> decision.winner, loser |-> decision.loser]

Handler == [pc : {"free", "append", "load", "save", "audit", "failed"},
            batch : SUBSET Op, todo : SUBSET Op, snap : Record]
FreeHandler == [pc |-> "free", batch |-> {}, todo |-> {}, snap |-> NoRecord]

Sync == [pc : {"idle", "pushing", "pull", "append", "load", "save", "audit",
               "checkpoint"},
         attempt : Attempt, at : Nat, upto : Nat, more : BOOLEAN, snap : Record]
NoSync == [pc |-> "idle", attempt |-> 1, at |-> 0, upto |-> 0, more |-> FALSE,
           snap |-> NoRecord]

WriteInProgress == [pc : {"append", "save"}, record : RecordId, kind : Kinds,
                    snap : Record]
NoWrite == [pc |-> "idle"]

Init ==
  /\ serverLog   = <<>>
  /\ serverRec   = [r \in RecordId |-> NoRecord]
  /\ serverAudit = {}
  /\ handler     = [d \in Device |-> [k \in Attempt |-> FreeHandler]]
  /\ log         = [d \in Device |-> {}]
  /\ rec         = [d \in Device |-> [r \in RecordId |-> NoRecord]]
  /\ audit       = [d \in Device |-> {}]
  /\ pushed      = [d \in Device |-> {}]
  /\ checkpoint  = [d \in Device |-> 0]
  /\ written     = [d \in Device |-> 0]
  /\ clock       = [d \in Device |-> ZeroStamp]
  /\ sync        = [d \in Device |-> NoSync]
  /\ write       = [d \in Device |-> NoWrite]
  /\ faults      = 0

(***************************************************************************)
(* Faults.  Every fault is one of these kinds and counts against MaxFaults:*)
(*   "timeout"   the client gives up on a push attempt (response lost, HTTP*)
(*               timeout, connection reset); its handler may go on         *)
(*   "error"     the server fails a push between two ops                   *)
(*   "abort"     the server stops working on an op it has begun to store   *)
(*   "pullfail"  a pull request fails for good                             *)
(*   "fail"      a local database call of a client returns an error        *)
(*   "restart"   a client closes and opens again, with nothing in progress *)
(*   "crash"     a client process dies in the middle of a Sync or a write  *)
(***************************************************************************)
MayFault(kind) == kind \in FaultKinds /\ faults < MaxFaults
Fault(kind) == MayFault(kind) /\ faults' = faults + 1

-----------------------------------------------------------------------------
(***************************************************************************)
(* A local write: applyLocalWrite.                                         *)
(***************************************************************************)

\* Without SharedClient the application calls the client one call at a time.
FreeToWrite(d) == write[d].pc = "idle" /\ (sync[d].pc = "idle" \/ SharedClient)
FreeToSync(d)  == sync[d].pc = "idle" /\ (write[d].pc = "idle" \/ SharedClient)

\* The type of the new op depends on the record that GetRecord returned.
OpTypeOf(kind, existing) ==
  CASE kind = "delete" -> "delete"
    [] kind # "delete" /\ (~existing.found \/ existing.deleted) -> "create"
    [] kind # "delete" /\ existing.found /\ ~existing.deleted -> "update"

WriteVector(existing, d) == Increment(existing.vv, d)

NewOp(d, stamp) ==
  [id     |-> <<d, written[d] + 1>>,
   device |-> d,
   record |-> write[d].record,
   type   |-> OpTypeOf(write[d].kind, write[d].snap),
   vv     |-> WriteVector(write[d].snap, d),
   hlc    |-> stamp]

\* GetRecord.
WriteBegin(d) ==
  /\ FreeToWrite(d)
  /\ written[d] < Quota[d]
  /\ \E r \in RecordId, kind \in Kinds :
       write' = [write EXCEPT ![d] = [pc |-> "append", record |-> r,
                                      kind |-> kind, snap |-> rec[d][r]]]
  /\ UNCHANGED <<serverVars, handler, storeVars, clock, sync, faults>>

\* clock.Now and AppendOp.
WriteAppend(d) ==
  /\ write[d].pc = "append"
  /\ \E phys \in Time[d] :
       LET stamp == Now(clock[d], phys, d) IN
       /\ clock' = [clock EXCEPT ![d] = stamp]
       /\ log'   = [log EXCEPT ![d] = @ \cup {NewOp(d, stamp)}]
  /\ written' = [written EXCEPT ![d] = @ + 1]
  /\ write'   = [write EXCEPT ![d].pc = "save"]
  /\ UNCHANGED <<serverVars, handler, rec, audit, pushed, checkpoint, sync, faults>>

\* Resolve and PutRecord.
WriteSave(d) ==
  /\ write[d].pc = "save"
  /\ \E op \in log[d] :
       /\ op.id = <<d, written[d]>>
       /\ rec' = [rec EXCEPT ![d][op.record] = Resolve(write[d].snap, op).record]
  /\ write' = [write EXCEPT ![d] = NoWrite]
  /\ UNCHANGED <<serverVars, handler, log, audit, pushed, checkpoint, written,
                 clock, sync, faults>>

\* One of the three database calls fails, and Put or Delete returns the error;
\* clock.Now may have been called by then.
WriteFails(d) ==
  /\ write[d].pc # "idle"
  /\ Fault("fail")
  /\ write' = [write EXCEPT ![d] = NoWrite]
  /\ \/ UNCHANGED clock
     \/ /\ write[d].pc = "append"
        /\ \E phys \in Time[d] :
             clock' = [clock EXCEPT ![d] = Now(@, phys, d)]
  /\ UNCHANGED <<serverVars, handler, storeVars, sync>>

-----------------------------------------------------------------------------
(***************************************************************************)
(* The push of a Sync, on the client's side.                               *)
(***************************************************************************)

\* UnpushedOps; the rows are read back in the order of their insertion, which
\* for a device's own ops is the order of their numbers (IsNext below).
Outbox(d) == {op \in log[d] : op.device = d /\ op.id \notin pushed[d]}

Ids(ops) == {op.id : op \in ops}

\* The handler that the client waits for; every other one works for nobody.
Awaited(d, k) == sync[d].pc = "pushing" /\ sync[d].attempt = k

Started(batch) == [pc |-> "append", batch |-> batch, todo |-> batch,
                   snap |-> NoRecord]

SyncBegin(d) ==
  /\ FreeToSync(d)
  /\ \/ /\ Outbox(d) = {}
        /\ sync' = [sync EXCEPT ![d] = [NoSync EXCEPT !.pc = "pull"]]
        /\ UNCHANGED handler
     \/ /\ Outbox(d) # {}
        /\ handler[d][1].pc = "free"
        /\ handler' = [handler EXCEPT ![d][1] = Started(Outbox(d))]
        /\ sync' = [sync EXCEPT ![d] = [NoSync EXCEPT !.pc = "pushing"]]
  /\ UNCHANGED <<serverVars, storeVars, clock, write, faults>>

\* Ready to answer before the last op is stored.
AnsweredEarly(d, k) == handler[d][k].pc = "append"
\* The loop over the request's ops is over: the 200 response lists them all.
Answered(d, k) == handler[d][k].pc = "append" /\ handler[d][k].todo = {}

\* PushResponse.Accepted: the ops that were already stored count as well.
Accepted(d, k) == Ids(handler[d][k].batch)

\* The response arrives; MarkPushed.
PushReply(d) ==
  /\ sync[d].pc = "pushing"
  /\ LET k == sync[d].attempt IN
     /\ Answered(d, k)
     /\ pushed'  = [pushed EXCEPT ![d] = @ \cup Accepted(d, k)]
     /\ handler' = [handler EXCEPT ![d][k] = FreeHandler]
  /\ sync' = [sync EXCEPT ![d] = [NoSync EXCEPT !.pc = "pull"]]
  /\ UNCHANGED <<serverVars, log, rec, audit, checkpoint, written, clock, write,
                 faults>>

\* The response arrives and MarkPushed fails: Sync returns the error.
PushReplyLost(d) ==
  /\ sync[d].pc = "pushing"
  /\ Answered(d, sync[d].attempt)
  /\ Fault("fail")
  /\ handler' = [handler EXCEPT ![d][sync[d].attempt] = FreeHandler]
  /\ sync' = [sync EXCEPT ![d] = NoSync]
  /\ UNCHANGED <<serverVars, storeVars, clock, write>>

\* doJSON sends the same body again.
Resend(d, left) ==
  LET k == sync[d].attempt IN
  /\ k < MaxAttempts
  /\ handler[d][k + 1].pc = "free"
  /\ handler' = [handler EXCEPT ![d][k] = left,
                                ![d][k + 1] = Started(handler[d][k].batch)]
  /\ sync' = [sync EXCEPT ![d].attempt = k + 1]

\* doJSON returns the error of its last attempt, and Sync returns it.
GiveUp(d, left) ==
  /\ handler' = [handler EXCEPT ![d][sync[d].attempt] = left]
  /\ sync' = [sync EXCEPT ![d] = NoSync]

\* A 5xx response: the attempt is over on both sides.
PushFailed(d) ==
  /\ sync[d].pc = "pushing"
  /\ handler[d][sync[d].attempt].pc = "failed"
  /\ \/ Resend(d, FreeHandler)
     \/ sync[d].attempt = MaxAttempts /\ GiveUp(d, FreeHandler)
  /\ UNCHANGED <<serverVars, storeVars, clock, write, faults>>

\* A network error, or the HTTP client's timeout: the client tries again or,
\* with no attempt left or its context done, returns.  The handler, unless it
\* has answered, goes on with the request.
PushTimeout(d) ==
  /\ sync[d].pc = "pushing"
  /\ handler[d][sync[d].attempt].pc # "failed"
  /\ Fault("timeout")
  /\ LET h    == handler[d][sync[d].attempt]
         left == IF Answered(d, sync[d].attempt) THEN FreeHandler ELSE h
     IN Resend(d, left) \/ GiveUp(d, left)
  /\ UNCHANGED <<serverVars, storeVars, clock, write>>

-----------------------------------------------------------------------------
(***************************************************************************)
(* handlePush, on the server.  The ops of a request are taken in order;    *)
(* `todo' holds the ones whose turn is not over.                           *)
(***************************************************************************)

\* The newest op first.
IsNextNewest(op, todo) == op \in todo /\ \A o \in todo : o.id[2] <= op.id[2]
IsNext(op, todo) == op \in todo /\ \A o \in todo : o.id[2] >= op.id[2]

\* An AppendOp that does not look for the op's id.
StoredNever(op) == FALSE
Stored(op) == \E i \in DOMAIN serverLog : serverLog[i].id = op.id

InHand(h) == h.pc \in {"load", "save", "audit"}
MayTakeOp == SerialPush => \A d \in Device, k \in Attempt : ~InHand(handler[d][k])

\* AppendOp, one transaction.  An op that was stored before is skipped.
HandlerAppend(d, k) ==
  /\ handler[d][k].pc = "append"
  /\ MayTakeOp
  /\ \E op \in handler[d][k].todo :
       /\ IsNext(op, handler[d][k].todo)
       /\ \/ /\ Stored(op)
             /\ handler' = [handler EXCEPT ![d][k].todo = @ \ {op}]
             /\ UNCHANGED serverLog
          \/ /\ ~Stored(op)
             /\ handler' = [handler EXCEPT ![d][k].pc = "load"]
             /\ serverLog' = Append(serverLog, op)
  /\ UNCHANGED <<serverRec, serverAudit, storeVars, clock, sync, write, faults>>

\* GetRecord.
HandlerLoad(d, k) ==
  /\ handler[d][k].pc = "load"
  /\ \E op \in handler[d][k].todo :
       /\ IsNext(op, handler[d][k].todo)
       /\ handler' = [handler EXCEPT ![d][k].pc = "save",
                                     ![d][k].snap = serverRec[op.record]]
  /\ UNCHANGED <<serverVars, storeVars, clock, sync, write, faults>>

\* The op's turn is over.
NextOp(h, op) == [h EXCEPT !.pc = "append", !.todo = @ \ {op}, !.snap = NoRecord]

\* Resolve and PutRecord.
HandlerSave(d, k) ==
  /\ handler[d][k].pc = "save"
  /\ \E op \in handler[d][k].todo :
       LET decision == Resolve(handler[d][k].snap, op) IN
       /\ IsNext(op, handler[d][k].todo)
       /\ serverRec' = [serverRec EXCEPT ![op.record] = decision.record]
       /\ handler' = [handler EXCEPT ![d][k] =
                        IF decision.conflicted THEN [@ EXCEPT !.pc = "audit"]
                                               ELSE NextOp(@, op)]
  /\ UNCHANGED <<serverLog, serverAudit, storeVars, clock, sync, write, faults>>

\* RecordConflict.
HandlerAudit(d, k) ==
  /\ handler[d][k].pc = "audit"
  /\ \E op \in handler[d][k].todo :
       /\ IsNext(op, handler[d][k].todo)
       /\ serverAudit' = serverAudit \cup {Row(op, Resolve(handler[d][k].snap, op))}
       /\ handler' = [handler EXCEPT ![d][k] = NextOp(@, op)]
  /\ UNCHANGED <<serverLog, serverRec, storeVars, clock, sync, write, faults>>

\* A database call fails, or the process stops: 5xx, or no response at all.
HandlerFails(d, k) ==
  /\ handler[d][k].pc \notin {"free", "failed"}
  /\ Fault(IF InHand(handler[d][k]) THEN "abort" ELSE "error")
  /\ handler' = [handler EXCEPT ![d][k] =
       IF Awaited(d, k) THEN [FreeHandler EXCEPT !.pc = "failed", !.batch = handler[d][k].batch]
                        ELSE FreeHandler]
  /\ UNCHANGED <<serverVars, storeVars, clock, sync, write>>

\* A handler nobody waits for ends: it writes its response to a closed
\* connection, sees its request context cancelled before its next op, or
\* never had the request.
HandlerEnds(d, k) ==
  /\ handler[d][k].pc = "append"
  /\ ~Awaited(d, k)
  /\ handler' = [handler EXCEPT ![d][k] = FreeHandler]
  /\ UNCHANGED <<serverVars, storeVars, clock, sync, write, faults>>

-----------------------------------------------------------------------------
(***************************************************************************)
(* The pull of a Sync.  A page is the interval at .. upto of the server's  *)
(* log, which is only ever appended to.                                    *)
(***************************************************************************)

\* The response's last op, for the page after checkpoint c (OpsSince).
PageEnd(c) == IF Len(serverLog) > c + PageSize THEN c + PageSize ELSE Len(serverLog)
HasMore(c) == Len(serverLog) > c + PageSize

\* The Sync that has received the page after checkpoint c.
Page(c) ==
  [NoSync EXCEPT !.pc   = IF Len(serverLog) > c THEN "append" ELSE "checkpoint",
                 !.at   = c + 1,
                 !.upto = PageEnd(c),
                 !.more = HasMore(c)]

\* handlePull reads the page, and the response arrives.
PullPage(d) ==
  /\ sync[d].pc = "pull"
  /\ sync' = [sync EXCEPT ![d] = Page(checkpoint[d])]
  /\ UNCHANGED <<serverVars, handler, storeVars, clock, write, faults>>

\* The next op of the page, or the end of the page.
Advance(s) == [s EXCEPT !.pc = IF s.at < s.upto THEN "append" ELSE "checkpoint",
                        !.at = s.at + 1, !.snap = NoRecord]

\* clock.Observe and AppendOp; an op that the device holds already is skipped.
PullAppend(d) ==
  /\ sync[d].pc = "append"
  /\ LET op == serverLog[sync[d].at] IN
     /\ \E phys \in Time[d] :
          clock' = [clock EXCEPT ![d] = Observe(@, phys, op.hlc, d)]
     /\ \/ /\ op.id \in Ids(log[d])
           /\ sync' = [sync EXCEPT ![d] = Advance(@)]
           /\ UNCHANGED log
        \/ /\ op.id \notin Ids(log[d])
           /\ sync' = [sync EXCEPT ![d].pc = "load"]
           /\ log' = [log EXCEPT ![d] = @ \cup {op}]
  /\ UNCHANGED <<serverVars, handler, rec, audit, pushed, checkpoint, written,
                 write, faults>>

\* GetRecord.
PullLoad(d) ==
  /\ sync[d].pc = "load"
  /\ sync' = [sync EXCEPT ![d].pc = "save",
                          ![d].snap = rec[d][serverLog[sync[d].at].record]]
  /\ UNCHANGED <<serverVars, handler, storeVars, clock, write, faults>>

\* Resolve and PutRecord.
PullSave(d) ==
  /\ sync[d].pc = "save"
  /\ LET op       == serverLog[sync[d].at]
         decision == Resolve(sync[d].snap, op)
     IN /\ rec' = [rec EXCEPT ![d][op.record] = decision.record]
        /\ sync' = [sync EXCEPT ![d] =
                      IF decision.conflicted THEN [@ EXCEPT !.pc = "audit"]
                                             ELSE Advance(@)]
  /\ UNCHANGED <<serverVars, handler, log, audit, pushed, checkpoint, written,
                 clock, write, faults>>

\* RecordConflict.
PullAudit(d) ==
  /\ sync[d].pc = "audit"
  /\ LET op == serverLog[sync[d].at] IN
     audit' = [audit EXCEPT ![d] = @ \cup {Row(op, Resolve(sync[d].snap, op))}]
  /\ sync' = [sync EXCEPT ![d] = Advance(@)]
  /\ UNCHANGED <<serverVars, handler, log, rec, pushed, checkpoint, written,
                 clock, write, faults>>

\* A checkpoint that assumes that every page is full.
NextCheckpointFullPage(d) == checkpoint[d] + PageSize
\* A checkpoint taken from the server's counter instead of the page.
NextCheckpointOfServer(d) == Len(serverLog)
NextCheckpoint(d) == sync[d].upto

\* setCheckpoint, at the end of a page.
PullCheckpoint(d) ==
  /\ sync[d].pc = "checkpoint"
  /\ checkpoint' = [checkpoint EXCEPT ![d] = NextCheckpoint(d)]
  /\ sync' = [sync EXCEPT ![d] =
                IF sync[d].more THEN [NoSync EXCEPT !.pc = "pull"] ELSE NoSync]
  /\ UNCHANGED <<serverVars, handler, log, rec, audit, pushed, written, clock,
                 write, faults>>

\* The request fails for good, or a database call does: Sync returns the
\* error.  A failed AppendOp comes after the op was observed.
PullFails(d) ==
  /\ sync[d].pc \notin {"idle", "pushing"}
  /\ Fault(IF sync[d].pc = "pull" THEN "pullfail" ELSE "fail")
  /\ \/ UNCHANGED clock
     \/ /\ sync[d].pc = "append"
        /\ \E phys \in Time[d] : clock' =
             [clock EXCEPT ![d] = Observe(@, phys, serverLog[sync[d].at].hlc, d)]
  /\ sync' = [sync EXCEPT ![d] = NoSync]
  /\ UNCHANGED <<serverVars, handler, storeVars, write>>

-----------------------------------------------------------------------------
\* The client process ends, and Open starts a new one on the same database.
\* NewClock starts at the zero timestamp; a running push goes on by itself.
Stop(d) ==
  /\ Fault(IF sync[d].pc = "idle" /\ write[d].pc = "idle" THEN "restart"
                                                          ELSE "crash")
  /\ clock' = [clock EXCEPT ![d] = ZeroStamp]
  /\ sync'  = [sync EXCEPT ![d] = NoSync]
  /\ write' = [write EXCEPT ![d] = NoWrite]
  /\ handler' = [handler EXCEPT ![d] = [k \in Attempt |->
       IF handler[d][k].pc = "failed" THEN FreeHandler ELSE handler[d][k]]]
  /\ UNCHANGED <<serverVars, storeVars>>

SyncStep(d) == \/ SyncBegin(d) \/ PushReply(d) \/ PushFailed(d)
               \/ PullPage(d) \/ PullAppend(d) \/ PullLoad(d) \/ PullSave(d)
               \/ PullAudit(d) \/ PullCheckpoint(d)
WriteStep(d) == WriteAppend(d) \/ WriteSave(d)
HandlerStep(d, k) == \/ HandlerAppend(d, k) \/ HandlerLoad(d, k)
                     \/ HandlerSave(d, k) \/ HandlerAudit(d, k)
                     \/ HandlerEnds(d, k)
FaultStep(d) == \/ WriteFails(d) \/ PushReplyLost(d) \/ PushTimeout(d)
                \/ PullFails(d) \/ Stop(d)
                \/ \E k \in Attempt : HandlerFails(d, k)

Next == \E d \in Device : \/ WriteBegin(d) \/ WriteStep(d) \/ SyncStep(d)
                          \/ \E k \in Attempt : HandlerStep(d, k)
                          \/ FaultStep(d)

Spec == Init /\ [][Next]_vars

\* Goroutines are scheduled, and the application calls Sync again and again.
\* Nothing is assumed of writes and of faults.
Fairness == \A d \in Device : /\ WF_vars(SyncStep(d))
                              /\ WF_vars(WriteStep(d))
                              /\ \A k \in Attempt : WF_vars(HandlerStep(d, k))

FairSpec == Spec /\ Fairness

=============================================================================
