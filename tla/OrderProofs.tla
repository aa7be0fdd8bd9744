---------------------------- MODULE OrderProofs -----------------------------
(***************************************************************************)
(* The order of the logs, for any devices, bounds and faults.  SyncForge   *)
(* implements SharedLog: what requests, handlers, retries and pages do to  *)
(* the logs is what writing to one sequence and reading it from the front  *)
(* does, and what SharedLog promises of the order of writes holds for      *)
(* SyncForge.  And the sequence is a causal order, shared clients included:*)
(* what an op knows of comes before it.                                    *)
(***************************************************************************)
EXTENDS LogProofs, SequenceTheorems

-----------------------------------------------------------------------------
(***************************************************************************)
(* Requests leave no gaps.                                                 *)
(***************************************************************************)

\* A device holds all of its own writes.
OwnComplete == \A d \in Device : \A m \in 1 .. written[d] : <<d, m>> \in Ids(log[d])

\* What precedes an op of a request is stored, or in the same request.
StoredId(id) == \E i \in DOMAIN serverLog : serverLog[i].id = id
RequestsClosed ==
  \A d \in Device, k \in Attempt : \A op \in handler[d][k].batch :
    \A m \in 1 .. op.id[2] - 1 :
      StoredId(<<d, m>>) \/ <<d, m>> \in Ids(handler[d][k].batch)

\* A page ends no earlier than it starts.
PagesAhead ==
  \A d \in Device : InPage(sync[d]) \/ sync[d].pc = "checkpoint" =>
    checkpoint[d] <= sync[d].upto

RefInv == LogInv /\ OwnComplete /\ RequestsClosed /\ PagesAhead

LEMMA RefInit == Init => RefInv
<1> SUFFICES ASSUME Init PROVE RefInv
  OBVIOUS
<1>1. OwnComplete /\ RequestsClosed
  BY DEF Init, OwnComplete, RequestsClosed, FreeHandler
<1>2. PagesAhead
  BY DEF Init, PagesAhead, NoSync, InPage
<1>. QED  BY <1>1, <1>2, LogInit DEF RefInv

\* A write takes the next number (applyLocalWrite).
LEMMA OwnStep ==
  ASSUME TypeInv, OwnComplete, [Next]_vars
  PROVE  OwnComplete'
<1>1. log \in [Device -> SUBSET Op] /\ written \in [Device -> Nat] /\ LogsGrow
  BY StepGrows DEF TypeInv, TypeOK
<1>2. \A d \in Device : Ids(log[d]) \subseteq Ids(log'[d])
  BY <1>1 DEF LogsGrow, Ids
<1>3. CASE written' = written
  BY <1>2, <1>3 DEF OwnComplete, Ids
<1>4. ASSUME NEW d \in Device, WriteAppend(d)
      PROVE  OwnComplete'
  <2>1. PICK phys \in Time[d] :
          log' = [log EXCEPT ![d] = @ \cup {NewOp(d, Now(clock[d], phys, d))}]
    BY <1>4 DEF WriteAppend
  <2>2. NewOp(d, Now(clock[d], phys, d)).id = <<d, written[d] + 1>>
    BY DEF NewOp
  <2>3. <<d, written[d] + 1>> \in Ids(log'[d])
    BY <1>1, <2>1, <2>2 DEF Ids
  <2>4. written' = [written EXCEPT ![d] = @ + 1]
    BY <1>4 DEF WriteAppend
  <2>5. ASSUME NEW e \in Device, NEW m \in 1 .. written'[e]
        PROVE  <<e, m>> \in Ids(log'[e])
    <3>1. CASE m \in 1 .. written[e]
      BY <1>2, <3>1 DEF OwnComplete
    <3>2. CASE m \notin 1 .. written[e]
      <4>1. e = d /\ m = written[d] + 1
        BY <1>1, <2>4, <2>5, <3>2
      <4>. QED  BY <2>3, <4>1
    <3>. QED  BY <3>1, <3>2
  <2>. QED  BY <2>5 DEF OwnComplete, Ids
<1>5. ASSUME NEW d \in Device, PullAppend(d)
      PROVE  OwnComplete'
  BY <1>3, <1>5 DEF PullAppend
<1>. QED  BY <1>3, <1>4, <1>5, LogSources

\* A request is the whole outbox, and what is not in the outbox is stored
\* (UnpushedOps, MarkPushed); a retry sends the same request.
LEMMA RequestsStep ==
  ASSUME TypeInv, OpsIdentified, AckedDurable, OwnComplete, RequestsClosed, [Next]_vars
  PROVE  RequestsClosed'
<1>1. \A id : StoredId(id) => StoredId(id)'
  BY StepGrows DEF LogsGrow, StoredId
<1> SUFFICES ASSUME NEW d \in Device, NEW k \in Attempt,
                    NEW op \in handler'[d][k].batch, NEW m \in 1 .. op.id[2] - 1
             PROVE  StoredId(<<d, m>>)' \/ <<d, m>> \in Ids(handler'[d][k].batch)
  BY DEF RequestsClosed, Ids
<1> DEFINE h == handler[d][k]
           g == handler'[d][k]
<1>2. HandlerChange(d, h, g)
  BY HandlerChanges
<1>3. ASSUME NEW i \in Attempt, g.batch = handler[d][i].batch
      PROVE  StoredId(<<d, m>>)' \/ <<d, m>> \in Ids(g.batch)
  BY <1>1, <1>3 DEF RequestsClosed
<1>4. CASE HandlerTurnsFree(g)
  BY <1>4 DEF HandlerTurnsFree, FreeHandler
<1>5. CASE g = Started(Outbox(d))
  <2>1. g.batch = Outbox(d)
    BY <1>5 DEF Started
  <2>2. op \in log[d] /\ op.device = d
    BY <2>1 DEF Outbox
  <2>3. op.id[2] \in 1 .. written[d] /\ written[d] \in Nat
    BY <2>2 DEF OpsIdentified, TypeInv, TypeOK
  <2>4. m \in 1 .. written[d]
    BY <2>3
  <2>5. PICK o \in log[d] : o.id = <<d, m>>
    BY <2>4 DEF OwnComplete, Ids
  <2>6. o.device = d
    BY <2>5 DEF OpsIdentified
  <2>7. CASE o.id \in pushed[d]
    <3>1. StoredId(o.id)
      BY <2>7 DEF AckedDurable, Ids, ServerOps, StoredId
    <3>. QED  BY <1>1, <2>5, <3>1
  <2>8. CASE o.id \notin pushed[d]
    BY <2>1, <2>5, <2>6, <2>8 DEF Outbox, Ids
  <2>. QED  BY <2>7, <2>8
<1>6. ASSUME NEW i \in Attempt, g = Started(handler[d][i].batch)
      PROVE  StoredId(<<d, m>>)' \/ <<d, m>> \in Ids(g.batch)
  BY <1>3, <1>6 DEF Started
<1>. QED  BY <1>2, <1>3, <1>4, <1>5, <1>6
          DEF HandlerChange, HandlerStays, HandlerStarts, HandlerReportsFailure,
              HandlerSkips, HandlerStores, HandlerGoesOn, HandlerFinishesOp

LEMMA PagesStep ==
  ASSUME TypeInv, PagesAhead, [Next]_vars
  PROVE  PagesAhead'
<1>1. /\ checkpoint \in [Device -> Nat] /\ sync \in [Device -> Sync]
      /\ serverLog \in Seq(Op) /\ Len(serverLog) \in Nat
      /\ \A d \in Device : checkpoint[d] <= Len(serverLog)
  BY DEF TypeInv, TypeOK
<1>2. ASSUME NEW e \in Device, checkpoint'[e] = checkpoint[e],
             InPage(sync'[e]) \/ sync'[e].pc = "checkpoint"
      PROVE  checkpoint'[e] <= sync'[e].upto
  <2> DEFINE s == sync[e]
             t == sync'[e]
  <2>1. SyncChange(e, s, t)
    BY SyncChanges
  <2>2. CASE SyncOutsidePage(t)
    BY <1>2, <2>2 DEF SyncOutsidePage
  <2>3. CASE SyncKeepsPlace(s, t)
    BY <1>2, <2>3 DEF SyncKeepsPlace, PagesAhead, InPage
  <2>4. CASE SyncOpensPage(e, t)
    <3>1. t.upto = PageEnd(checkpoint[e])
      BY <2>4 DEF SyncOpensPage, Page, NoSync
    <3>2. checkpoint[e] <= PageEnd(checkpoint[e])
      BY <1>1, PageAssumption DEF PageEnd
    <3>. QED  BY <1>2, <3>1, <3>2
  <2>5. CASE SyncTakes(e, s, t)
    BY <1>2, <2>5 DEF SyncTakes, PagesAhead
  <2>6. CASE SyncAdvances(e, s, t)
    <3>1. t.upto = s.upto
      BY <1>1, <2>6, AdvanceType DEF SyncAdvances
    <3>. QED  BY <1>2, <2>6, <3>1 DEF SyncAdvances, PagesAhead
  <2>. QED  BY <2>1, <2>2, <2>3, <2>4, <2>5, <2>6 DEF SyncChange
<1>3. ASSUME NEW e \in Device, checkpoint'[e] # checkpoint[e]
      PROVE  ~InPage(sync'[e]) /\ sync'[e].pc # "checkpoint"
  <2>1. PICK d \in Device : PullCheckpoint(d)
    BY <1>3, NotableSteps DEF WriteAppend, PushReply, PullAppend, HandlerAppend, storeVars
  <2>2. e = d
    BY <1>1, <1>3, <2>1 DEF PullCheckpoint
  <2>3. sync'[e] \in {[NoSync EXCEPT !.pc = "pull"], NoSync}
    BY <1>1, <2>1, <2>2 DEF PullCheckpoint
  <2>. QED  BY <2>3 DEF NoSync, InPage
<1>. QED  BY <1>2, <1>3 DEF PagesAhead, InPage

LEMMA RefStep == RefInv /\ [Next]_vars => RefInv'
<1> SUFFICES ASSUME RefInv, [Next]_vars PROVE RefInv'
  OBVIOUS
<1>1. LogInv' /\ TypeInv /\ OpsIdentified /\ AckedDurable
  BY LogStep DEF RefInv, LogInv
<1>. QED  BY <1>1, OwnStep, RequestsStep, PagesStep DEF RefInv

-----------------------------------------------------------------------------
(***************************************************************************)
(* The refinement: one step of SharedLog, or none, for every step.         *)
(***************************************************************************)

SharedIds == [i \in DOMAIN serverLog |-> serverLog[i].id]
Copies    == [d \in Device |-> Ids(log[d])]

\* Appending an op appends its id.
LEMMA IdsAppended ==
  ASSUME NEW s \in Seq(Op), NEW op \in Op
  PROVE  [i \in DOMAIN Append(s, op) |-> Append(s, op)[i].id]
           = Append([i \in DOMAIN s |-> s[i].id], op.id)
<1> DEFINE ids == [i \in DOMAIN s |-> s[i].id]
           n   == Len(s)
<1>0. \A o \in Op : o.id \in OpId
  BY DEF Op
<1>1. /\ n \in Nat /\ DOMAIN s = 1 .. n
      /\ \A i \in 1 .. n : s[i].id \in OpId
      /\ op.id \in OpId
  BY <1>0, ElementOfSeq, LenProperties
<1>2. ids \in [1 .. n -> OpId]
  BY <1>1
<1>3. ids \in Seq(OpId) /\ Len(ids) = n
  BY <1>1, <1>2, IsASeq, LenProperties
<1>4. /\ DOMAIN Append(s, op) = 1 .. n + 1
      /\ \A i \in 1 .. n : Append(s, op)[i] = s[i]
      /\ Append(s, op)[n + 1] = op
  BY <1>1, AppendProperties
<1>5. /\ Append(ids, op.id) \in Seq(OpId) /\ Len(Append(ids, op.id)) = n + 1
      /\ \A i \in 1 .. n : Append(ids, op.id)[i] = ids[i]
      /\ Append(ids, op.id)[n + 1] = op.id
  BY <1>1, <1>3, AppendProperties
<1>6. Append(ids, op.id) \in [1 .. n + 1 -> OpId]
  BY <1>5, LenProperties
<1> DEFINE both == [i \in DOMAIN Append(s, op) |-> Append(s, op)[i].id]
<1>7. both \in [1 .. n + 1 -> OpId]
  BY <1>1, <1>4
<1>8. \A i \in 1 .. n + 1 : both[i] = Append(ids, op.id)[i]
  BY <1>1, <1>4, <1>5
<1>. QED  BY <1>6, <1>7, <1>8

LEMMA SharedUnchanged ==
  ASSUME UNCHANGED <<serverLog, log, pushed, checkpoint, written>>
  PROVE  UNCHANGED Logs!vars
BY DEF Logs!vars, Ids

LEMMA SharedInitially == Init => Logs!Init
<1> SUFFICES ASSUME Init PROVE Logs!Init
  OBVIOUS
<1>1. SharedIds = <<>>
  BY DEF Init, SharedIds
<1>2. Copies = [d \in Device |-> {}]
  BY DEF Init, Copies, Ids
<1>. QED  BY <1>1, <1>2 DEF Init, Logs!Init, SharedIds, Copies

\* AppendOp of a local write.
LEMMA WriteShared ==
  ASSUME TypeInv, NEW d \in Device, WriteAppend(d)
  PROVE  Logs!Write(d)
<1>1. PICK phys \in Time[d] :
        log' = [log EXCEPT ![d] = @ \cup {NewOp(d, Now(clock[d], phys, d))}]
  BY DEF WriteAppend
<1> DEFINE new == NewOp(d, Now(clock[d], phys, d))
<1>2. new.id = <<d, written[d] + 1>>
  BY DEF NewOp
<1> HIDE DEF new
<1>3. log \in [Device -> SUBSET Op]
  BY DEF TypeInv, TypeOK
<1>4. \A e \in Device : log'[e] = IF e = d THEN log[d] \cup {new} ELSE log[e]
  BY <1>1, <1>3 DEF new
<1>5. \A e \in Device : Ids(log'[e]) = IF e = d THEN Ids(log[d]) \cup {<<d, written[d] + 1>>}
                                              ELSE Ids(log[e])
  BY <1>2, <1>4 DEF Ids
<1>6. Copies' = [Copies EXCEPT ![d] = @ \cup {<<d, written[d] + 1>>}]
  BY <1>5 DEF Copies, Ids
<1>7. /\ written' = [written EXCEPT ![d] = @ + 1]
      /\ UNCHANGED <<serverLog, pushed, checkpoint>>
  BY DEF WriteAppend, serverVars
<1>. QED  BY <1>6, <1>7 DEF Logs!Write, Copies

\* The op whose turn it is has all earlier ones of its device before it: they
\* are in the request and done, or were stored when the request was made.
LEMMA EarlierStored ==
  ASSUME RefInv, NEW d \in Device, NEW k \in Attempt, handler[d][k].pc = "append",
         NEW op \in handler[d][k].todo, IsNext(op, handler[d][k].todo),
         NEW m \in 1 .. op.id[2] - 1
  PROVE  StoredId(<<d, m>>)
<1> DEFINE h == handler[d][k]
<1>1. TypeInv /\ OpsIdentified /\ HandledStored /\ RequestsClosed
  BY DEF RefInv, LogInv
<1>2. op \in h.batch /\ op \in Op
  BY <1>1 DEF OpsIdentified, TypeInv, TypeOK, Handler
<1>3. CASE <<d, m>> \in Ids(h.batch)
  <2>1. PICK o \in h.batch : o.id = <<d, m>>
    BY <1>3 DEF Ids
  <2>2. o.id[2] = m /\ op.id[2] \in Nat
    BY <1>2, <2>1 DEF Op, OpId
  <2>3. o \notin h.todo
    BY <2>2 DEF IsNext
  <2>4. Stored(o)
    BY <1>1, <2>1, <2>3 DEF HandledStored, Working
  <2>. QED  BY <2>1, <2>4 DEF Stored, StoredId
<1>4. CASE <<d, m>> \notin Ids(h.batch)
  BY <1>1, <1>2, <1>4 DEF RequestsClosed
<1>. QED  BY <1>3, <1>4

\* AppendOp of the server, when the op is new.
LEMMA AppendShared ==
  ASSUME RefInv, NEW d \in Device, NEW k \in Attempt, HandlerAppend(d, k),
         serverLog' # serverLog
  PROVE  Logs!Share(d)
<1> DEFINE h == handler[d][k]
<1>1. PICK op \in h.todo : /\ IsNext(op, h.todo) /\ ~Stored(op)
                           /\ serverLog' = Append(serverLog, op)
  BY DEF HandlerAppend
<1>2. TypeInv /\ OpsIdentified /\ HandledStored /\ RequestsClosed /\ serverLog \in Seq(Op)
  BY DEF RefInv, LogInv, TypeInv, TypeOK
<1>3. op \in h.batch /\ op.device = d /\ op \in log[d] /\ op \in Op
  BY <1>2 DEF OpsIdentified, TypeInv, TypeOK
<1>4. op.id[1] = d /\ op.id[2] \in 1 .. written[d] /\ op.id \in OpId
  BY <1>2, <1>3 DEF OpsIdentified, Op
<1>5. PICK n \in 1 .. written[d] : op.id = <<d, n>>
  BY <1>4 DEF OpId
<1>6. SharedIds' = Append(SharedIds, <<d, n>>)
  BY <1>1, <1>2, <1>3, <1>5, IdsAppended DEF SharedIds
<1>7. \A id : id \in Logs!Shared <=> StoredId(id)
  BY DEF Logs!Shared, StoredId
<1>8. ~StoredId(<<d, n>>)
  BY <1>1, <1>5 DEF Stored, StoredId
<1>9. \A m \in 1 .. n - 1 : StoredId(<<d, m>>)
  BY <1>1, <1>5, EarlierStored DEF HandlerAppend
<1>10. UNCHANGED <<log, pushed, checkpoint, written>>
  BY DEF HandlerAppend, storeVars
<1>. QED  BY <1>6, <1>7, <1>8, <1>9, <1>10 DEF Logs!Share, SharedIds, Ids

\* MarkPushed.
LEMMA ReplyShared ==
  ASSUME RefInv, NEW d \in Device, PushReply(d)
  PROVE  Logs!Acknowledge(d)
<1> DEFINE k   == sync[d].attempt
           ids == Accepted(d, k)
<1>1. /\ TypeInv /\ OpsIdentified /\ HandledStored /\ k \in Attempt
  BY DEF RefInv, LogInv, TypeInv, TypeOK, Sync
<1>2. /\ handler[d][k].pc = "append" /\ handler[d][k].todo = {}
      /\ pushed' = [pushed EXCEPT ![d] = @ \cup ids]
      /\ UNCHANGED <<serverLog, log, checkpoint, written>>
  BY DEF PushReply, Answered, serverVars
<1>3. ASSUME NEW id \in ids
      PROVE  id \in Logs!Shared /\ id[1] = d
  <2>1. PICK op \in handler[d][k].batch : op.id = id
    BY DEF Accepted, Ids
  <2>2. Stored(op)
    BY <1>1, <1>2 DEF HandledStored, Working
  <2>3. op.device = d /\ op.id[1] = d
    BY <1>1 DEF OpsIdentified
  <2>. QED  BY <2>1, <2>2, <2>3 DEF Stored, Logs!Shared
<1>4. ids \in SUBSET {id \in Logs!Shared : id[1] = d}
  BY <1>3
<1> HIDE DEF ids
<1>. QED  BY <1>2, <1>4 DEF Logs!Acknowledge, Ids

\* AppendOp of a pulled op, when it is new.
LEMMA PullShared ==
  ASSUME RefInv, NEW d \in Device, PullAppend(d), log' # log
  PROVE  Logs!Fetch(d)
<1> DEFINE i  == sync[d].at
           op == serverLog[i]
<1>1. TypeInv /\ PageCovered /\ log \in [Device -> SUBSET Op] /\ InPage(sync[d])
  BY DEF RefInv, LogInv, TypeInv, TypeOK, PullAppend, InPage
<1>2. i \in DOMAIN serverLog
  BY <1>1, PageOp
<1>3. op.id \notin Ids(log[d]) /\ log' = [log EXCEPT ![d] = @ \cup {op}]
  BY DEF PullAppend
<1>4. \A j \in 1 .. i - 1 : serverLog[j] \in log[d]
  BY <1>1 DEF PageCovered
<1>5. i \in Nat /\ DOMAIN serverLog = 1 .. Len(serverLog) /\ Len(serverLog) \in Nat
  BY <1>2 DEF TypeInv, TypeOK, RefInv, LogInv
<1>6. \A j \in 1 .. i - 1 : SharedIds[j] \in Copies[d]
  BY <1>2, <1>4, <1>5 DEF SharedIds, Copies, Ids
<1>7. SharedIds[i] = op.id /\ i \in DOMAIN SharedIds
  BY <1>2 DEF SharedIds
<1>8. \A e \in Device : Ids(log'[e]) = IF e = d THEN Ids(log[d]) \cup {op.id} ELSE Ids(log[e])
  <2>1. \A e \in Device : log'[e] = IF e = d THEN log[d] \cup {op} ELSE log[e]
    BY <1>1, <1>3
  <2> HIDE DEF op
  <2>. QED  BY <2>1 DEF Ids
<1>9. Copies' = [Copies EXCEPT ![d] = @ \cup {SharedIds[i]}]
  BY <1>7, <1>8 DEF Copies, Ids
<1>10. UNCHANGED <<serverLog, pushed, checkpoint, written>> /\ SharedIds[i] \notin Copies[d]
  BY <1>3, <1>7 DEF PullAppend, serverVars, Copies
<1> HIDE DEF i
<1>. QED  BY <1>6, <1>7, <1>9, <1>10 DEF Logs!Fetch, SharedIds, Copies

\* setCheckpoint.
LEMMA CheckpointShared ==
  ASSUME RefInv, NEW d \in Device, PullCheckpoint(d)
  PROVE  Logs!MovePlace(d)
<1> DEFINE c == sync[d].upto
<1>1. /\ TypeInv /\ PageCovered /\ PagesAhead /\ serverLog \in Seq(Op)
      /\ c \in Nat /\ c <= Len(serverLog) /\ checkpoint[d] \in Nat
  BY DEF RefInv, LogInv, TypeInv, TypeOK, Sync
<1>2. sync[d].pc = "checkpoint" /\ checkpoint' = [checkpoint EXCEPT ![d] = c]
  BY DEF PullCheckpoint, NextCheckpoint
<1>3. Len(SharedIds) = Len(serverLog)
  <2>1. /\ Len(serverLog) \in Nat /\ DOMAIN serverLog = 1 .. Len(serverLog)
    BY <1>1
  <2>2. \A i \in 1 .. Len(serverLog) : serverLog[i].id \in OpId
    <3>1. \A op \in Op : op.id \in OpId
      BY DEF Op
    <3>. QED  BY <1>1, <3>1, ElementOfSeq
  <2>3. SharedIds \in [1 .. Len(serverLog) -> OpId]
    BY <2>1, <2>2 DEF SharedIds
  <2>4. SharedIds \in Seq(OpId)
    BY <2>1, <2>3, IsASeq
  <2>. QED  BY <2>1, <2>3, <2>4, LenProperties
<1>4. c \in checkpoint[d] .. Len(SharedIds)
  BY <1>1, <1>2, <1>3 DEF PagesAhead
<1>5. \A i \in 1 .. c : SharedIds[i] \in Copies[d]
  BY <1>1, <1>2 DEF PageCovered, SharedIds, Copies, Ids
<1>6. UNCHANGED <<serverLog, log, pushed, written>>
  BY DEF PullCheckpoint, serverVars
<1> HIDE DEF c
<1>. QED  BY <1>2, <1>4, <1>5, <1>6 DEF Logs!MovePlace, SharedIds, Copies, Ids

LEMMA SharedSteps == RefInv /\ [Next]_vars => [Logs!Next]_(Logs!vars)
<1> SUFFICES ASSUME RefInv, [Next]_vars PROVE [Logs!Next]_(Logs!vars)
  OBVIOUS
<1>1. TypeInv
  BY DEF RefInv, LogInv
<1>2. ASSUME NEW d \in Device, NEW k \in Attempt, HandlerAppend(d, k)
      PROVE  [Logs!Next]_(Logs!vars)
  <2>1. CASE serverLog' = serverLog
    BY <1>2, <2>1, SharedUnchanged DEF HandlerAppend, storeVars
  <2>2. CASE serverLog' # serverLog
    BY <1>2, <2>2, AppendShared DEF Logs!Next
  <2>. QED  BY <2>1, <2>2
<1>3. ASSUME NEW d \in Device, PullAppend(d)
      PROVE  [Logs!Next]_(Logs!vars)
  <2>1. CASE log' = log
    BY <1>3, <2>1, SharedUnchanged DEF PullAppend, serverVars
  <2>2. CASE log' # log
    BY <1>3, <2>2, PullShared DEF Logs!Next
  <2>. QED  BY <2>1, <2>2
<1>4. ASSUME NEW d \in Device, WriteAppend(d) \/ PushReply(d) \/ PullCheckpoint(d)
      PROVE  Logs!Next
  BY <1>1, <1>4, WriteShared, ReplyShared, CheckpointShared DEF Logs!Next
<1>. QED  BY <1>2, <1>3, <1>4, NotableSteps, SharedUnchanged

\* The logs of the server and of all devices are one sequence that every device
\* writes to and reads from the front, for any retries, late handlers, failures
\* and crashes (applyLocalWrite, AppendOp, MarkPushed, OpsSince, setCheckpoint).
THEOREM SharedLogImplemented == Spec => ImplementsSharedLog
<1>1. Init => Logs!Init
  BY SharedInitially
<1>. QED  BY <1>1, RefInit, RefStep, SharedSteps, PTL DEF Spec, ImplementsSharedLog, Logs!Spec

-----------------------------------------------------------------------------
(***************************************************************************)
(* What holds of SharedLog holds of SyncForge's logs.                      *)
(***************************************************************************)

Shared == INSTANCE SharedLogProofs WITH
            wrote  <- written,
            shared <- [i \in DOMAIN serverLog |-> serverLog[i].id],
            copy   <- [d \in Device |-> Ids(log[d])],
            acked  <- pushed,
            place  <- checkpoint

LEMMA SharedInitiallyAgain == Init => Shared!SharedInv
<1>1. Logs!Init => Shared!Init
  BY DEF Logs!Init, Shared!Init
<1>. QED  BY <1>1, SharedInitially, Shared!SharedInit

LEMMA SharedStepsAgain ==
  RefInv /\ Shared!SharedInv /\ [Next]_vars => Shared!SharedInv'
<1>1. Logs!vars = Shared!vars /\ Logs!vars' = Shared!vars'
  BY DEF Logs!vars, Shared!vars
<1>2. ASSUME NEW d \in Device
      PROVE  /\ Logs!Write(d) => Shared!Write(d)
             /\ Logs!Share(d) => Shared!Share(d)
             /\ Logs!Acknowledge(d) => Shared!Acknowledge(d)
             /\ Logs!Fetch(d) => Shared!Fetch(d)
             /\ Logs!MovePlace(d) => Shared!MovePlace(d)
  <2>1. Logs!Write(d) => Shared!Write(d)
    BY DEF Logs!Write, Shared!Write
  <2>2. Logs!Share(d) => Shared!Share(d)
    BY DEF Logs!Share, Shared!Share, Logs!Shared, Shared!Shared
  <2>3. Logs!Acknowledge(d) => Shared!Acknowledge(d)
    BY DEF Logs!Acknowledge, Shared!Acknowledge, Logs!Shared, Shared!Shared
  <2>4. Logs!Fetch(d) => Shared!Fetch(d)
    BY DEF Logs!Fetch, Shared!Fetch
  <2>5. Logs!MovePlace(d) => Shared!MovePlace(d)
    BY DEF Logs!MovePlace, Shared!MovePlace
  <2>. QED  BY <2>1, <2>2, <2>3, <2>4, <2>5
<1>3. Logs!Next => Shared!Next
  BY <1>2 DEF Logs!Next, Shared!Next
<1>4. RefInv /\ [Next]_vars => [Shared!Next]_(Shared!vars)
  BY <1>1, <1>3, SharedSteps
<1>. QED  BY <1>4, Shared!SharedStep

\* The server logs the writes of one device without gaps and in the order they
\* were made, however its attempts overlap (SyncOnce, handlePush, AppendOp).
THEOREM SessionOrderAlways == Spec => []SessionOrder
<1>1. ASSUME TypeInv, OpsIdentified, Shared!SharedInv
      PROVE  SessionOrder
  <2>1. SUFFICES ASSUME NEW i \in DOMAIN serverLog, NEW m \in 1 .. serverLog[i].id[2] - 1
                 PROVE  \E j \in 1 .. i - 1 : serverLog[j].id = <<serverLog[i].device, m>>
    BY DEF SessionOrder
  <2>2. Shared!Contiguous
    BY <1>1 DEF Shared!SharedInv
  <2>3. PICK j \in 1 .. i - 1 : SharedIds[j] = <<SharedIds[i][1], m>>
    BY <2>2 DEF Shared!Contiguous, SharedIds
  <2>4. DOMAIN serverLog = 1 .. Len(serverLog) /\ Len(serverLog) \in Nat
    BY <1>1 DEF TypeInv, TypeOK
  <2>5. SharedIds[j] = serverLog[j].id /\ SharedIds[i] = serverLog[i].id
    BY <2>4, <2>3 DEF SharedIds
  <2>6. serverLog[i].id[1] = serverLog[i].device
    <3>1. serverLog[i] \in Op
      BY <1>1, <2>4 DEF TypeInv, TypeOK
    <3>2. serverLog[i].device \in Device
      BY <3>1 DEF Op
    <3>. QED  BY <1>1, <3>2 DEF OpsIdentified
  <2>. QED  BY <2>3, <2>5, <2>6
<1>2. RefInv => TypeInv /\ OpsIdentified
  BY DEF RefInv, LogInv
<1>. QED  BY <1>1, <1>2, RefInit, RefStep, SharedInitiallyAgain, SharedStepsAgain, PTL DEF Spec

\* A device that holds a write of another device, even halfway through a pull,
\* holds all the earlier ones (UnpushedOps, AppendOp, OpsSince, the pull loop).
THEOREM CopiesInOrderAlways == Spec => []CopiesInOrder
<1>1. ASSUME OpsIdentified, Shared!SharedInv
      PROVE  CopiesInOrder
  <2>1. SUFFICES ASSUME NEW d \in Device, NEW op \in log[d], NEW m \in 1 .. op.id[2] - 1
                 PROVE  <<op.device, m>> \in Ids(log[d])
    BY DEF CopiesInOrder
  <2>2. Shared!InOrder
    BY <1>1 DEF Shared!SharedInv
  <2>3. \A id \in Ids(log[d]) : \A n \in 1 .. id[2] - 1 : <<id[1], n>> \in Ids(log[d])
    BY <2>2 DEF Shared!InOrder, Ids
  <2>4. op.id \in Ids(log[d]) /\ op.id[1] = op.device
    BY <1>1 DEF OpsIdentified, Ids
  <2>. QED  BY <2>3, <2>4
<1>2. RefInv => OpsIdentified
  BY DEF RefInv, LogInv
<1>. QED  BY <1>1, <1>2, RefInit, RefStep, SharedInitiallyAgain, SharedStepsAgain, PTL DEF Spec

-----------------------------------------------------------------------------
(***************************************************************************)
(* Vectors and the ops that they count.                                    *)
(***************************************************************************)

\* Every write that vector v of record r counts is among the ops.
CoversIn(ops, r, v) ==
  \A n \in Device : \A c \in 1 .. v[n] :
    \E w \in ops : w.device = n /\ w.record = r /\ w.vv[n] = c

\* Merging and resolving count no write that was not counted before.
LEMMA ResolveCovers ==
  ASSUME NEW ops, NEW r, NEW x \in Record, NEW op \in Op,
         CoversIn(ops, r, x.vv), CoversIn(ops, r, op.vv)
  PROVE  CoversIn(ops, r, Resolve(x, op).record.vv)
<1> DEFINE merged == Merge(x.vv, op.vv)
           y      == Resolve(x, op).record
<1>1. CoversIn(ops, r, merged)
  <2>1. \A n \in Device : merged[n] = x.vv[n] \/ merged[n] = op.vv[n]
    BY DEF Merge
  <2> HIDE DEF merged
  <2>. QED  BY <2>1 DEF CoversIn
<1>2. FromOp(op).vv = op.vv /\ x.found \in BOOLEAN /\ FromOp(op) \in Record
  BY DEF FromOp, Record, Op
<1>3. /\ [FromOp(op) EXCEPT !.vv = merged].vv = merged
      /\ [x EXCEPT !.vv = merged].vv = merged
  BY <1>2 DEF Record
<1>4. y \in {x, FromOp(op), [FromOp(op) EXCEPT !.vv = merged], [x EXCEPT !.vv = merged]}
  <2>1. Compare(x.vv, op.vv) \in {"Equal", "Descendant", "Ancestor", "Concurrent"}
    BY CompareValues
  <2>. QED  BY <1>2, <2>1 DEF Resolve, Decision
<1> HIDE DEF merged, y
<1>5. y.vv \in {x.vv, op.vv, merged}
  BY <1>2, <1>3, <1>4
<1>. QED  BY <1>1, <1>5 DEF y

-----------------------------------------------------------------------------
(***************************************************************************)
(* The invariant.                                                          *)
(***************************************************************************)

\* A device holds every write that its records count, and those it has read:
\* in a pull or in a local write, whose op is in the log from AppendOp on.
RecordsCovered ==
  \A d \in Device :
    /\ \A r \in RecordId : CoversIn(log[d], r, rec[d][r].vv)
    /\ sync[d].pc = "save" =>
         CoversIn(log[d], serverLog[sync[d].at].record, sync[d].snap.vv)
    /\ write[d].pc # "idle" => CoversIn(log[d], write[d].record, write[d].snap.vv)
    /\ write[d].pc = "save" =>
         \E op \in log[d] : op.id = <<d, written[d]>> /\ op.record = write[d].record

\* It holds every write that its own ops count, its own ones under numbers no
\* greater than that of the op.
OwnCovered ==
  \A d \in Device : \A op \in log[d] : op.device = d =>
    \A n \in Device : \A c \in 1 .. op.vv[n] :
      \E w \in log[d] : /\ w.device = n /\ w.record = op.record /\ w.vv[n] = c
                        /\ n = d => w.id[2] <= op.id[2]

\* What it holds of others came from the server.
ForeignStored == \A d \in Device : \A op \in log[d] : op.device = d \/ op \in ServerOps

CausalInv == RefInv /\ RecordsCovered /\ OwnCovered /\ ForeignStored /\ CausalLog

LEMMA CausalInit == Init => CausalInv
<1> SUFFICES ASSUME Init PROVE CausalInv
  OBVIOUS
<1>1. OwnCovered /\ ForeignStored /\ CausalLog
  BY DEF Init, OwnCovered, ForeignStored, CausalLog
<1>2. \A n \in Device : NoRecord.vv[n] = 0
  BY DEF NoRecord, ZeroVector
<1>3. /\ \A d \in Device : \A r \in RecordId : rec[d][r] = NoRecord
      /\ \A d \in Device : sync[d] = NoSync /\ write[d] = NoWrite
      /\ NoSync.pc # "save" /\ NoWrite.pc = "idle"
  BY DEF Init, NoSync, NoWrite
<1>4. ASSUME NEW ops, NEW r PROVE CoversIn(ops, r, NoRecord.vv)
  <2>1. ASSUME NEW n \in Device, NEW c \in 1 .. NoRecord.vv[n] PROVE FALSE
    <3>1. c \in 1 .. 0
      BY <1>2, <2>1
    <3>. QED  BY <3>1
  <2>. QED  BY <2>1 DEF CoversIn
<1>5. RecordsCovered
  <2>1. ASSUME NEW d \in Device, NEW r \in RecordId
        PROVE  CoversIn(log[d], r, rec[d][r].vv)
    BY <1>3, <1>4
  <2>2. \A d \in Device : sync[d].pc # "save" /\ write[d].pc = "idle"
    BY <1>3
  <2>. QED  BY <2>1, <2>2 DEF RecordsCovered
<1>. QED  BY <1>1, <1>5, RefInit DEF CausalInv

-----------------------------------------------------------------------------
(***************************************************************************)
(* What a device holds.                                                    *)
(***************************************************************************)

LEMMA ForeignStep ==
  ASSUME TypeInv, ForeignStored, [Next]_vars
  PROVE  ForeignStored'
<1>1. LogsGrow /\ log \in [Device -> SUBSET Op]
  BY StepGrows DEF TypeInv, TypeOK
<1>2. ServerOps \subseteq ServerOps'
  BY <1>1 DEF LogsGrow, ServerOps
<1>3. CASE log' = log
  BY <1>2, <1>3 DEF ForeignStored
<1>4. ASSUME NEW d \in Device, NEW new, log' = [log EXCEPT ![d] = @ \cup {new}],
             new.device = d \/ new \in ServerOps
      PROVE  ForeignStored'
  BY <1>1, <1>2, <1>4 DEF ForeignStored
<1>5. ASSUME NEW d \in Device, WriteAppend(d)
      PROVE  ForeignStored'
  <2>1. PICK phys \in Time[d] :
          log' = [log EXCEPT ![d] = @ \cup {NewOp(d, Now(clock[d], phys, d))}]
    BY <1>5 DEF WriteAppend
  <2>2. NewOp(d, Now(clock[d], phys, d)).device = d
    BY DEF NewOp
  <2>. QED  BY <1>4, <2>1, <2>2
<1>6. ASSUME NEW d \in Device, PullAppend(d)
      PROVE  ForeignStored'
  <2>1. serverLog[sync[d].at] \in ServerOps
    BY <1>6, PageOp DEF PullAppend, InPage, ServerOps
  <2>. QED  BY <1>3, <1>4, <1>6, <2>1 DEF PullAppend
<1>. QED  BY <1>3, <1>5, <1>6, LogSources

\* Only applyLocalWrite adds an own op to a device's log.
LEMMA PulledForeign ==
  ASSUME TypeInv, OpsIdentified, NEW d \in Device, PullAppend(d), log' # log
  PROVE  /\ log' = [log EXCEPT ![d] = @ \cup {serverLog[sync[d].at]}]
         /\ serverLog[sync[d].at].device # d
<1> DEFINE op == serverLog[sync[d].at]
<1>1. op.id \notin Ids(log[d]) /\ log' = [log EXCEPT ![d] = @ \cup {op}]
  BY DEF PullAppend
<1>2. op \in Op /\ sync[d].at \in DOMAIN serverLog
  BY PageOp DEF PullAppend, InPage
<1>3. op.device \in Device /\ op \in log[op.device]
  BY <1>2 DEF OpsIdentified, Op
<1>4. op \notin log[d]
  BY <1>1 DEF Ids
<1>. QED  BY <1>1, <1>3, <1>4

\* A local write counts what its record counted, and itself (Increment).
LEMMA OwnCoveredStep ==
  ASSUME TypeInv, OpsIdentified, RecordsCovered, OwnCovered, [Next]_vars
  PROVE  OwnCovered'
<1>1. LogsGrow /\ log \in [Device -> SUBSET Op] /\ written \in [Device -> Nat]
  BY StepGrows DEF TypeInv, TypeOK
<1>2. CASE log' = log
  BY <1>2 DEF OwnCovered
<1>3. ASSUME NEW d \in Device, NEW new, log' = [log EXCEPT ![d] = @ \cup {new}],
             new.device = d =>
               \A n \in Device : \A c \in 1 .. new.vv[n] :
                 \E w \in log'[d] : /\ w.device = n /\ w.record = new.record /\ w.vv[n] = c
                                    /\ n = d => w.id[2] <= new.id[2]
      PROVE  OwnCovered'
  <2>1. \A e \in Device : log[e] \subseteq log'[e]
    BY <1>1 DEF LogsGrow
  <2>2. \A e \in Device : \A op \in log'[e] : op \in log[e] \/ (e = d /\ op = new)
    BY <1>1, <1>3
  <2>3. ASSUME NEW e \in Device, NEW op \in log'[e], op.device = e,
               NEW n \in Device, NEW c \in 1 .. op.vv[n]
        PROVE  \E w \in log'[e] : /\ w.device = n /\ w.record = op.record /\ w.vv[n] = c
                                  /\ n = e => w.id[2] <= op.id[2]
    <3>1. CASE op \in log[e]
      BY <2>1, <2>3, <3>1 DEF OwnCovered
    <3>2. CASE e = d /\ op = new
      BY <1>3, <2>3, <3>2
    <3>. QED  BY <2>2, <3>1, <3>2
  <2>. QED  BY <2>3 DEF OwnCovered
<1>4. ASSUME NEW d \in Device, WriteAppend(d)
      PROVE  OwnCovered'
  <2>1. PICK phys \in Time[d] :
          log' = [log EXCEPT ![d] = @ \cup {NewOp(d, Now(clock[d], phys, d))}]
    BY <1>4 DEF WriteAppend
  <2> DEFINE new == NewOp(d, Now(clock[d], phys, d))
             v   == write[d].snap.vv
  <2>2. /\ new.id = <<d, written[d] + 1>> /\ new.device = d
        /\ new.record = write[d].record /\ new.vv = WriteVector(write[d].snap, d)
    BY DEF NewOp
  <2>3. write[d] \in WriteInProgress /\ v \in VectorType
    <3>1. write[d] \in WriteInProgress
      BY <1>4 DEF WriteAppend, TypeInv, TypeOK, NoWrite
    <3>. QED  BY <3>1 DEF WriteInProgress, Record
  <2>4. \A n \in Device : /\ v[n] \in Nat
                          /\ new.vv[n] = IF n = d THEN v[d] + 1 ELSE v[n]
    BY <2>2, <2>3 DEF WriteVector, Increment, VectorType
  <2>5. CoversIn(log[d], write[d].record, v)
    BY <1>4 DEF RecordsCovered, WriteAppend
  <2> HIDE DEF new, v
  <2>6. new \in log'[d] /\ log[d] \subseteq log'[d]
    BY <1>1, <2>1 DEF new
  <2>7. ASSUME NEW n \in Device, NEW c \in 1 .. new.vv[n]
        PROVE  \E w \in log'[d] : /\ w.device = n /\ w.record = new.record /\ w.vv[n] = c
                                  /\ n = d => w.id[2] <= new.id[2]
    <3>1. CASE c \in 1 .. v[n]
      <4>1. PICK w \in log[d] : w.device = n /\ w.record = write[d].record /\ w.vv[n] = c
        BY <2>5, <3>1 DEF CoversIn
      <4>2. n = d => w.id[2] \in 1 .. written[d]
        BY <4>1 DEF OpsIdentified
      <4>3. n = d => w.id[2] <= new.id[2]
        BY <1>1, <2>2, <4>2
      <4>. QED  BY <2>2, <2>6, <4>1, <4>3
    <3>2. CASE c \notin 1 .. v[n]
      <4>1. n = d /\ c = v[d] + 1
        BY <2>4, <2>7, <3>2
      <4>2. new.vv[n] = c /\ new.device = n
        BY <2>2, <2>4, <4>1
      <4>3. new.id[2] \in Nat
        BY <1>1, <2>2
      <4>4. new.id[2] <= new.id[2]
        BY <4>3
      <4>. QED  BY <2>6, <4>2, <4>4
    <3>. QED  BY <3>1, <3>2
  <2>. QED  BY <1>3, <2>1, <2>7 DEF new
<1>5. ASSUME NEW d \in Device, PullAppend(d)
      PROVE  OwnCovered'
  BY <1>2, <1>3, <1>5, PulledForeign
<1>. QED  BY <1>2, <1>4, <1>5, LogSources

-----------------------------------------------------------------------------
(***************************************************************************)
(* The server's log.                                                       *)
(***************************************************************************)

\* What an own op knows of is stored before the op, whichever attempt stores it.
LEMMA CausalLogStep ==
  ASSUME RefInv, OwnCovered, ForeignStored, CausalLog, [Next]_vars
  PROVE  CausalLog'
<1>1. CASE serverLog' = serverLog
  BY <1>1 DEF CausalLog
<1>2. ASSUME NEW d \in Device, NEW k \in Attempt, NEW op \in handler[d][k].todo,
             IsNext(op, handler[d][k].todo), handler[d][k].pc = "append",
             serverLog' = Append(serverLog, op)
      PROVE  CausalLog'
  <2>1. /\ TypeInv /\ OpsIdentified
        /\ serverLog \in Seq(Op) /\ Len(serverLog) \in Nat
    BY DEF RefInv, LogInv, TypeInv, TypeOK
  <2>2. op \in log[d] /\ op.device = d /\ op \in Op
    BY <2>1 DEF OpsIdentified, TypeInv, TypeOK
  <2> DEFINE len == Len(serverLog)
  <2>3. /\ DOMAIN serverLog = 1 .. len /\ DOMAIN serverLog' = 1 .. len + 1
        /\ \A i \in 1 .. len : serverLog'[i] = serverLog[i]
        /\ serverLog'[len + 1] = op
    BY <1>2, <2>1, <2>2
  <2>4. ASSUME NEW n \in Device, NEW c \in 1 .. op.vv[n]
        PROVE  \E j \in 1 .. len + 1 :
                 /\ serverLog'[j].device = n /\ serverLog'[j].record = op.record
                 /\ serverLog'[j].vv[n] = c
    <3>1. PICK w \in log[d] : /\ w.device = n /\ w.record = op.record /\ w.vv[n] = c
                              /\ n = d => w.id[2] <= op.id[2]
      BY <2>2 DEF OwnCovered
    <3>2. CASE w = op
      BY <2>1, <2>3, <3>1, <3>2
    <3>3. CASE w \in ServerOps
      BY <2>1, <2>3, <3>1, <3>3 DEF ServerOps
    <3>4. CASE n = d /\ w # op
      <4>1. /\ w.id[1] = d /\ op.id[1] = d /\ w.id # op.id
            /\ w.id[2] \in 1 .. written[d] /\ op.id[2] \in 1 .. written[d]
        BY <2>1, <2>2, <3>1, <3>4 DEF OpsIdentified
      <4>2. w.id \in OpId /\ op.id \in OpId
        BY <2>1, <2>2 DEF TypeInv, TypeOK, Op
      <4>3. w.id = <<d, w.id[2]>> /\ op.id = <<d, op.id[2]>>
        BY <4>1, <4>2 DEF OpId
      <4>4. w.id[2] # op.id[2]
        BY <4>1, <4>3
      <4>5. w.id[2] \in 1 .. op.id[2] - 1
        BY <2>1, <3>1, <3>4, <4>1, <4>4 DEF TypeInv, TypeOK
      <4>6. StoredId(w.id)
        BY <1>2, <4>3, <4>5, EarlierStored
      <4>7. PICK j \in DOMAIN serverLog : serverLog[j].id = w.id
        BY <4>6 DEF StoredId
      <4>8. serverLog[j] \in log[d]
        BY <2>1, <4>7, SameIdSameOp DEF Ids
      <4>9. serverLog[j] = w
        BY <2>1, <4>7, <4>8 DEF OpsIdentified
      <4>. QED  BY <3>3, <4>9 DEF ServerOps
    <3>. QED  BY <3>1, <3>2, <3>3, <3>4 DEF ForeignStored
  <2>5. ASSUME NEW i \in 1 .. len + 1, NEW n \in Device, NEW c \in 1 .. serverLog'[i].vv[n]
        PROVE  \E j \in 1 .. i : /\ serverLog'[j].device = n
                                 /\ serverLog'[j].record = serverLog'[i].record
                                 /\ serverLog'[j].vv[n] = c
    <3>1. CASE i \in 1 .. len
      <4>1. PICK j \in 1 .. i : /\ serverLog[j].device = n
                                /\ serverLog[j].record = serverLog[i].record
                                /\ serverLog[j].vv[n] = c
        BY <2>3, <2>5, <3>1 DEF CausalLog
      <4>2. j \in 1 .. len
        BY <2>1, <3>1
      <4>. QED  BY <2>3, <3>1, <4>1, <4>2
    <3>2. CASE i = len + 1
      BY <2>3, <2>4, <2>5, <3>2
    <3>. QED  BY <2>1, <3>1, <3>2
  <2>. QED  BY <2>3, <2>5 DEF CausalLog
<1>. QED  BY <1>1, <1>2, ServerLogSources

-----------------------------------------------------------------------------
(***************************************************************************)
(* What records and reads of records count.                                *)
(***************************************************************************)

\* The steps that write a record, and those after which a record has been read.
LEMMA RecordSources ==
  ASSUME [Next]_vars
  PROVE  rec' = rec \/ \E d \in Device : WriteSave(d) \/ PullSave(d)
<1>1. ASSUME NEW d \in Device,
             \/ WriteBegin(d) \/ WriteAppend(d) \/ SyncBegin(d) \/ PushReply(d)
             \/ PushFailed(d) \/ PullPage(d) \/ PullAppend(d) \/ PullLoad(d)
             \/ PullAudit(d) \/ PullCheckpoint(d) \/ FaultStep(d)
      PROVE  rec' = rec
  BY <1>1 DEF WriteBegin, WriteAppend, SyncBegin, PushReply, PushFailed, PullPage,
       PullAppend, PullLoad, PullAudit, PullCheckpoint, FaultStep, WriteFails,
       PushReplyLost, PushTimeout, PullFails, Stop, HandlerFails, storeVars
<1>2. ASSUME NEW d \in Device, NEW k \in Attempt, HandlerStep(d, k)
      PROVE  rec' = rec
  BY <1>2 DEF HandlerStep, HandlerAppend, HandlerLoad, HandlerSave, HandlerAudit,
       HandlerEnds, storeVars
<1>3. CASE Next
  BY <1>1, <1>2, <1>3 DEF Next, WriteStep, SyncStep
<1>4. CASE UNCHANGED vars
  BY <1>4 DEF vars, storeVars
<1>. QED  BY <1>3, <1>4

LEMMA WriteSources ==
  ASSUME TypeInv, [Next]_vars, NEW e \in Device
  PROVE  \/ write'[e] = write[e] /\ written'[e] = written[e]
         \/ write'[e] = NoWrite
         \/ WriteBegin(e) \/ WriteAppend(e)
<1>1. /\ write \in [Device -> {NoWrite} \cup WriteInProgress]
      /\ written \in [Device -> Nat]
  BY DEF TypeInv, TypeOK
<1>2. ASSUME NEW d \in Device,
             \/ WriteBegin(d) \/ WriteAppend(d) \/ WriteSave(d) \/ WriteFails(d) \/ Stop(d)
      PROVE  \/ write'[e] = write[e] /\ written'[e] = written[e]
             \/ write'[e] = NoWrite
             \/ WriteBegin(e) \/ WriteAppend(e)
  BY <1>1, <1>2 DEF WriteBegin, WriteAppend, WriteSave, WriteFails, Stop, storeVars
<1>3. ASSUME NEW d \in Device,
             \/ SyncBegin(d) \/ PushReply(d) \/ PushFailed(d) \/ PullPage(d)
             \/ PullAppend(d) \/ PullLoad(d) \/ PullSave(d) \/ PullAudit(d)
             \/ PullCheckpoint(d) \/ PushReplyLost(d) \/ PushTimeout(d) \/ PullFails(d)
      PROVE  write' = write /\ written' = written
  BY <1>3 DEF SyncBegin, PushReply, PushFailed, PullPage, PullAppend, PullLoad,
       PullSave, PullAudit, PullCheckpoint, PushReplyLost, PushTimeout, PullFails,
       storeVars
<1>4. ASSUME NEW d \in Device, NEW k \in Attempt, HandlerStep(d, k) \/ HandlerFails(d, k)
      PROVE  write' = write /\ written' = written
  BY <1>4 DEF HandlerStep, HandlerAppend, HandlerLoad, HandlerSave, HandlerAudit,
       HandlerEnds, HandlerFails, storeVars
<1>5. CASE Next
  BY <1>2, <1>3, <1>4, <1>5 DEF Next, WriteStep, SyncStep, FaultStep
<1>6. CASE UNCHANGED vars
  BY <1>6 DEF vars, storeVars
<1>. QED  BY <1>5, <1>6

LEMMA SnapSources ==
  ASSUME TypeInv, [Next]_vars, NEW e \in Device, sync'[e].pc = "save"
  PROVE  sync'[e] = sync[e] \/ PullLoad(e)
<1>1. sync \in [Device -> Sync]
  BY DEF TypeInv, TypeOK
<1>2. ASSUME NEW d \in Device, NEW x, sync' = [sync EXCEPT ![d] = x], x.pc # "save"
      PROVE  sync'[e] = sync[e] \/ PullLoad(e)
  BY <1>1, <1>2
<1>3. ASSUME NEW d \in Device,
             \/ SyncBegin(d) \/ PushReply(d) \/ PushReplyLost(d) \/ PullFails(d)
             \/ Stop(d) \/ PullCheckpoint(d)
      PROVE  sync'[e] = sync[e] \/ PullLoad(e)
  <2>1. PICK x \in {NoSync, [NoSync EXCEPT !.pc = "pull"], [NoSync EXCEPT !.pc = "pushing"]} :
          sync' = [sync EXCEPT ![d] = x]
    BY <1>3 DEF SyncBegin, PushReply, PushReplyLost, PullFails, Stop, PullCheckpoint
  <2>2. x.pc # "save"
    BY <2>1 DEF NoSync
  <2>. QED  BY <1>2, <2>1, <2>2
<1>4. ASSUME NEW d \in Device, PushFailed(d) \/ PushTimeout(d)
      PROVE  sync'[e] = sync[e] \/ PullLoad(e)
  <2>1. ASSUME NEW left, sync[d].pc = "pushing", Resend(d, left)
        PROVE  sync'[e] = sync[e] \/ PullLoad(e)
    BY <1>1, <2>1 DEF Resend, Sync
  <2>2. ASSUME NEW left, GiveUp(d, left)
        PROVE  sync'[e] = sync[e] \/ PullLoad(e)
    BY <1>2, <2>2 DEF GiveUp, NoSync
  <2>. QED  BY <1>4, <2>1, <2>2 DEF PushFailed, PushTimeout
<1>5. ASSUME NEW d \in Device,
             \/ PullPage(d) \/ PullAppend(d) \/ PullLoad(d) \/ PullSave(d) \/ PullAudit(d)
      PROVE  sync'[e] = sync[e] \/ PullLoad(e)
  <2>1. \A s \in Sync : Advance(s).pc # "save"
    BY DEF Advance, Sync
  <2>2. \A c : Page(c).pc # "save"
    BY DEF Page, NoSync
  <2>3. /\ [sync[d] EXCEPT !.pc = "load"].pc # "save"
        /\ [sync[d] EXCEPT !.pc = "audit"].pc # "save"
    BY <1>1 DEF Sync
  <2>4. CASE PullLoad(d)
    BY <1>1, <2>4 DEF PullLoad
  <2>5. CASE PullPage(d) \/ PullAudit(d)
    BY <1>1, <1>2, <2>1, <2>2, <2>5 DEF PullPage, PullAudit
  <2>6. CASE PullAppend(d)
    <3>1. PICK x \in {Advance(sync[d]), [sync[d] EXCEPT !.pc = "load"]} :
            sync' = [sync EXCEPT ![d] = x]
      BY <1>1, <2>6 DEF PullAppend
    <3>. QED  BY <1>1, <1>2, <2>1, <2>3, <3>1
  <2>7. CASE PullSave(d)
    <3>1. PICK x \in {Advance(sync[d]), [sync[d] EXCEPT !.pc = "audit"]} :
            sync' = [sync EXCEPT ![d] = x]
      BY <1>1, <2>7 DEF PullSave
    <3>. QED  BY <1>1, <1>2, <2>1, <2>3, <3>1
  <2>. QED  BY <1>5, <2>4, <2>5, <2>6, <2>7
<1>6. ASSUME NEW d \in Device, WriteBegin(d) \/ WriteStep(d) \/ WriteFails(d)
      PROVE  sync' = sync
  BY <1>6 DEF WriteBegin, WriteStep, WriteAppend, WriteSave, WriteFails
<1>7. ASSUME NEW d \in Device, NEW k \in Attempt, HandlerStep(d, k) \/ HandlerFails(d, k)
      PROVE  sync' = sync
  BY <1>7 DEF HandlerStep, HandlerAppend, HandlerLoad, HandlerSave, HandlerAudit,
       HandlerEnds, HandlerFails
<1>8. CASE Next
  BY <1>3, <1>4, <1>5, <1>6, <1>7, <1>8 DEF Next, SyncStep, FaultStep
<1>9. CASE UNCHANGED vars
  BY <1>9 DEF vars
<1>. QED  BY <1>8, <1>9

\* A device's records count what it holds, through every read and write of them.
LEMMA RecordsCoveredStep ==
  ASSUME TypeInv, OpsIdentified, PageCovered, RecordsCovered, OwnCovered, CausalLog,
         [Next]_vars
  PROVE  RecordsCovered'
<1>1. /\ LogsGrow /\ log \in [Device -> SUBSET Op] /\ written \in [Device -> Nat]
      /\ rec \in [Device -> [RecordId -> Record]]
      /\ sync \in [Device -> Sync] /\ serverLog \in Seq(Op) /\ Len(serverLog) \in Nat
      /\ write \in [Device -> {NoWrite} \cup WriteInProgress]
  BY StepGrows DEF TypeInv, TypeOK
<1>2. ASSUME NEW d \in Device, NEW r, NEW v, CoversIn(log[d], r, v)
      PROVE  CoversIn(log'[d], r, v)
  <2>1. log[d] \subseteq log'[d]
    BY <1>1 DEF LogsGrow
  <2>2. ASSUME NEW n \in Device, NEW c \in 1 .. v[n]
        PROVE  \E w \in log'[d] : w.device = n /\ w.record = r /\ w.vv[n] = c
    <3>1. \E w \in log[d] : w.device = n /\ w.record = r /\ w.vv[n] = c
      BY <1>2, <2>2 DEF CoversIn
    <3>. QED  BY <2>1, <3>1
  <2>. QED  BY <2>2 DEF CoversIn
<1>3. ASSUME NEW e \in Device, NEW r \in RecordId
      PROVE  CoversIn(log'[e], r, rec'[e][r].vv)
  <2>1. CASE rec'[e][r] = rec[e][r]
    BY <1>2, <2>1 DEF RecordsCovered
  <2>2. ASSUME NEW d \in Device, NEW x \in Record, NEW op \in Op,
               rec' = [rec EXCEPT ![d][op.record] = Resolve(x, op).record],
               CoversIn(log[d], op.record, x.vv), CoversIn(log[d], op.record, op.vv)
        PROVE  CoversIn(log'[e], r, rec'[e][r].vv)
    <3> DEFINE y == Resolve(x, op).record
    <3>1. CoversIn(log[d], op.record, y.vv)
      BY <2>2, ResolveCovers
    <3>2. op.record \in RecordId
      BY DEF Op
    <3> HIDE DEF y
    <3>3. CASE e = d /\ r = op.record
      <4>1. rec'[e][r] = y
        BY <1>1, <2>2, <3>2, <3>3 DEF y
      <4>. QED  BY <1>2, <3>1, <3>3, <4>1
    <3>4. CASE ~(e = d /\ r = op.record)
      BY <1>1, <2>1, <2>2, <3>2, <3>4 DEF y
    <3>. QED  BY <3>3, <3>4
  <2>3. ASSUME NEW d \in Device, WriteSave(d)
        PROVE  CoversIn(log'[e], r, rec'[e][r].vv)
    <3>1. PICK op \in log[d] :
            /\ op.id = <<d, written[d]>>
            /\ rec' = [rec EXCEPT ![d][op.record] = Resolve(write[d].snap, op).record]
      BY <2>3 DEF WriteSave
    <3>2. /\ write[d].pc = "save" /\ write[d] \in WriteInProgress
          /\ write[d].snap \in Record /\ op \in Op
      BY <1>1, <2>3 DEF WriteSave, NoWrite, WriteInProgress
    <3>3. PICK o \in log[d] : o.id = <<d, written[d]>> /\ o.record = write[d].record
      BY <3>2 DEF RecordsCovered
    <3>4. o = op
      BY <3>1, <3>3 DEF OpsIdentified
    <3>5. op.device = d
      <4>1. op.id[1] = op.device
        BY DEF OpsIdentified
      <4>. QED  BY <3>1, <4>1
    <3>6. CoversIn(log[d], op.record, op.vv)
      BY <3>5 DEF OwnCovered, CoversIn
    <3>7. CoversIn(log[d], op.record, write[d].snap.vv)
      BY <3>2, <3>3, <3>4 DEF RecordsCovered
    <3>. QED  BY <2>2, <3>1, <3>2, <3>6, <3>7
  <2>4. ASSUME NEW d \in Device, PullSave(d)
        PROVE  CoversIn(log'[e], r, rec'[e][r].vv)
    <3> DEFINE i  == sync[d].at
               op == serverLog[i]
    <3>1. /\ rec' = [rec EXCEPT ![d][op.record] = Resolve(sync[d].snap, op).record]
          /\ sync[d].pc = "save" /\ InPage(sync[d])
      BY <2>4 DEF PullSave, InPage
    <3>2. op \in Op /\ i \in DOMAIN serverLog /\ sync[d].snap \in Record
      BY <1>1, <3>1, PageOp DEF Sync
    <3>3. \A j \in 1 .. i : serverLog[j] \in log[d]
      <4>1. \A j \in 1 .. i : j \in 1 .. i - 1 \/ j = i
        BY <1>1, <3>2
      <4>. QED  BY <3>1, <4>1 DEF PageCovered
    <3>4. CoversIn(log[d], op.record, op.vv)
      BY <3>2, <3>3 DEF CausalLog, CoversIn
    <3>5. CoversIn(log[d], op.record, sync[d].snap.vv)
      BY <3>1 DEF RecordsCovered
    <3> HIDE DEF op
    <3>. QED  BY <2>2, <3>1, <3>2, <3>4, <3>5
  <2>. QED  BY <2>1, <2>3, <2>4, RecordSources
<1>4. ASSUME NEW e \in Device, sync'[e].pc = "save"
      PROVE  CoversIn(log'[e], serverLog'[sync'[e].at].record, sync'[e].snap.vv)
  <2>1. CASE sync'[e] = sync[e]
    <3>1. sync[e].at \in DOMAIN serverLog
      BY <1>4, <2>1, PageOp DEF InPage
    <3>2. serverLog'[sync[e].at] = serverLog[sync[e].at]
      BY <1>1, <3>1 DEF LogsGrow
    <3>. QED  BY <1>2, <1>4, <2>1, <3>2 DEF RecordsCovered
  <2>2. CASE PullLoad(e)
    <3> DEFINE op == serverLog[sync[e].at]
    <3>1. op \in Op /\ sync[e].at \in DOMAIN serverLog
      BY <2>2, PageOp DEF PullLoad, InPage
    <3>2. sync'[e].at = sync[e].at /\ sync'[e].snap = rec[e][op.record]
      BY <1>1, <2>2 DEF PullLoad, Sync
    <3>3. serverLog'[sync[e].at] = op /\ op.record \in RecordId
      BY <1>1, <3>1 DEF LogsGrow, Op
    <3> HIDE DEF op
    <3>4. CoversIn(log[e], op.record, rec[e][op.record].vv)
      BY <3>3 DEF RecordsCovered
    <3>. QED  BY <1>2, <3>2, <3>3, <3>4
  <2>. QED  BY <1>4, <2>1, <2>2, SnapSources
<1>5. ASSUME NEW e \in Device, write'[e].pc # "idle"
      PROVE  /\ CoversIn(log'[e], write'[e].record, write'[e].snap.vv)
             /\ write'[e].pc = "save" =>
                  \E op \in log'[e] : /\ op.id = <<e, written'[e]>>
                                      /\ op.record = write'[e].record
  <2>1. CASE write'[e] = write[e] /\ written'[e] = written[e]
    <3>1. log[e] \subseteq log'[e]
      BY <1>1 DEF LogsGrow
    <3>. QED  BY <1>2, <1>5, <2>1, <3>1 DEF RecordsCovered
  <2>2. CASE write'[e] = NoWrite
    BY <1>5, <2>2 DEF NoWrite
  <2>3. CASE WriteBegin(e)
    <3>1. PICK r \in RecordId, kind \in Kinds :
            write'[e] = [pc |-> "append", record |-> r, kind |-> kind, snap |-> rec[e][r]]
      BY <1>1, <2>3 DEF WriteBegin
    <3>2. CoversIn(log'[e], r, rec[e][r].vv)
      BY <1>2 DEF RecordsCovered
    <3>. QED  BY <3>1, <3>2
  <2>4. CASE WriteAppend(e)
    <3>1. PICK phys \in Time[e] :
            log' = [log EXCEPT ![e] = @ \cup {NewOp(e, Now(clock[e], phys, e))}]
      BY <2>4 DEF WriteAppend
    <3> DEFINE new == NewOp(e, Now(clock[e], phys, e))
    <3>2. new.id = <<e, written[e] + 1>> /\ new.record = write[e].record
      BY DEF NewOp
    <3> HIDE DEF new
    <3>3. new \in log'[e] /\ written'[e] = written[e] + 1
      BY <1>1, <2>4, <3>1 DEF WriteAppend, new
    <3>4. /\ write[e].pc = "append" /\ write[e] \in WriteInProgress
          /\ write'[e] = [write[e] EXCEPT !.pc = "save"]
      BY <1>1, <2>4 DEF WriteAppend, NoWrite
    <3>5. write'[e].record = write[e].record /\ write'[e].snap = write[e].snap
      BY <3>4 DEF WriteInProgress
    <3>6. CoversIn(log'[e], write[e].record, write[e].snap.vv)
      BY <1>2, <3>4 DEF RecordsCovered
    <3>. QED  BY <3>2, <3>3, <3>5, <3>6
  <2>. QED  BY <2>1, <2>2, <2>3, <2>4, WriteSources
<1>. QED  BY <1>3, <1>4, <1>5 DEF RecordsCovered

-----------------------------------------------------------------------------
LEMMA CausalStep == CausalInv /\ [Next]_vars => CausalInv'
<1> SUFFICES ASSUME CausalInv, [Next]_vars PROVE CausalInv'
  OBVIOUS
<1>1. /\ RefInv /\ RecordsCovered /\ OwnCovered /\ ForeignStored /\ CausalLog
      /\ TypeInv /\ OpsIdentified /\ PageCovered
  BY DEF CausalInv, RefInv, LogInv
<1>. QED  BY <1>1, RefStep, RecordsCoveredStep, OwnCoveredStep, ForeignStep, CausalLogStep
          DEF CausalInv

\* An op that counts c writes of a device to a record comes after all of them in
\* the server's log, so that no page shows a device an update before what it
\* updates (applyLocalWrite, UnpushedOps, handlePush, AppendOp).
THEOREM CausalLogAlways == Spec => []CausalLog
<1>1. CausalInv => CausalLog
  BY DEF CausalInv
<1>. QED  BY <1>1, CausalInit, CausalStep, PTL DEF Spec

=============================================================================
