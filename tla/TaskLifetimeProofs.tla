------------------------- MODULE TaskLifetimeProofs -------------------------
(***************************************************************************)
(* Theorems about one task's native lifetime, for every launch limit, every   *)
(* number of guardian runs and boots, and both scope assurances.              *)
(*                                                                         *)
(* First, the types and ExecutesAfterDurableLaunch are invariants.  Neither   *)
(* is inductive; LaunchInv (TaskLifetime) is, and one lemma per group of      *)
(* actions shows that the group preserves it.                                 *)
(*                                                                         *)
(* Then, what the durable records say is true and stays true, records are     *)
(* never taken back, and the lifetime keeps its contract.                     *)
(***************************************************************************)
EXTENDS TaskLifetime, TLAPS

(* The absent reply is a reply.                                               *)
LEMMA NoReplyType == NoReply \in Reply
  BY BoundsAssumption DEF NoReply, Reply, MessageTypes, Asked

(* The private state a guardian process starts from, and leaves behind.       *)
LEMMA IdleGuardianType == IdleGuardian \in GuardianState
  BY NoReplyType, BoundsAssumption DEF IdleGuardian, GuardianState, GuardianPCs, Causes

(* A fresh or finished worker process has no call, launch or error.           *)
LEMMA WorkerReset ==
  ASSUME NEW x \in WorkerPCs
  PROVE  [NoWorker EXCEPT !.pc = x] \in WorkerState
  <1>1. NoWorker \in WorkerState
    BY BoundsAssumption DEF NoWorker, WorkerState, WorkerPCs, Asked
  <1> QED BY <1>1 DEF WorkerState

(* recoverWithCause moves to the finalizer and keeps the launch bookkeeping.   *)
LEMMA RecoveringType ==
  ASSUME NEW s \in GuardianState
  PROVE  LET t == Recovering(s) IN
         /\ t \in GuardianState
         /\ t.pc = "term" /\ t.authorized = s.authorized /\ t.next = s.next
         /\ t.pending = s.pending
  BY DEF GuardianState, Recovering, GuardianPCs, Causes

(* terminateAndRecord moves to the finalizer, owing the given reply.          *)
LEMMA EnterTerminationType ==
  ASSUME g \in GuardianState, NEW c \in Causes, NEW r \in Reply, EnterTermination(c, r)
  PROVE  /\ g' \in GuardianState
         /\ g'.pc = "term" /\ g'.authorized = g.authorized /\ g'.next = g.next
         /\ g'.pending = r
  BY DEF GuardianState, EnterTermination, GuardianPCs

(* Sending a reply that promises nothing false keeps every promise.           *)
LEMMA AppendReply ==
  ASSUME rep \in Seq(Reply), NEW r \in Reply, RepliesPromise,
         rec.launches \in Nat, rec'.launches \in Nat, rec'.launches >= rec.launches, 
         r.ok /\ r.type = "begin" => r.seq \in Launches,
         r.ok /\ r.type = "started" => r.seq <= rec'.launches,
         rep' = Append(rep, r)
  PROVE  rep' \in Seq(Reply) /\ RepliesPromise'
  <1>1. rep' \in Seq(Reply) /\ DOMAIN rep' = 1 .. Len(rep) + 1
    OBVIOUS
  <1>2. \A i \in 1 .. Len(rep) : rep'[i] = rep[i]
    OBVIOUS
  <1>3. rep'[Len(rep) + 1] = r
    OBVIOUS
  <1>4. ASSUME NEW i \in DOMAIN rep'  PROVE Promises(rep[i])'
    <2>1. CASE i = Len(rep) + 1 BY <2>1, <1>3 DEF Promises
    <2>2. CASE i \in 1 .. Len(rep)
      <3>1. rep'[i] = rep[i] /\ Promises(rep[i]) /\ rep[i] \in Reply
        BY <2>2, <1>2 DEF RepliesPromise
      <3> QED BY <3>1, BoundsAssumption DEF Promises, Reply, Asked
    <2> QED BY <2>1, <2>2, <1>1
  <1> QED BY <1>1, <1>4 DEF RepliesPromise

(* Launch records only grow, so a reply in the channel stays true.            *)
LEMMA KeepReplies ==
  ASSUME rep \in Seq(Reply), RepliesPromise,
         rec.launches \in Nat, rec'.launches \in Nat, rec'.launches >= rec.launches, 
         rep' = rep
  PROVE  RepliesPromise'
  <1>1. ASSUME NEW i \in DOMAIN rep  PROVE Promises(rep[i])'
    <2>1. Promises(rep[i]) /\ rep[i] \in Reply
        BY DEF RepliesPromise
    <2> QED BY <2>1, BoundsAssumption DEF Promises, Reply, Asked
  <1> QED BY <1>1 DEF RepliesPromise

(* The reply a worker reads was sent with its promise, and so were the rest.  *)
LEMMA TakeReply ==
  ASSUME rep \in Seq(Reply), RepliesPromise, rec'.launches = rec.launches, rep # <<>>,
         rep' = Tail(rep)
  PROVE  rep' \in Seq(Reply) /\ RepliesPromise' /\ Promises(Head(rep)) /\ Head(rep) \in Reply
  <1>1. rep' \in Seq(Reply) /\ Head(rep) \in Reply /\ Head(rep) = rep[1] /\ 1 \in DOMAIN rep
    OBVIOUS
  <1>2. \A i \in DOMAIN rep' : i + 1 \in DOMAIN rep /\ rep'[i] = rep[i+1]
    OBVIOUS
  <1> QED BY <1>1, <1>2 DEF RepliesPromise, Promises

(* A step that lets no process past its gate executes nothing new.            *)
LEMMA KeepProcesses ==
  ASSUME ExecutesAfterDurableLaunch, BoundsAssumption,
         rec.launches \in Nat, rec'.launches \in Nat, rec'.launches >= rec.launches, 
         \A s \in Launches : proc'[s] \in {"released", "running", "residual"} => 
              proc[s] \in {"released", "running", "residual"}
  PROVE  ExecutesAfterDurableLaunch'
  BY DEF ExecutesAfterDurableLaunch, Launches

(* Terminating the scope lets no process past its gate.                       *)
LEMMA KillProcesses ==
  ASSUME proc \in [Launches -> ProcStates], proc' \in {proc, Killed}
  PROVE  /\ proc' \in [Launches -> ProcStates]
         /\ \A s \in Launches : proc'[s] \in {"released", "running", "residual"} => 
              proc[s] \in {"released", "running", "residual"}
  BY DEF Killed, ProcStates

(* Guardian steps at which the launch order asks nothing of the records.      *)
SettledPCs == {"idle", "owned", "intent", "unrecorded", "term", "publish",
               "await", "wait", "destroy", "release"}

(* A guardian that moves to such a step and forgets or keeps its bookkeeping. *)
LEMMA Settle ==
  ASSUME CommitOrder, GuardianOrder,
         rec'.launches = rec.launches, rec'.intent = rec.intent,
         rec'.registration = rec.registration,
         g'.pc \in SettledPCs, g'.pc # "idle" => run' # 0,
         g'.authorized # 0 => g'.authorized = g.authorized /\ g'.next = g.next,
         g'.pending \in {g.pending, NoReply}
  PROVE  CommitOrder' /\ GuardianOrder'
  <1>1. CommitOrder'
    BY DEF CommitOrder, SettledPCs, HasIntent, HasRegistration
  <1>2. GuardianOrder'
    BY DEF GuardianOrder, SettledPCs, NoReply
  <1> QED BY <1>1, <1>2

(* A step that leaves the worker, the replies, the processes and the launch   *)
(* records alone has only the guardian's own bookkeeping to keep.             *)
LEMMA GuardianFrame ==
  ASSUME LaunchInv, TypeOK', CommitOrder', GuardianOrder',
         UNCHANGED <<w, rep, proc>>, rec'.launches = rec.launches
  PROVE  LaunchInv'
  BY DEF LaunchInv, RepliesPromise, Promises, WorkerOrder,
         ExecutesAfterDurableLaunch

(* Startup: the intent precedes the scope, the scope the registration, the    *)
(* registration the worker and the worker's record every launch.              *)
LEMMA StartupKeepsLaunchInv ==
  ASSUME LaunchInv, GuardianStartup
  PROVE  LaunchInv'
  <1>t. TypeOK /\ CommitOrder /\ GuardianOrder /\ RepliesPromise /\ WorkerOrder /\ ExecutesAfterDurableLaunch
    BY DEF LaunchInv
  <1>g. g \in GuardianState /\ rec \in Evidence /\ run \in 0 .. MaxRuns /\ boot \in Boots
    BY <1>t DEF TypeOK
  <1>s. ThisRun \in Stamp /\ ThisRun.run = run /\ rec.launches \in Nat
    BY <1>g, BoundsAssumption DEF ThisRun, Stamp, Boots, Evidence
  <1>i. IdleGuardian.pc = "idle" /\ IdleGuardian.authorized = 0 /\ IdleGuardian.pending = NoReply
    BY DEF IdleGuardian
  <1> USE DEF GuardianPCs
  <1>1. ASSUME RefuseTerminalReplay PROVE LaunchInv'
    <2>1. g' = IdleGuardian /\ UNCHANGED <<rec, w, rep, proc>>
      BY <1>1 DEF RefuseTerminalReplay, EndRun, durable, native, channel
    <2>2. TypeOK'
      BY <1>t, <1>1, <2>1, IdleGuardianType
         DEF RefuseTerminalReplay, EndRun, durable, native, channel, TypeOK
    <2>3. CommitOrder' /\ GuardianOrder'
      BY <1>t, <1>i, <2>1, Settle DEF SettledPCs
    <2> QED BY <2>1, <2>2, <2>3, GuardianFrame
  <1>2. ASSUME RecoverExpiredStart PROVE LaunchInv'
    <2>1. g' = IdleGuardian /\ UNCHANGED <<rec, w, rep, proc>>
      BY <1>2 DEF RecoverExpiredStart, durable, native, channel
    <2>2. rpc' \in RecoveryPCs /\ owner' \in {"none", "recovery"}
      BY <1>t, <1>2 DEF RecoverExpiredStart, TypeOK, RecoveryStep, RecoveryPCs
    <2>3. TypeOK'
      BY <1>t, <1>2, <2>1, <2>2, IdleGuardianType
         DEF RecoverExpiredStart, durable, native, channel, TypeOK
    <2>4. CommitOrder' /\ GuardianOrder'
      BY <1>t, <1>i, <2>1, Settle DEF SettledPCs
    <2> QED BY <2>1, <2>3, <2>4, GuardianFrame
  <1>3. ASSUME PermitIntent PROVE LaunchInv'
    <2>1. g' = [g EXCEPT !.pc = "intent"] /\ g.pc # "idle" /\ UNCHANGED <<rec, run, w, rep, proc>>
      BY <1>3 DEF PermitIntent, At, durable, native, channel
    <2>2. g' \in GuardianState /\ g'.pc = "intent" /\ g'.authorized = g.authorized
          /\ g'.next = g.next /\ g'.pending = g.pending
      BY <1>g, <2>1 DEF GuardianState
    <2>3. TypeOK'
      BY <1>t, <1>3, <2>2 DEF PermitIntent, durable, native, channel, TypeOK
    <2>4. run' # 0
      BY <1>t, <2>1 DEF CommitOrder
    <2>5. CommitOrder' /\ GuardianOrder'
      BY <1>t, <2>1, <2>2, <2>4, Settle DEF SettledPCs
    <2> QED BY <2>1, <2>3, <2>5, GuardianFrame
  <1>4. ASSUME RecordIntent PROVE LaunchInv'
    <2>1. UNCHANGED <<run, w, rep, proc>> /\ g.pc = "intent" /\ run # 0
      BY <1>4, <1>t DEF RecordIntent, At, native, channel, CommitOrder
    <2>2. rec' = rec \/ (~HasIntent(rec) /\ rec' = [rec EXCEPT !.intent = ThisRun])
      BY <1>4 DEF RecordIntent
    <2>3. /\ rec' \in Evidence /\ rec'.launches = rec.launches
          /\ rec'.registration = rec.registration
          /\ rec'.intent = rec.intent \/ (~HasIntent(rec) /\ rec'.intent = ThisRun)
      BY <1>g, <1>s, <2>2 DEF Evidence
    <2>4. \/ g' = IdleGuardian
          \/ g' = [g EXCEPT !.pc = "create"] /\ ~HasIntent(rec) /\ rec'.intent = ThisRun
      BY <1>g, <1>4 DEF RecordIntent, EndRun, Evidence
    <2>5. /\ g' \in GuardianState
          /\ \/ g'.pc = "idle" /\ g'.authorized = 0 /\ g'.pending = NoReply
             \/ /\ ~HasIntent(rec) /\ rec'.intent = ThisRun
                /\ g'.pc = "create" /\ g'.authorized = g.authorized
                /\ g'.next = g.next /\ g'.pending = g.pending
      <3>1. CASE g' = IdleGuardian BY <3>1, <1>i, IdleGuardianType
      <3>2. CASE g' = [g EXCEPT !.pc = "create"] /\ ~HasIntent(rec) /\ rec'.intent = ThisRun
        BY <3>2, <1>g DEF GuardianState
      <3> QED BY <2>4, <3>1, <3>2
    <2>6. TypeOK'
      BY <1>t, <1>4, <2>3, <2>5 DEF RecordIntent, EndRun, native, channel, TypeOK
    <2>7. CommitOrder'
      BY <1>t, <1>s, <2>1, <2>3, <2>5 DEF CommitOrder, HasIntent, HasRegistration
    <2>8. GuardianOrder'
      BY <1>t, <2>5 DEF GuardianOrder, NoReply
    <2> QED BY <2>1, <2>3, <2>6, <2>7, <2>8, GuardianFrame
  <1>5. ASSUME CreateScope PROVE LaunchInv'
    <2>1. UNCHANGED <<rec, run, w, rep, proc>> /\ g.pc = "create" /\ run # 0
      BY <1>5, <1>t DEF CreateScope, At, durable, channel, CommitOrder
    <2>2. g' = IdleGuardian \/ g' = [g EXCEPT !.pc = "register"]
      BY <1>5 DEF CreateScope, EndRun
    <2>3. /\ g' \in GuardianState
          /\ \/ g'.pc = "idle" /\ g'.authorized = 0 /\ g'.pending = NoReply
             \/ /\ g'.pc = "register" /\ g'.authorized = g.authorized
                /\ g'.next = g.next /\ g'.pending = g.pending
      <3>1. CASE g' = IdleGuardian BY <3>1, <1>i, IdleGuardianType
      <3>2. CASE g' = [g EXCEPT !.pc = "register"] BY <3>2, <1>g DEF GuardianState
      <3> QED BY <2>2, <3>1, <3>2
    <2>4. scope' \in BOOLEAN /\ owner' \in {owner, "none"}
      BY <1>t, <1>5 DEF CreateScope, EndRun, TypeOK, Exact
    <2>5. TypeOK'
      BY <1>t, <1>5, <2>3, <2>4 DEF CreateScope, durable, channel, TypeOK
    <2>6. CommitOrder'
      BY <1>t, <2>1, <2>3 DEF CommitOrder, HasIntent, HasRegistration
    <2>7. GuardianOrder'
      BY <1>t, <2>3 DEF GuardianOrder, NoReply
    <2> QED BY <2>1, <2>5, <2>6, <2>7, GuardianFrame
  <1>6. ASSUME BindAndRecordRunScope PROVE LaunchInv'
    <2>1. UNCHANGED <<run, w, rep, proc>> /\ g.pc = "register" /\ run # 0
      BY <1>6, <1>t DEF BindAndRecordRunScope, At, native, channel, CommitOrder
    <2>2. rec' = rec \/ rec' = [rec EXCEPT !.registration = ThisRun]
      BY <1>6 DEF BindAndRecordRunScope
    <2>3. /\ rec' \in Evidence /\ rec'.launches = rec.launches /\ rec'.intent = rec.intent
          /\ rec'.registration = rec.registration \/ rec'.registration = ThisRun
      BY <1>g, <1>s, <2>2 DEF Evidence
    <2>4. PICK x \in {"resolve", "start"} :
             g' = [g EXCEPT !.pc = x] /\ (x = "start" => rec'.registration = ThisRun)
      BY <1>6, <1>g DEF BindAndRecordRunScope, Evidence
    <2>5. /\ g' \in GuardianState
          /\ g'.pc \in {"resolve", "start"} /\ g'.authorized = g.authorized
          /\ g'.pc = "start" => rec'.registration = ThisRun
          /\ g'.next = g.next /\ g'.pending = g.pending
      BY <2>4, <1>g DEF GuardianState
    <2>6. TypeOK'
      BY <1>t, <1>6, <2>3, <2>5 DEF BindAndRecordRunScope, native, channel, TypeOK
    <2>7. CommitOrder'
      BY <1>t, <1>s, <2>1, <2>3, <2>5 DEF CommitOrder, HasIntent, HasRegistration
    <2>8. GuardianOrder'
      BY <1>t, <2>5 DEF GuardianOrder
    <2> QED BY <2>1, <2>3, <2>6, <2>7, <2>8, GuardianFrame
  <1>7. ASSUME ResolveCreatedScopeFailure PROVE LaunchInv'
    <2>1. UNCHANGED <<rec, run, w, rep, proc>> /\ g.pc = "resolve" /\ run # 0
      BY <1>7, <1>t DEF ResolveCreatedScopeFailure, At, durable, channel, CommitOrder
    <2>2. EnterTermination("recovery", NoReply) \/ g' = [g EXCEPT !.pc = "release"]
      BY <1>7 DEF ResolveCreatedScopeFailure
    <2>3. /\ g' \in GuardianState
          /\ g'.pc \in {"term", "release"} /\ g'.authorized = g.authorized
          /\ g'.next = g.next /\ g'.pending \in {g.pending, NoReply}
      <3>1. CASE EnterTermination("recovery", NoReply)
        BY <3>1, <1>g, EnterTerminationType, NoReplyType DEF Causes
      <3>2. CASE g' = [g EXCEPT !.pc = "release"] BY <3>2, <1>g DEF GuardianState
      <3> QED BY <2>2, <3>1, <3>2
    <2>4. scope' \in BOOLEAN
      BY <1>t, <1>7 DEF ResolveCreatedScopeFailure, TypeOK
    <2>5. TypeOK'
      BY <1>t, <1>7, <2>3, <2>4 DEF ResolveCreatedScopeFailure, durable, channel, TypeOK
    <2>6. CommitOrder' /\ GuardianOrder'
      BY <1>t, <2>1, <2>3, Settle DEF SettledPCs
    <2> QED BY <2>1, <2>5, <2>6, GuardianFrame
  <1>8. ASSUME StartWorker PROVE LaunchInv'
    <2>1. UNCHANGED <<rec, run, rep, proc>> /\ g.pc = "start" /\ run # 0 /\ rec.launches = 0
      BY <1>8, <1>t DEF StartWorker, At, durable, native, CommitOrder
    <2>2. \/ g' = [g EXCEPT !.pc = "observe", !.started = TRUE]
          \/ EnterTermination("budget", NoReply) \/ EnterTermination("recovery", NoReply)
      BY <1>8 DEF StartWorker
    <2>3. /\ g' \in GuardianState
          /\ g'.pc \in {"term", "observe"} /\ g'.authorized = g.authorized
          /\ g'.next = g.next /\ g'.pending \in {g.pending, NoReply}
      <3>1. CASE EnterTermination("budget", NoReply) \/ EnterTermination("recovery", NoReply)
        BY <3>1, <1>g, EnterTerminationType, NoReplyType DEF Causes
      <3>2. CASE g' = [g EXCEPT !.pc = "observe", !.started = TRUE] BY <3>2, <1>g DEF GuardianState
      <3> QED BY <2>2, <3>1, <3>2
    <2>4. w' \in WorkerState /\ conn' \in BOOLEAN /\ WorkerOrder'
      <3>1. CASE w' = [NoWorker EXCEPT !.pc = "boot"] /\ conn' = TRUE
        <4>1. w' \in WorkerState
          BY <3>1, WorkerReset DEF WorkerPCs
        <4> QED BY <4>1, <3>1 DEF WorkerOrder, NoWorker
      <3>2. CASE UNCHANGED <<w, conn>> BY <3>2, <1>t DEF TypeOK, WorkerOrder
      <3> QED BY <1>8, <3>1, <3>2 DEF StartWorker
    <2>5. TypeOK'
      BY <1>t, <1>8, <2>3, <2>4 DEF StartWorker, durable, native, TypeOK
    <2>6. CommitOrder'
      BY <1>t, <2>1, <2>3 DEF CommitOrder, HasIntent, HasRegistration
    <2>7. GuardianOrder'
      BY <1>t, <2>1, <2>3 DEF GuardianOrder, NoReply
    <2>8. RepliesPromise' /\ ExecutesAfterDurableLaunch'
      BY <1>t, <2>1 DEF RepliesPromise, Promises, ExecutesAfterDurableLaunch
    <2> QED BY <2>4, <2>5, <2>6, <2>7, <2>8 DEF LaunchInv
  <1>9. ASSUME ObserveWorker PROVE LaunchInv'
    <2>1. UNCHANGED <<rec, run, w, rep, proc>> /\ g.pc = "observe" /\ run # 0
      BY <1>9, <1>t DEF ObserveWorker, At, durable, native, CommitOrder
    <2>2. PICK x \in {"record", "unrecorded"} : g' = [g EXCEPT !.pc = x]
      BY <1>9 DEF ObserveWorker
    <2>3. /\ g' \in GuardianState
          /\ g'.pc \in {"record", "unrecorded"} /\ g'.authorized = g.authorized
          /\ g'.next = g.next /\ g'.pending = g.pending
      BY <2>2, <1>g DEF GuardianState
    <2>4. TypeOK'
      BY <1>t, <1>9, <2>3 DEF ObserveWorker, durable, native, TypeOK
    <2>5. CommitOrder'
      BY <1>t, <2>1, <2>3 DEF CommitOrder, HasIntent, HasRegistration
    <2>6. GuardianOrder'
      BY <1>t, <2>3 DEF GuardianOrder
    <2> QED BY <2>1, <2>4, <2>5, <2>6, GuardianFrame
  <1>10. ASSUME PersistWorkerIdentity PROVE LaunchInv'
    <2>1. UNCHANGED <<run, w, rep, proc>> /\ g.pc = "record" /\ run # 0 /\ rec.launches = 0
      BY <1>10, <1>t DEF PersistWorkerIdentity, At, native, channel, CommitOrder
    <2>2. /\ rec' \in Evidence /\ rec'.launches = rec.launches
          /\ rec'.intent = rec.intent /\ rec'.registration = rec.registration
      BY <1>10, <1>g DEF PersistWorkerIdentity, Evidence
    <2>3. /\ g' \in GuardianState
          /\ g'.pc \in {"record", "serve"} /\ g'.authorized = g.authorized
          /\ g'.next = g.next /\ g'.pending = g.pending
      BY <1>10, <2>1, <1>g DEF PersistWorkerIdentity, GuardianState
    <2>4. TypeOK'
      BY <1>t, <1>10, <2>2, <2>3 DEF PersistWorkerIdentity, native, channel, TypeOK
    <2>5. CommitOrder'
      BY <1>t, <2>1, <2>2, <2>3 DEF CommitOrder, HasIntent, HasRegistration
    <2>6. g'.next \in Nat
      BY <2>3, BoundsAssumption DEF GuardianState
    <2>7. GuardianOrder'
      BY <1>t, <2>1, <2>2, <2>3, <2>6 DEF GuardianOrder
    <2> QED BY <2>1, <2>2, <2>4, <2>5, <2>7, GuardianFrame
  <1>11. ASSUME PersistUnrecordedWait PROVE LaunchInv'
    <2>1. UNCHANGED <<run, w, rep, proc>> /\ g.pc = "unrecorded" /\ run # 0
      BY <1>11, <1>t DEF PersistUnrecordedWait, At, native, channel, CommitOrder
    <2>2. /\ rec' \in Evidence /\ rec'.launches = rec.launches
          /\ rec'.intent = rec.intent /\ rec'.registration = rec.registration
      BY <1>11, <1>g DEF PersistUnrecordedWait, Evidence, WaitResults
    <2>3. /\ g' \in GuardianState
          /\ g'.pc = "term" /\ g'.authorized = g.authorized
          /\ g'.next = g.next /\ g'.pending = g.pending
      BY <1>11, <1>g DEF PersistUnrecordedWait, GuardianState, Causes
    <2>4. TypeOK'
      BY <1>t, <1>11, <2>2, <2>3 DEF PersistUnrecordedWait, native, channel, TypeOK
    <2>5. CommitOrder' /\ GuardianOrder'
      BY <1>t, <2>1, <2>2, <2>3, Settle DEF SettledPCs
    <2> QED BY <2>1, <2>2, <2>4, <2>5, GuardianFrame
  <1> QED BY <1>1, <1>2, <1>3, <1>4, <1>5, <1>6, <1>7, <1>8, <1>9, <1>10, <1>11
       DEF GuardianStartup

(* reply/reject of a served request.                                          *)
LEMMA AnswerKeepsReplies ==
  ASSUME rep \in Seq(Reply), RepliesPromise, rec'.launches = rec.launches,
         rec.launches \in Nat,
         NEW s \in GuardianState, NEW m \in Request, NEW ok \in BOOLEAN,
         Answer(s, m, ok),
         ok /\ m.type = "begin" => m.seq \in Launches,
         ok /\ m.type = "started" => m.seq <= rec.launches
  PROVE  /\ rep' \in Seq(Reply) /\ RepliesPromise'
         /\ g' \in GuardianState /\ g'.pc \in {s.pc, "term"}
         /\ g'.authorized = s.authorized /\ g'.next = s.next
         /\ g'.pending = s.pending
  <1>1. ReplyTo(m, ok) \in Reply /\ ReplyTo(m, ok).ok = ok
        /\ ReplyTo(m, ok).type = m.type /\ ReplyTo(m, ok).seq = m.seq
    BY DEF ReplyTo, Reply, Request
  <1>2. CASE conn BY <1>1, <1>2, AppendReply DEF Answer
  <1>3. CASE ~conn BY <1>3, KeepReplies, RecoveringType DEF Answer
  <1> QED BY <1>2, <1>3

(* A refusal that ends serving.                                               *)
LEMMA RejectKeepsReplies ==
  ASSUME rep \in Seq(Reply), RepliesPromise, rec'.launches >= rec.launches,
         rec.launches \in Nat, rec'.launches \in Nat,
         NEW s \in GuardianState, NEW m \in Request, RejectAndRecover(s, m)
  PROVE  /\ rep' \in Seq(Reply) /\ RepliesPromise'
         /\ g' \in GuardianState /\ g'.pc = "term"
         /\ g'.authorized = s.authorized /\ g'.next = s.next
         /\ g'.pending = s.pending
  <1>1. ReplyTo(m, FALSE) \in Reply /\ ~ReplyTo(m, FALSE).ok
    BY DEF ReplyTo, Reply, Request
  <1>2. rep' \in Seq(Reply) /\ RepliesPromise'
    BY <1>1, AppendReply, KeepReplies DEF RejectAndRecover
  <1> QED BY <1>2, RecoveringType DEF RejectAndRecover

(* While serving, an answered request leaves the guardian serving or ending. *)
LEMMA ServeOrder ==
  ASSUME CommitOrder, GuardianOrder, g.pc \in {"serve", "launched"}, run' = run,
         rec' = rec, g'.pc \in {"serve", "term"}, rec.launches <= g'.next,
         g'.authorized # 0 => g'.authorized = g'.next, g'.pending = g.pending
  PROVE  CommitOrder' /\ GuardianOrder'
  <1>1. CommitOrder'
    BY DEF CommitOrder, HasIntent, HasRegistration
  <1>2. GuardianOrder'
    BY DEF GuardianOrder
  <1> QED BY <1>1, <1>2

(* Serving: what is authorized is the next sequence, what is recorded was     *)
(* authorized, and what is acknowledged is recorded.                          *)
LEMMA ControlKeepsLaunchInv ==
  ASSUME LaunchInv, GuardianControl \/ ServeFault
  PROVE  LaunchInv'
  <1>t. TypeOK /\ CommitOrder /\ GuardianOrder /\ RepliesPromise /\ WorkerOrder
        /\ ExecutesAfterDurableLaunch
    BY DEF LaunchInv
  <1>g. /\ g \in GuardianState /\ rec \in Evidence /\ proc \in [Launches -> ProcStates]
        /\ req \in Seq(Request) /\ rep \in Seq(Reply)
    BY <1>t DEF TypeOK
  <1>n. /\ rec.launches \in Nat /\ g.next \in Nat /\ g.authorized \in 0 .. MaxLaunches
        /\ g.pc \in {"serve", "launched"} => rec.launches <= g.next
        /\ g.authorized # 0 => g.authorized = g.next
    BY <1>t, <1>g, BoundsAssumption DEF Evidence, GuardianState, GuardianOrder
  <1>m. req # <<>> => Head(req) \in Request /\ Tail(req) \in Seq(Request)
    BY <1>g
  <1> DEFINE m == Head(req)
  <1> HIDE DEF m
  <1>a. ASSUME g.pc \in {"serve", "launched"}, req # <<>>, req' = Tail(req),
               NEW s \in GuardianState, NEW ok \in BOOLEAN, Answer(s, m, ok),
               ok /\ m.type = "begin" => m.seq \in Launches,
               ok /\ m.type = "started" => m.seq <= rec.launches,
               s.pc \in {"serve", "term"}, s.next >= rec.launches,
               s.authorized # 0 => s.authorized = s.next, s.pending = g.pending,
               UNCHANGED <<durable, owner, boot, scope, run, expired, w, conn, rpc>>,
               proc' \in {proc, Killed}
        PROVE  LaunchInv'
    <2>1. m \in Request /\ Tail(req) \in Seq(Request)
      BY <1>a, <1>m DEF m
    <2>2. rec' = rec /\ run' = run /\ w' = w
      BY <1>a DEF durable
    <2>3. /\ rep' \in Seq(Reply) /\ RepliesPromise'
          /\ g' \in GuardianState /\ g'.pc \in {s.pc, "term"}
          /\ g'.authorized = s.authorized /\ g'.next = s.next
          /\ g'.pending = s.pending
      BY <1>a, <2>1, <2>2, <1>t, <1>g, <1>n, AnswerKeepsReplies
    <2>4. CommitOrder' /\ GuardianOrder'
      <3>1. /\ g'.pc \in {"serve", "term"} /\ rec.launches <= g'.next
            /\ g'.authorized # 0 => g'.authorized = g'.next
            /\ g'.pending = g.pending
        <4>1. s.next \in Nat
          BY BoundsAssumption DEF GuardianState
        <4> QED BY <4>1, <1>a, <1>n, <2>3
      <3> QED BY <3>1, <1>a, <1>t, <2>2, ServeOrder
    <2>5. proc' \in [Launches -> ProcStates] /\ ExecutesAfterDurableLaunch'
      BY <1>a, <1>g, <1>t, <1>n, <2>2, KillProcesses, KeepProcesses, BoundsAssumption
    <2>6. TypeOK'
      BY <1>a, <1>t, <2>1, <2>2, <2>3, <2>5 DEF TypeOK, durable
    <2> QED BY <1>t, <2>2, <2>3, <2>4, <2>5, <2>6 DEF LaunchInv, WorkerOrder
  <1>r. ASSUME g.pc = "serve", UNCHANGED <<durable, owner, native, run, expired, w, conn, rpc>>,
               UNCHANGED rep, req' = req \/ (req # <<>> /\ req' = Tail(req)),
               g' \in GuardianState, g'.pc = "term",
               g'.authorized = g.authorized, g'.next = g.next,
               g'.pending = g.pending \/ g'.pending.type \in {"none", "begin", "stop", "close"},
               g'.pending = g.pending \/ (g'.pending.type = "begin" => ~g'.pending.ok)
        PROVE  LaunchInv'
    <2>1. UNCHANGED <<rec, run, w, proc>>
      BY <1>r DEF durable, native
    <2>2. req' \in Seq(Request)
      BY <1>r, <1>g, <1>m
    <2>3. TypeOK'
      BY <1>r, <1>t, <2>2 DEF TypeOK, durable, native
    <2>4. CommitOrder'
      BY <1>r, <1>t, <2>1 DEF CommitOrder, HasIntent, HasRegistration
    <2>5. GuardianOrder'
      BY <1>r, <1>t, <2>1 DEF GuardianOrder
    <2> QED BY <1>r, <2>1, <2>3, <2>4, <2>5, GuardianFrame
  <1>1. ASSUME HandleHello PROVE LaunchInv'
    <2> DEFINE s == [g EXCEPT !.hello = TRUE]
    <2>1. /\ s \in GuardianState /\ s.pc = g.pc /\ s.next = g.next
          /\ s.authorized = g.authorized /\ s.pending = g.pending
          /\ g.hello \in BOOLEAN
      BY <1>g DEF GuardianState
    <2>2. g.pc = "serve" /\ req # <<>> /\ m.type = "hello" /\ req' = Tail(req)
          /\ UNCHANGED <<durable, owner, boot, scope, run, expired, w, conn, rpc>>
          /\ proc' = proc
      BY <1>1 DEF HandleHello, Serving, At, m, native
    <2>3. Answer(s, m, ~g.hello)
      BY <1>1 DEF HandleHello, m
    <2> HIDE DEF s
    <2> QED BY <2>1, <2>2, <2>3, <1>n, <1>a
  <1>2. ASSUME HandleBegin PROVE LaunchInv'
    <2>1. g.pc = "serve" /\ req # <<>> /\ m.type = "begin" /\ req' = Tail(req)
          /\ UNCHANGED <<durable, owner, boot, scope, run, expired, w, conn, rpc>>
          /\ proc' = proc
      BY <1>2 DEF HandleBegin, Serving, At, m, native
    <2>2. m \in Request
      BY <2>1, <1>m DEF m
    <2>3. CASE Answer(g, m, FALSE) BY <2>1, <2>3, <1>g, <1>n, <1>a
    <2>4. CASE EnterTermination("budget", ReplyTo(m, FALSE)) /\ UNCHANGED rep
      <3>1. ReplyTo(m, FALSE) \in Reply /\ ReplyTo(m, FALSE).type = "begin"
            /\ ~ReplyTo(m, FALSE).ok
        BY <2>1, <2>2 DEF ReplyTo, Reply, Request
      <3>2. /\ g' \in GuardianState
            /\ g'.pc = "term" /\ g'.authorized = g.authorized /\ g'.next = g.next
            /\ g'.pending = ReplyTo(m, FALSE)
        BY <2>4, <3>1, <1>g, EnterTerminationType DEF Causes
      <3> QED BY <2>1, <2>4, <3>1, <3>2, <1>r DEF native
    <2>5. CASE /\ ReadyToBegin /\ InLaunchOrder(m)
               /\ Answer([g EXCEPT !.next = m.seq, !.authorized = m.seq], m, TRUE)
      <3> DEFINE s == [g EXCEPT !.next = m.seq, !.authorized = m.seq]
      <3>1. m.seq = g.next + 1 /\ m.seq \in Launches
        BY <2>5, <1>n DEF InLaunchOrder, Launches
      <3>2. /\ s \in GuardianState /\ s.pc = g.pc /\ s.next = m.seq
            /\ s.authorized = m.seq /\ s.pending = g.pending
        <4> DEFINE k == m.seq
        <4>1. k \in 0 .. MaxLaunches
          BY <3>1 DEF Launches
        <4> HIDE DEF k
        <4>2. LET t == [g EXCEPT !.next = k, !.authorized = k] IN
              /\ t \in GuardianState /\ t.pc = g.pc /\ t.next = k
              /\ t.authorized = k /\ t.pending = g.pending
          BY <1>g, <4>1 DEF GuardianState
        <4> QED BY <4>2 DEF k
      <3>3. s.next >= rec.launches
        BY <1>n, <2>1, <3>1, <3>2
      <3>4. Answer(s, m, TRUE)
        BY <2>5
      <3> HIDE DEF s
      <3> QED BY <2>1, <3>1, <3>2, <3>3, <3>4, <1>a
    <2> QED BY <1>2, <2>3, <2>4, <2>5 DEF HandleBegin, m
  <1>3. ASSUME HandleStarted \/ RejectStartedLaunch PROVE LaunchInv'
    <2>1. g.pc = "serve" /\ req # <<>> /\ m.type = "started"
          /\ UNCHANGED <<stop, proven, owner, boot, scope, run, expired, w, conn, rpc>>
      BY <1>3 DEF HandleStarted, RejectStartedLaunch, Serving, At, m, native
    <2>2. m \in Request
      BY <2>1, <1>m DEF m
    <2>3. CASE Answer(g, m, FALSE) /\ req' = Tail(req) /\ UNCHANGED <<rec, proc>>
      <3>1. UNCHANGED durable
        BY <2>1, <2>3 DEF durable
      <3> QED BY <2>1, <2>3, <3>1, <1>g, <1>n, <1>a
    <2>4. ASSUME ReadyToAcknowledge(m), m.seq \in Live, rec' \in {rec, [rec EXCEPT !.launches = m.seq]}
          PROVE  /\ rec' \in Evidence /\ rec'.intent = rec.intent
                 /\ rec'.registration = rec.registration
                 /\ rec'.launches >= rec.launches /\ rec'.launches \in Nat
                 /\ m.seq \in Launches /\ g.authorized = m.seq /\ g.next = m.seq
      <3>1. m.seq \in Launches /\ g.authorized = m.seq
        BY <2>4 DEF ReadyToAcknowledge, Live
      <3>2. g.next = m.seq /\ m.seq >= rec.launches
        BY <3>1, <2>1, <1>n DEF Launches
      <3>3. rec' \in Evidence /\ rec'.intent = rec.intent /\ rec'.registration = rec.registration
            /\ rec'.launches \in {rec.launches, m.seq}
        BY <3>1, <2>4, <1>g DEF Evidence, Launches
      <3> QED BY <3>1, <3>2, <3>3, <1>n DEF Launches
    <2>5. CASE /\ ReadyToAcknowledge(m) /\ m.seq \in Live
               /\ RecordLaunch(m) /\ g' = [g EXCEPT !.pc = "launched"]
               /\ UNCHANGED <<req, rep, proc>>
      <3>1. rec' = [rec EXCEPT !.launches = m.seq]
        BY <2>5 DEF RecordLaunch
      <3>2. /\ rec' \in Evidence /\ rec'.intent = rec.intent
            /\ rec'.registration = rec.registration
            /\ rec'.launches >= rec.launches /\ rec'.launches \in Nat
            /\ m.seq \in Launches /\ g.authorized = m.seq /\ g.next = m.seq
        BY <2>4, <2>5, <3>1
      <3>3. rec'.launches = m.seq
        BY <3>1, <1>g DEF Evidence
      <3>4. /\ g' \in GuardianState /\ g'.pc = "launched" /\ g'.authorized = g.authorized
            /\ g'.next = g.next /\ g'.pending = g.pending
        BY <2>5, <1>g DEF GuardianState, GuardianPCs
      <3>5. TypeOK'
        BY <1>t, <2>1, <2>5, <3>2, <3>4 DEF TypeOK
      <3>6. CommitOrder'
        BY <1>t, <2>1, <3>2, <3>4 DEF CommitOrder, HasIntent, HasRegistration
      <3>7. GuardianOrder'
        BY <1>t, <2>1, <2>5, <3>2, <3>3, <3>4 DEF GuardianOrder, m, Launches
      <3>8. RepliesPromise'
        BY <1>t, <1>g, <1>n, <2>5, <3>2, KeepReplies
      <3>9. ExecutesAfterDurableLaunch'
        BY <1>t, <1>n, <2>5, <3>2, KeepProcesses, BoundsAssumption
      <3> QED BY <1>t, <2>1, <3>5, <3>6, <3>7, <3>8, <3>9 DEF LaunchInv, WorkerOrder
    <2>6. ASSUME rec' \in Evidence, rec'.intent = rec.intent,
                 rec'.registration = rec.registration, rec'.launches >= rec.launches,
                 rec'.launches \in Nat, proc' \in {proc, Killed}, req' = Tail(req),
                 rep' \in Seq(Reply), RepliesPromise',
                 g' \in GuardianState, g'.pc = "term",
                 g'.authorized \in {0, g.authorized}, g'.next = g.next, g'.pending = g.pending
          PROVE  LaunchInv'
      <3>1. proc' \in [Launches -> ProcStates] /\ ExecutesAfterDurableLaunch'
        BY <2>6, <1>g, <1>t, <1>n, KillProcesses, KeepProcesses, BoundsAssumption
      <3>2. TypeOK'
        BY <1>t, <1>m, <2>1, <2>6, <3>1 DEF TypeOK
      <3>3. CommitOrder'
        BY <1>t, <2>1, <2>6 DEF CommitOrder, HasIntent, HasRegistration
      <3>4. GuardianOrder'
        BY <1>t, <1>n, <2>6 DEF GuardianOrder
      <3> QED BY <1>t, <2>1, <2>6, <3>1, <3>2, <3>3, <3>4 DEF LaunchInv, WorkerOrder
    <2>7. CASE RejectAndRecover(g, m) /\ req' = Tail(req) /\ UNCHANGED <<rec, proc>>
      <3>1. /\ rep' \in Seq(Reply) /\ RepliesPromise'
            /\ g' \in GuardianState /\ g'.pc = "term"
            /\ g'.authorized = g.authorized /\ g'.next = g.next /\ g'.pending = g.pending
        BY <2>2, <2>7, <1>t, <1>g, <1>n, RejectKeepsReplies
      <3> QED BY <2>6, <2>7, <3>1, <1>g, <1>n
    <2>8. CASE RejectStartedLaunch
      <3>1. /\ rec' \in Evidence /\ rec'.intent = rec.intent
            /\ rec'.registration = rec.registration
            /\ rec'.launches >= rec.launches /\ rec'.launches \in Nat
        BY <2>4, <2>8 DEF RejectStartedLaunch, m
      <3>2. req' = Tail(req) /\ proc' \in {proc, Killed}
        BY <2>8 DEF RejectStartedLaunch, EnsureScopeEmpty
      <3>3. CASE RejectAndRecover([g EXCEPT !.authorized = 0], m)
        <4> DEFINE s == [g EXCEPT !.authorized = 0]
        <4>1. /\ s \in GuardianState /\ s.authorized = 0 /\ s.next = g.next
              /\ s.pending = g.pending
          BY <1>g, BoundsAssumption DEF GuardianState
        <4>2. RejectAndRecover(s, m)
          BY <3>3
        <4> HIDE DEF s
        <4>3. /\ rep' \in Seq(Reply) /\ RepliesPromise'
              /\ g' \in GuardianState /\ g'.pc = "term"
              /\ g'.authorized = s.authorized /\ g'.next = s.next /\ g'.pending = s.pending
          BY <2>2, <3>1, <4>1, <4>2, <1>t, <1>g, <1>n, RejectKeepsReplies
        <4> QED BY <2>6, <3>1, <3>2, <4>1, <4>3
      <3>4. CASE UNCHANGED rep /\ g' = Recovering(g)
        <4>1. rep' \in Seq(Reply) /\ RepliesPromise'
          BY <3>1, <3>4, <1>t, <1>g, <1>n, KeepReplies
        <4>2. /\ g' \in GuardianState /\ g'.pc = "term"
              /\ g'.authorized = g.authorized /\ g'.next = g.next /\ g'.pending = g.pending
          BY <3>4, <1>g, RecoveringType
        <4> QED BY <2>6, <3>1, <3>2, <4>1, <4>2
      <3> QED BY <2>8, <3>3, <3>4 DEF RejectStartedLaunch, m
    <2>9. HandleStarted => proc' = proc
      BY DEF HandleStarted, native
    <2> QED BY <1>3, <2>3, <2>5, <2>7, <2>8, <2>9 DEF HandleStarted, m
  <1>4. ASSUME AcknowledgeStarted PROVE LaunchInv'
    <2> DEFINE s == [g EXCEPT !.pc = "serve", !.authorized = 0, !.active = m.seq]
    <2>1. g.pc = "launched" /\ req # <<>> /\ m.type = "started" /\ req' = Tail(req)
          /\ UNCHANGED <<durable, owner, boot, scope, run, expired, w, conn, rpc>>
          /\ proc' = proc /\ m.seq = g.authorized /\ rec.launches = g.authorized
      BY <1>4, <1>t DEF AcknowledgeStarted, At, m, native, GuardianOrder
    <2>2. m.seq \in 0 .. MaxLaunches /\ m.seq <= rec.launches
      BY <2>1, <1>n
    <2>3. /\ s \in GuardianState /\ s.pc = "serve" /\ s.next = g.next
          /\ s.authorized = 0 /\ s.pending = g.pending
      <3> DEFINE k == m.seq
      <3>1. k \in 0 .. MaxLaunches /\ 0 \in 0 .. MaxLaunches
        BY <2>2, BoundsAssumption
      <3> HIDE DEF k
      <3>2. LET t == [g EXCEPT !.pc = "serve", !.authorized = 0, !.active = k] IN
            /\ t \in GuardianState /\ t.pc = "serve" /\ t.next = g.next
            /\ t.authorized = 0 /\ t.pending = g.pending
        BY <1>g, <3>1 DEF GuardianState, GuardianPCs
      <3> QED BY <3>2 DEF k
    <2>4. Answer(s, m, TRUE)
      BY <1>4 DEF AcknowledgeStarted, m
    <2> HIDE DEF s
    <2> QED BY <2>1, <2>2, <2>3, <2>4, <1>n, <1>a
  <1>5. ASSUME HandleFailed PROVE LaunchInv'
    <2> DEFINE s == [g EXCEPT !.authorized = 0]
    <2>1. /\ s \in GuardianState /\ s.pc = g.pc /\ s.next = g.next
          /\ s.authorized = 0 /\ s.pending = g.pending
      BY <1>g, BoundsAssumption DEF GuardianState
    <2>2. g.pc = "serve" /\ req # <<>> /\ m.type = "failed" /\ req' = Tail(req)
          /\ UNCHANGED <<durable, owner, boot, scope, run, expired, w, conn, rpc>>
          /\ proc' = proc
      BY <1>5 DEF HandleFailed, Serving, At, m, native
    <2>3. Answer(s, m, TRUE) \/ Answer(g, m, FALSE)
      BY <1>5 DEF HandleFailed, m
    <2> HIDE DEF s
    <2> QED BY <2>1, <2>2, <2>3, <1>g, <1>n, <1>a
  <1>6. ASSUME HandleFinish PROVE LaunchInv'
    <2> DEFINE s == [g EXCEPT !.active = 0]
    <2>1. /\ s \in GuardianState /\ s.pc = g.pc /\ s.next = g.next
          /\ s.authorized = g.authorized /\ s.pending = g.pending
      BY <1>g, BoundsAssumption DEF GuardianState
    <2>2. g.pc = "serve" /\ req # <<>> /\ m.type = "finish" /\ req' = Tail(req)
          /\ UNCHANGED <<durable, owner, boot, scope, run, expired, w, conn, rpc>>
          /\ proc' \in {proc, Killed}
      BY <1>6 DEF HandleFinish, Serving, At, m, EnsureScopeEmpty
    <2>3. m \in Request
      BY <2>2, <1>m DEF m
    <2>4. CASE Answer(s, m, TRUE) \/ Answer(g, m, FALSE)
      <3> HIDE DEF s
      <3> QED BY <2>1, <2>2, <2>4, <1>g, <1>n, <1>a
    <2>5. CASE UNCHANGED proc /\ RejectAndRecover(g, m)
      <3>1. rec' = rec /\ run' = run /\ w' = w
        BY <2>2 DEF durable
      <3>2. /\ rep' \in Seq(Reply) /\ RepliesPromise'
            /\ g' \in GuardianState /\ g'.pc = "term"
            /\ g'.authorized = g.authorized /\ g'.next = g.next /\ g'.pending = g.pending
        BY <2>3, <2>5, <3>1, <1>t, <1>g, <1>n, RejectKeepsReplies
      <3>3. CommitOrder' /\ GuardianOrder'
        BY <1>t, <1>n, <2>2, <3>1, <3>2, ServeOrder
      <3>4. TypeOK'
        BY <1>t, <1>m, <2>2, <2>5, <3>1, <3>2 DEF TypeOK, durable
      <3> QED BY <1>t, <2>5, <3>1, <3>2, <3>3, <3>4
           DEF LaunchInv, WorkerOrder, ExecutesAfterDurableLaunch
    <2> QED BY <1>6, <2>4, <2>5 DEF HandleFinish, m
  <1>7. ASSUME HandleTermination PROVE LaunchInv'
    <2>1. g.pc = "serve" /\ req # <<>> /\ m.type \in {"stop", "close"} /\ req' = Tail(req)
          /\ UNCHANGED <<durable, owner, native, run, expired, w, conn, rpc>>
      BY <1>7 DEF HandleTermination, At, m
    <2>2. m \in Request
      BY <2>1, <1>m DEF m
    <2>3. CASE Answer(g, m, FALSE) BY <2>1, <2>3, <1>g, <1>n, <1>a DEF native
    <2>4. CASE /\ \E c \in Causes : EnterTermination(c, ReplyTo(m, TRUE))
               /\ UNCHANGED rep
      <3>1. ReplyTo(m, TRUE) \in Reply /\ ReplyTo(m, TRUE).type \in {"stop", "close"}
        BY <2>1, <2>2 DEF ReplyTo, Reply, Request
      <3>2. /\ g' \in GuardianState
            /\ g'.pc = "term" /\ g'.authorized = g.authorized /\ g'.next = g.next
            /\ g'.pending = ReplyTo(m, TRUE)
        BY <2>4, <3>1, <1>g, EnterTerminationType
      <3> QED BY <2>1, <2>4, <3>1, <3>2, <1>r
    <2> QED BY <1>7, <2>3, <2>4 DEF HandleTermination, m, Causes
  <1>8. ASSUME ServeEvent \/ ServeFault PROVE LaunchInv'
    <2>1. g.pc = "serve" /\ UNCHANGED <<durable, owner, native, run, expired, w, conn, rpc>>
          /\ UNCHANGED <<rep, req>>
      BY <1>8 DEF ServeEvent, ServeFault, At, channel
    <2>2. \/ g' = Recovering(g) \/ g' = [Recovering(g) EXCEPT !.waitObserved = TRUE]
          \/ EnterTermination("budget", NoReply) \/ EnterTermination("requested", NoReply)
      BY <1>8 DEF ServeEvent, ServeFault
    <2>3. /\ g' \in GuardianState
          /\ g'.pc = "term" /\ g'.authorized = g.authorized /\ g'.next = g.next
          /\ g'.pending = g.pending \/ g'.pending = NoReply
      <3>1. CASE g' = Recovering(g) BY <3>1, <1>g, RecoveringType
      <3>2. CASE g' = [Recovering(g) EXCEPT !.waitObserved = TRUE]
        <4>1. /\ Recovering(g) \in GuardianState /\ Recovering(g).pc = "term"
              /\ Recovering(g).authorized = g.authorized /\ Recovering(g).next = g.next
              /\ Recovering(g).pending = g.pending
          BY <1>g, RecoveringType
        <4> QED BY <3>2, <4>1 DEF GuardianState
      <3>3. CASE EnterTermination("budget", NoReply) \/ EnterTermination("requested", NoReply)
        BY <3>3, <1>g, EnterTerminationType, NoReplyType DEF Causes
      <3> QED BY <2>2, <3>1, <3>2, <3>3
    <2>4. NoReply.type = "none"
      BY DEF NoReply
    <2> QED BY <2>1, <2>3, <2>4, <1>r
  <1>9. ASSUME ReaderDeadline PROVE LaunchInv'
    <2>1. UNCHANGED <<rec, run, w, rep, proc, req, g>>
      BY <1>9 DEF ReaderDeadline, durable, native
    <2>2. TypeOK'
      BY <1>9, <1>t DEF ReaderDeadline, durable, native, TypeOK
    <2>3. CommitOrder' /\ GuardianOrder'
      BY <2>1, <1>t DEF CommitOrder, GuardianOrder
    <2> QED BY <2>1, <2>2, <2>3, GuardianFrame
  <1> QED BY <1>1, <1>2, <1>3, <1>4, <1>5, <1>6, <1>7, <1>8, <1>9 DEF GuardianControl

(* Finalization: no launch record is written and no accepting launch reply    *)
(* is sent; processes only disappear.                                         *)
LEMMA FinalizationKeepsLaunchInv ==
  ASSUME LaunchInv, GuardianFinalization \/ AcquireRunOwner
  PROVE  LaunchInv'
  <1>t. TypeOK /\ CommitOrder /\ GuardianOrder /\ RepliesPromise /\ WorkerOrder
        /\ ExecutesAfterDurableLaunch
    BY DEF LaunchInv
  <1>g. /\ g \in GuardianState /\ rec \in Evidence /\ proc \in [Launches -> ProcStates]
        /\ rep \in Seq(Reply) /\ run \in 0 .. MaxRuns
    BY <1>t DEF TypeOK
  <1>n. /\ rec.launches \in 0 .. MaxLaunches /\ rec.launches \in Nat /\ g.cause \in Causes
        /\ g.pending \in Reply /\ g.started \in BOOLEAN /\ 0 \in 0 .. MaxLaunches
    BY <1>g, BoundsAssumption DEF Evidence, GuardianState
  <1>i. IdleGuardian.pc = "idle" /\ IdleGuardian.authorized = 0 /\ IdleGuardian.pending = NoReply
    BY DEF IdleGuardian
  <1> USE DEF GuardianPCs
  <1>1. ASSUME AcquireRunOwner PROVE LaunchInv'
    <2>1. g' = [IdleGuardian EXCEPT !.pc = "owned"] /\ run' \in 1 .. MaxRuns
          /\ UNCHANGED <<rec, w, rep, proc>>
      BY <1>1, <1>g, BoundsAssumption DEF AcquireRunOwner, durable, native, channel
    <2>2. g' \in GuardianState /\ g'.pc = "owned" /\ g'.authorized = 0 /\ g'.pending = NoReply
      BY <2>1, <1>i, IdleGuardianType DEF GuardianState
    <2>3. run' \in 0 .. MaxRuns /\ run' # 0
      BY <2>1, BoundsAssumption
    <2>4. TypeOK'
      BY <1>t, <1>1, <2>2, <2>3 DEF AcquireRunOwner, durable, native, channel, TypeOK
    <2>5. CommitOrder' /\ GuardianOrder'
      BY <1>t, <2>1, <2>2, <2>3, Settle DEF SettledPCs
    <2> QED BY <2>1, <2>4, <2>5, GuardianFrame
  <1>2. ASSUME TerminationAttemptFails PROVE LaunchInv'
    <2>1. UNCHANGED <<rec, run, w, proc>> /\ g.pc \in {"term", "publish"} /\ run # 0
      BY <1>2, <1>t DEF TerminationAttemptFails, durable, native, CommitOrder
    <2>2. /\ g' \in GuardianState /\ g'.pc = g.pc /\ g'.authorized = g.authorized
          /\ g'.next = g.next /\ g'.pending = NoReply
      BY <1>2, <1>g, NoReplyType DEF TerminationAttemptFails, GuardianState
    <2>3. rep' \in Seq(Reply) /\ RepliesPromise'
      <3> DEFINE r == [g.pending EXCEPT !.ok = FALSE]
      <3>1. r \in Reply /\ ~r.ok
        BY <1>n DEF Reply
      <3>2. rep' = rep \/ rep' = Append(rep, r)
        BY <1>2 DEF TerminationAttemptFails
      <3> HIDE DEF r
      <3>4. CASE rep' = rep BY <3>4, <1>t, <1>g, <1>n, <2>1, KeepReplies
      <3>5. CASE rep' = Append(rep, r) BY <3>1, <3>5, <1>t, <1>g, <1>n, <2>1, AppendReply
      <3> QED BY <3>2, <3>4, <3>5
    <2>4. conn' \in BOOLEAN
      BY <1>2, <1>t DEF TerminationAttemptFails, TypeOK
    <2>5. TypeOK'
      BY <1>t, <1>2, <2>2, <2>3, <2>4 DEF TerminationAttemptFails, durable, native, TypeOK
    <2>6. CommitOrder' /\ GuardianOrder'
      BY <1>t, <2>1, <2>2, Settle DEF SettledPCs
    <2> QED BY <1>t, <2>1, <2>3, <2>5, <2>6 DEF LaunchInv, WorkerOrder, ExecutesAfterDurableLaunch
  <1>3. ASSUME FencePendingStart PROVE LaunchInv'
    <2>1. UNCHANGED <<rec, run, w, rep, proc>> /\ g.pc = "term" /\ run # 0
      BY <1>3, <1>t DEF FencePendingStart, At, durable, native, CommitOrder
    <2>2. /\ g' \in GuardianState /\ g'.pc = g.pc /\ g'.authorized = g.authorized
          /\ g'.next = g.next /\ g'.pending = g.pending
      BY <1>3, <1>g DEF FencePendingStart, GuardianState
    <2>3. conn' \in BOOLEAN
      BY <1>3, <1>t DEF FencePendingStart, TypeOK
    <2>4. TypeOK'
      BY <1>t, <1>3, <2>2, <2>3 DEF FencePendingStart, durable, native, TypeOK
    <2>5. CommitOrder' /\ GuardianOrder'
      BY <1>t, <2>1, <2>2, Settle DEF SettledPCs
    <2> QED BY <2>1, <2>4, <2>5, GuardianFrame
  <1>4. ASSUME ProveScopeEmpty PROVE LaunchInv'
    <2>1. UNCHANGED <<rec, run, w, rep>> /\ g.pc = "term" /\ run # 0 /\ proc' = Killed
      BY <1>4, <1>t DEF ProveScopeEmpty, EnsureScopeEmpty, At, durable, channel, CommitOrder
    <2>2. /\ g' \in GuardianState /\ g'.pc = "publish" /\ g'.authorized = 0
          /\ g'.next = g.next /\ g'.pending = g.pending
      BY <1>4, <1>g, <1>n DEF ProveScopeEmpty, GuardianState
    <2>3. proc' \in [Launches -> ProcStates] /\ ExecutesAfterDurableLaunch'
      BY <2>1, <1>g, <1>t, <1>n, KillProcesses, KeepProcesses, BoundsAssumption
    <2>4. TypeOK'
      BY <1>t, <1>4, <2>2, <2>3 DEF ProveScopeEmpty, durable, channel, TypeOK
    <2>5. CommitOrder' /\ GuardianOrder'
      BY <1>t, <2>1, <2>2, Settle DEF SettledPCs
    <2> QED BY <1>t, <2>1, <2>3, <2>4, <2>5 DEF LaunchInv, WorkerOrder, RepliesPromise, Promises
  <1>5. ASSUME RecordTermination PROVE LaunchInv'
    <2>1. UNCHANGED <<run, w, proc>> /\ g.pc = "publish" /\ run # 0
      BY <1>5, <1>t DEF RecordTermination, At, native, CommitOrder
    <2>2. /\ rec' \in Evidence /\ rec'.launches = rec.launches
          /\ rec'.intent = rec.intent /\ rec'.registration = rec.registration
      <3> DEFINE t == TerminationOfLaunched
      <3>1. t \in [cause : Causes, count : 0 .. MaxLaunches]
        BY <1>n DEF TerminationOfLaunched
      <3>2. rec' = [rec EXCEPT !.termination = t]
        BY <1>5 DEF RecordTermination
      <3> HIDE DEF t
      <3> QED BY <3>1, <3>2, <1>g DEF Evidence
    <2>3. /\ g' \in GuardianState
          /\ g'.pc \in {"publish", "await"} /\ g'.authorized = g.authorized
          /\ g'.next = g.next /\ g'.pending \in {g.pending, NoReply}
      BY <1>5, <2>1, <1>g, <1>n, NoReplyType DEF RecordTermination, GuardianState
    <2>4. rep' \in Seq(Reply) /\ RepliesPromise'
      <3>1. rep' = rep \/ (g.pending # NoReply /\ rep' = Append(rep, g.pending))
        BY <1>5 DEF RecordTermination
      <3>2. ~(g.pending.ok /\ g.pending.type \in {"begin", "started"})
        BY <1>t DEF GuardianOrder
      <3>4. CASE rep' = rep BY <3>4, <1>t, <1>g, <1>n, <2>2, KeepReplies
      <3>5. CASE rep' = Append(rep, g.pending) BY <3>2, <3>5, <1>t, <1>g, <1>n, <2>2, AppendReply
      <3> QED BY <3>1, <3>4, <3>5
    <2>5. conn' \in BOOLEAN
      BY <1>5, <1>t DEF RecordTermination, TypeOK
    <2>6. TypeOK'
      BY <1>t, <1>5, <2>2, <2>3, <2>4, <2>5 DEF RecordTermination, native, TypeOK
    <2>7. CommitOrder' /\ GuardianOrder'
      BY <1>t, <2>1, <2>2, <2>3, Settle DEF SettledPCs
    <2> QED
      BY <1>t, <2>1, <2>2, <2>4, <2>6, <2>7 DEF LaunchInv, WorkerOrder, ExecutesAfterDurableLaunch
  <1>6. ASSUME AwaitWorkerWait PROVE LaunchInv'
    <2>1. UNCHANGED <<rec, run, w, rep, proc>> /\ g.pc = "await" /\ run # 0
      BY <1>6, <1>t DEF AwaitWorkerWait, At, durable, native, channel, CommitOrder
    <2>2. PICK x \in {"wait", "destroy"} : g' = [g EXCEPT !.pc = x, !.waitObserved = g.started]
      BY <1>6 DEF AwaitWorkerWait
    <2>3. /\ g' \in GuardianState /\ g'.pc = x /\ g'.authorized = g.authorized
          /\ g'.next = g.next /\ g'.pending = g.pending
      <3> DEFINE b == g.started
      <3>1. b \in BOOLEAN /\ g' = [g EXCEPT !.pc = x, !.waitObserved = b]
        BY <1>n, <2>2
      <3> HIDE DEF b
      <3> QED BY <3>1, <1>g DEF GuardianState
    <2>4. TypeOK'
      BY <1>t, <1>6, <2>3 DEF AwaitWorkerWait, durable, native, channel, TypeOK
    <2>5. CommitOrder' /\ GuardianOrder'
      BY <1>t, <2>1, <2>3, Settle DEF SettledPCs
    <2> QED BY <2>1, <2>4, <2>5, GuardianFrame
  <1>7. ASSUME PersistWorkerWait PROVE LaunchInv'
    <2>1. UNCHANGED <<run, w, rep, proc>> /\ g.pc = "wait" /\ run # 0
      BY <1>7, <1>t DEF PersistWorkerWait, At, native, channel, CommitOrder
    <2>2. /\ rec' \in Evidence /\ rec'.launches = rec.launches
          /\ rec'.intent = rec.intent /\ rec'.registration = rec.registration
      BY <1>7, <1>g DEF PersistWorkerWait, Evidence, WaitResults
    <2>3. /\ g' \in GuardianState
          /\ g'.pc \in {"wait", "destroy"} /\ g'.authorized = g.authorized
          /\ g'.next = g.next /\ g'.pending = g.pending
      BY <1>7, <2>1, <1>g DEF PersistWorkerWait, GuardianState
    <2>4. TypeOK'
      BY <1>t, <1>7, <2>2, <2>3 DEF PersistWorkerWait, native, channel, TypeOK
    <2>5. CommitOrder' /\ GuardianOrder'
      BY <1>t, <2>1, <2>2, <2>3, Settle DEF SettledPCs
    <2> QED BY <2>1, <2>2, <2>4, <2>5, GuardianFrame
  <1>8. ASSUME DestroyScope PROVE LaunchInv'
    <2>1. UNCHANGED <<rec, run, w, rep, proc>> /\ g.pc = "destroy" /\ run # 0
      BY <1>8, <1>t DEF DestroyScope, At, durable, channel, CommitOrder
    <2>2. /\ g' \in GuardianState /\ g'.pc = "release" /\ g'.authorized = g.authorized
          /\ g'.next = g.next /\ g'.pending = g.pending
      BY <1>8, <1>g DEF DestroyScope, GuardianState
    <2>3. TypeOK'
      BY <1>t, <1>8, <2>2 DEF DestroyScope, durable, channel, TypeOK
    <2>4. CommitOrder' /\ GuardianOrder'
      BY <1>t, <2>1, <2>2, Settle DEF SettledPCs
    <2> QED BY <2>1, <2>3, <2>4, GuardianFrame
  <1>9. ASSUME ReleaseOwner PROVE LaunchInv'
    <2>1. g' = IdleGuardian /\ UNCHANGED <<rec, w, rep, proc>>
      BY <1>9 DEF ReleaseOwner, EndRun, durable, native, channel
    <2>2. TypeOK'
      BY <1>t, <1>9, <2>1, IdleGuardianType
         DEF ReleaseOwner, EndRun, durable, native, channel, TypeOK
    <2>3. CommitOrder' /\ GuardianOrder'
      BY <1>t, <1>i, <2>1, Settle DEF SettledPCs
    <2> QED BY <2>1, <2>2, <2>3, GuardianFrame
  <1> QED BY <1>1, <1>2, <1>3, <1>4, <1>5, <1>6, <1>7, <1>8, <1>9 DEF GuardianFinalization

(* Recovery writes completions, never launches.                               *)
LEMMA RecoveryKeepsLaunchInv ==
  ASSUME LaunchInv, RecoveryActions
  PROVE  LaunchInv'
  <1>t. TypeOK /\ CommitOrder /\ GuardianOrder /\ RepliesPromise /\ WorkerOrder
        /\ ExecutesAfterDurableLaunch
    BY DEF LaunchInv
  <1>g. /\ rec \in Evidence /\ proc \in [Launches -> ProcStates]
        /\ rec.launches \in 0 .. MaxLaunches /\ rec.launches \in Nat
    BY <1>t, BoundsAssumption DEF TypeOK, Evidence
  <1>1. ASSUME UNCHANGED <<stop, proven, run, expired, boot, g, w, conn, req, rep>>,
               owner' \in {"none", "guardian", "recovery"},
               rpc' \in RecoveryPCs, scope' \in BOOLEAN, rec' \in Evidence,
               rec'.launches = rec.launches, rec'.intent = rec.intent,
               rec'.registration = rec.registration,
               proc' \in [Launches -> ProcStates],
               \A s \in Launches : proc'[s] \in {"released", "running", "residual"} =>
                    proc[s] \in {"released", "running", "residual"}
        PROVE  LaunchInv'
    <2>1. TypeOK'
      BY <1>1, <1>t DEF TypeOK
    <2>2. CommitOrder' /\ GuardianOrder'
      BY <1>1, <1>t DEF CommitOrder, GuardianOrder, HasIntent, HasRegistration
    <2>3. RepliesPromise' /\ WorkerOrder'
      BY <1>1, <1>t DEF RepliesPromise, Promises, WorkerOrder
    <2>4. ExecutesAfterDurableLaunch'
      BY <1>1, <1>t, <1>g, KeepProcesses, BoundsAssumption
    <2> QED BY <2>1, <2>2, <2>3, <2>4 DEF LaunchInv
  <1>2. UNCHANGED <<stop, proven, run, expired, boot, g, w, conn, req, rep>>
    BY DEF RecoveryActions, AcquireRecoveryOwner, DisposeUnregisteredScope, PersistAbsence,
       ReconcilePreviousBoot, RecoverRegistered, AwaitWorkerAbsent, RecoverScopeAgain,
       PersistRecoveryTermination, RecoverWorkerCompletion, DestroyRecoveredScope, RecoveryEnds,
       PersistTermination, durable, native, channel
  <1>3. owner' \in {"none", "guardian", "recovery"} /\ scope' \in BOOLEAN
    BY <1>t DEF RecoveryActions, AcquireRecoveryOwner, DisposeUnregisteredScope, PersistAbsence,
       ReconcilePreviousBoot, RecoverRegistered, AwaitWorkerAbsent, RecoverScopeAgain,
       PersistRecoveryTermination, RecoverWorkerCompletion, DestroyRecoveredScope, RecoveryEnds,
       PersistTermination, RecoverCooperative, native, TypeOK
  <1>4. rpc' \in RecoveryPCs
    BY DEF RecoveryActions, AcquireRecoveryOwner, DisposeUnregisteredScope, PersistAbsence,
       ReconcilePreviousBoot, RecoverRegistered, AwaitWorkerAbsent, RecoverScopeAgain,
       PersistRecoveryTermination, RecoverWorkerCompletion, DestroyRecoveredScope, RecoveryEnds,
       PersistTermination, RecoverCooperative, RecoveryStep, RecoveryPCs
  <1>5. proc' = [s \in Launches |-> IF s <= rec.launches THEN Killed[s] ELSE proc[s]]
        \/ proc' \in {proc, Killed}
    BY DEF RecoveryActions, AcquireRecoveryOwner, DisposeUnregisteredScope, PersistAbsence,
       ReconcilePreviousBoot, RecoverRegistered, AwaitWorkerAbsent, RecoverScopeAgain,
       PersistRecoveryTermination, RecoverWorkerCompletion, DestroyRecoveredScope, RecoveryEnds,
       PersistTermination, RecoverCooperative, KillRecordedLaunches, native
  <1>6. proc' \in [Launches -> ProcStates]
        /\ \A s \in Launches : proc'[s] \in {"released", "running", "residual"} =>
              proc[s] \in {"released", "running", "residual"}
    <2>1. CASE proc' \in {proc, Killed} BY <2>1, <1>g, KillProcesses
    <2>2. CASE proc' = [s \in Launches |-> IF s <= rec.launches THEN Killed[s] ELSE proc[s]]
      BY <2>2, <1>g DEF Killed, ProcStates
    <2> QED BY <1>5, <2>1, <2>2
  <1>7. \/ rec' = rec \/ rec' = [rec EXCEPT !.wait = "absent"]
        \/ rec' = [rec EXCEPT !.termination = [cause |-> "previous-boot", count |-> rec.launches]]
        \/ rec' = [rec EXCEPT !.termination = [cause |-> "recovery", count |-> rec.launches]]
    BY DEF RecoveryActions, AcquireRecoveryOwner, DisposeUnregisteredScope, PersistAbsence,
       ReconcilePreviousBoot, RecoverRegistered, AwaitWorkerAbsent, RecoverScopeAgain,
       PersistRecoveryTermination, RecoverWorkerCompletion, DestroyRecoveredScope, RecoveryEnds,
       PersistTermination, durable
  <1>8. /\ rec' \in Evidence /\ rec'.launches = rec.launches
        /\ rec'.intent = rec.intent /\ rec'.registration = rec.registration
    <2>1. CASE rec' = rec \/ rec' = [rec EXCEPT !.wait = "absent"]
      BY <2>1, <1>g DEF Evidence, WaitResults
    <2>2. ASSUME NEW t \in [cause : Causes, count : 0 .. MaxLaunches],
                 rec' = [rec EXCEPT !.termination = t]
          PROVE  /\ rec' \in Evidence /\ rec'.launches = rec.launches
                 /\ rec'.intent = rec.intent /\ rec'.registration = rec.registration
      BY <2>2, <1>g DEF Evidence
    <2>3. ASSUME NEW c \in {"previous-boot", "recovery"}
          PROVE  [cause |-> c, count |-> rec.launches] \in [cause : Causes, count : 0 .. MaxLaunches]
      BY <1>g DEF Causes
    <2> QED BY <1>7, <2>1, <2>2, <2>3
  <1> QED BY <1>1, <1>2, <1>3, <1>4, <1>6, <1>8

(* A step that leaves the records and the guardian alone.                     *)
LEMMA WorkerFrame ==
  ASSUME LaunchInv, UNCHANGED <<rec, run, g>>, TypeOK', WorkerOrder',
         RepliesPromise', ExecutesAfterDurableLaunch',
         req' = req \/ (req # <<>> => Head(req') = Head(req) /\ req' # <<>>)
  PROVE  LaunchInv'
  <1>1. CommitOrder' /\ GuardianOrder'
    BY DEF LaunchInv, CommitOrder, GuardianOrder
  <1> QED BY <1>1 DEF LaunchInv

(* A call puts at most one frame at the end of the channel.                   *)
LEMMA CallKeepsLaunchInv ==
  ASSUME LaunchInv, NEW type \in MessageTypes, NEW seq \in Asked, Call(type, seq),
         type = "started" => seq = w.sequence /\ seq \in Launches
  PROVE  LaunchInv'
  <1>t. /\ TypeOK /\ WorkerOrder /\ RepliesPromise /\ ExecutesAfterDurableLaunch
        /\ w \in WorkerState /\ req \in Seq(Request)
    BY DEF LaunchInv, TypeOK
  <1>1. UNCHANGED <<rec, run, g, rep, proc>> /\ w.call = "none"
    BY DEF Call, durable, native, MutexFree
  <1>2. req' = req \/ req' = Append(req, [type |-> type, seq |-> seq])
    BY DEF Call
  <1>3. /\ req' \in Seq(Request)
        /\ req # <<>> => Head(req') = Head(req) /\ req' # <<>>
    <2>1. [type |-> type, seq |-> seq] \in Request
      BY DEF Request
    <2> QED BY <1>t, <1>2, <2>1
  <1>4. /\ w' \in WorkerState /\ w'.call = type
        /\ w'.pc = IF type = "stop" THEN w.pc ELSE "call"
        /\ w'.sequence = IF type = "begin" THEN seq ELSE w.sequence
        /\ w'.active = IF type = "started" THEN seq ELSE w.active
    <2>1. type = "started" => seq \in 0 .. MaxLaunches
      BY DEF Launches
    <2> QED BY <1>t, <2>1 DEF Call, WorkerState, WorkerPCs
  <1>5. WorkerOrder'
    BY <1>t, <1>1, <1>4 DEF WorkerOrder
  <1>6. TypeOK'
    BY <1>t, <1>3, <1>4 DEF Call, TypeOK, durable, native
  <1>7. RepliesPromise' /\ ExecutesAfterDurableLaunch'
    BY <1>t, <1>1 DEF RepliesPromise, Promises, ExecutesAfterDurableLaunch
  <1> QED BY <1>1, <1>3, <1>5, <1>6, <1>7, WorkerFrame

(* The worker's end closes every gate it holds and drops what it did not read. *)
LEMMA WorkerEndsKeepsLaunchInv ==
  ASSUME LaunchInv, WorkerEnds
  PROVE  LaunchInv'
  <1>t. /\ TypeOK /\ ExecutesAfterDurableLaunch /\ proc \in [Launches -> ProcStates]
        /\ rec \in Evidence
    BY DEF LaunchInv, TypeOK
  <1>1. UNCHANGED <<rec, run, g, req>> /\ rep' = <<>> /\ proc' = GatesClosed
        /\ w' = [NoWorker EXCEPT !.pc = "exited"]
    BY DEF WorkerEnds, durable
  <1>2. w' \in WorkerState
    BY <1>1, WorkerReset DEF WorkerPCs
  <1>3. WorkerOrder'
    BY <1>1 DEF WorkerOrder, NoWorker
  <1>4. proc' \in [Launches -> ProcStates] /\ ExecutesAfterDurableLaunch'
    BY <1>t, <1>1 DEF GatesClosed, ProcStates, ExecutesAfterDurableLaunch
  <1>5. rep' \in Seq(Reply) /\ RepliesPromise'
    BY <1>1 DEF RepliesPromise
  <1>6. TypeOK'
    BY <1>t, <1>1, <1>2, <1>4, <1>5 DEF WorkerEnds, TypeOK, durable
  <1> QED BY <1>1, <1>3, <1>4, <1>5, <1>6, WorkerFrame

(* The worker: a gate opens only on the acknowledgement of its own launch.    *)
LEMMA WorkerKeepsLaunchInv ==
  ASSUME LaunchInv, WorkerStep
  PROVE  LaunchInv'
  <1>t. TypeOK /\ RepliesPromise /\ WorkerOrder /\ ExecutesAfterDurableLaunch
    BY DEF LaunchInv
  <1>g. /\ w \in WorkerState /\ rec \in Evidence /\ proc \in [Launches -> ProcStates]
        /\ rep \in Seq(Reply) /\ w.sequence \in Asked /\ rec.launches \in Nat
    BY <1>t, BoundsAssumption DEF TypeOK, WorkerState, Evidence
  <1>0. 0 \in Asked
    BY BoundsAssumption DEF Asked
  <1> USE DEF MessageTypes
  <1>l. ASSUME UNCHANGED <<durable, owner, boot, scope, run, expired, g, conn, req, rpc>>,
               w' \in WorkerState, WorkerOrder',
               rep' \in Seq(Reply), RepliesPromise',
               proc' \in [Launches -> ProcStates], ExecutesAfterDurableLaunch'
        PROVE  LaunchInv'
    <2>1. UNCHANGED <<rec, run, g, req>>
      BY <1>l DEF durable
    <2>2. TypeOK'
      BY <1>t, <1>l DEF TypeOK, durable
    <2> QED BY <1>l, <2>1, <2>2, WorkerFrame
  <1>k. ASSUME UNCHANGED <<rec, rep>> PROVE rep' \in Seq(Reply) /\ RepliesPromise'
    BY <1>k, <1>t, <1>g DEF RepliesPromise, Promises
  <1>p. ASSUME UNCHANGED <<rec, proc>>
        PROVE  proc' \in [Launches -> ProcStates] /\ ExecutesAfterDurableLaunch'
    BY <1>p, <1>t, <1>g DEF ExecutesAfterDurableLaunch
  <1>1. CASE SendHello \/ StartCommand \/ FinishCommand \/ Terminate
    <2>1. CASE SendHello \/ Terminate
      BY <2>1, <1>0, CallKeepsLaunchInv DEF SendHello, Terminate
    <2>2. CASE StartCommand
      <3>1. w.sequence + 1 \in Asked
        BY <2>2, <1>g, BoundsAssumption DEF StartCommand, Asked
      <3> QED BY <2>2, <3>1, CallKeepsLaunchInv DEF StartCommand
    <2>3. CASE FinishCommand BY <2>3, <1>g, CallKeepsLaunchInv DEF FinishCommand
    <2> QED BY <1>1, <2>1, <2>2, <2>3
  <1>2. CASE OpenChildFails \/ FinishCommandLocally
    <2>1. UNCHANGED <<durable, owner, boot, scope, run, expired, g, conn, req, rpc>>
          /\ UNCHANGED <<rec, rep, proc>>
      BY <1>2 DEF OpenChildFails, FinishCommandLocally, durable, native, channel
    <2>2. w' \in WorkerState /\ WorkerOrder'
      <3>1. CASE OpenChildFails
        <4>1. /\ w' \in WorkerState /\ w'.pc = "exit" /\ w'.call = w.call
              /\ w'.sequence = w.sequence /\ w'.active = w.active
          BY <3>1, <1>g DEF OpenChildFails, WorkerState, WorkerPCs
        <4> QED BY <1>t, <4>1 DEF WorkerOrder
      <3>2. CASE FinishCommandLocally
        <4>1. w' \in WorkerState /\ w'.pc = "ready" /\ w'.call = "none"
          <5>1. w.call = "none" /\ w' = [w EXCEPT !.active = 0, !.pc = "ready"]
            BY <3>2 DEF FinishCommandLocally, MutexFree
          <5>2. 0 \in 0 .. MaxLaunches
            BY BoundsAssumption
          <5> QED BY <5>1, <5>2, <1>g DEF WorkerState, WorkerPCs
        <4> QED BY <4>1 DEF WorkerOrder
      <3> QED BY <1>2, <3>1, <3>2
    <2> QED BY <2>1, <2>2, <1>k, <1>p, <1>l
  <1>3. CASE NativeStart
    <2>1. UNCHANGED <<durable, owner, boot, scope, run, expired, g, conn, req, rpc>>
          /\ UNCHANGED <<rec, rep>> /\ w.pc = "start"
      BY <1>3 DEF NativeStart, WorkerAt, durable, channel
    <2>2. /\ w' \in WorkerState /\ w'.pc \in {"complete", "startFailed"} /\ w'.call = w.call
          /\ w'.sequence = w.sequence /\ w'.active = w.active
      BY <1>3, <1>g DEF NativeStart, WorkerState, WorkerPCs
    <2>3. WorkerOrder'
      BY <1>t, <2>1, <2>2 DEF WorkerOrder
    <2>4. proc' \in [Launches -> ProcStates] /\ ExecutesAfterDurableLaunch'
      <3>1. proc' = proc \/ proc' = [proc EXCEPT ![w.sequence] = "gated"]
        BY <1>3 DEF NativeStart
      <3> QED BY <3>1, <1>t, <1>g, <2>1 DEF ProcStates, ExecutesAfterDurableLaunch
    <2> QED BY <2>1, <2>2, <2>3, <2>4, <1>k, <1>l
  <1>4. CASE CompleteStart
    <2>1. w.sequence \in Launches /\ w.call = "none"
      BY <1>4, <1>t DEF CompleteStart, WorkerAt, WorkerOrder, MutexFree
    <2>2. CASE Call("started", w.sequence) BY <2>1, <2>2, <1>g, CallKeepsLaunchInv
    <2>3. CASE /\ proc' = Abort(w.sequence)
               /\ w' = [w EXCEPT !.active = w.sequence, !.pc = "run"]
               /\ UNCHANGED <<durable, owner, boot, scope, run, expired, g, channel, rpc>>
      <3> DEFINE k == w.sequence
      <3>1. k \in 0 .. MaxLaunches /\ k \in Launches /\ w' = [w EXCEPT !.active = k, !.pc = "run"]
        BY <2>1, <2>3 DEF Launches
      <3> HIDE DEF k
      <3>2. w' \in WorkerState /\ w'.active = k /\ w'.pc = "run" /\ w'.call = w.call
        BY <3>1, <1>g DEF WorkerState, WorkerPCs
      <3>3. WorkerOrder'
        BY <2>1, <3>1, <3>2 DEF WorkerOrder
      <3>4. UNCHANGED <<rec, rep, conn, req>>
        BY <2>3 DEF durable, channel
      <3>5. proc' \in [Launches -> ProcStates] /\ ExecutesAfterDurableLaunch'
        BY <2>3, <3>4, <1>t, <1>g DEF Abort, ProcStates, ExecutesAfterDurableLaunch
      <3> QED BY <2>3, <3>2, <3>3, <3>4, <3>5, <1>k, <1>l
    <2> QED BY <1>4, <2>2, <2>3 DEF CompleteStart
  <1>5. CASE CompleteFailedStart \/ CloseTask
    <2>1. CASE Call("failed", w.sequence) \/ Call("close", 0)
      BY <2>1, <1>g, <1>0, CallKeepsLaunchInv
    <2>2. CASE /\ w.call = "none"
               /\ w' = [w EXCEPT !.pc = "ready"] \/ w' = [w EXCEPT !.pc = "exit"]
               /\ UNCHANGED <<durable, owner, native, run, expired, g, channel, rpc>>
      <3>1. /\ w' \in WorkerState /\ w'.pc \in {"ready", "exit"} /\ w'.call = w.call
        BY <2>2, <1>g DEF WorkerState, WorkerPCs
      <3>2. WorkerOrder'
        BY <2>2, <3>1 DEF WorkerOrder
      <3>3. UNCHANGED <<rec, rep, proc, conn, req, boot, scope>>
        BY <2>2 DEF durable, channel, native
      <3> QED BY <2>2, <3>1, <3>2, <3>3, <1>k, <1>p, <1>l
    <2> QED BY <1>5, <2>1, <2>2 DEF CompleteFailedStart, CloseTask, MutexFree
  <1>f. ASSUME FailCall, rec' = rec, w.call # "none"
        PROVE  /\ w' \in WorkerState /\ WorkerOrder'
               /\ proc' \in [Launches -> ProcStates] /\ ExecutesAfterDurableLaunch'
    <2>1. /\ w' \in WorkerState /\ w'.call = "none" /\ w'.sequence = w.sequence
          /\ w'.pc \in {"exit", "ready", "run", w.pc}
          /\ w'.pc = "run" => w'.active = w.active
          /\ w'.pc = "run" => w.call = "started" \/ w.pc = "run"
          /\ w'.pc \in {"start", "complete", "startFailed"} => w.pc = w'.pc
      <3>1. w.call \in MessageTypes /\ 0 \in 0 .. MaxLaunches
        BY <1>f, <1>g, BoundsAssumption DEF WorkerState
      <3>2. CASE w.call \in {"hello", "close"}
        BY <1>f, <1>g, <3>2 DEF FailCall, WorkerState, WorkerPCs
      <3>3. CASE w.call \in {"begin", "failed"}
        BY <1>f, <1>g, <3>3 DEF FailCall, WorkerState, WorkerPCs
      <3>4. CASE w.call = "started" BY <1>f, <1>g, <3>4 DEF FailCall, WorkerState, WorkerPCs
      <3>5. CASE w.call = "finish" BY <1>f, <1>g, <3>1, <3>5 DEF FailCall, WorkerState, WorkerPCs
      <3>6. CASE w.call = "stop" BY <1>f, <1>g, <3>6 DEF FailCall, WorkerState, WorkerPCs
      <3> QED BY <3>1, <3>2, <3>3, <3>4, <3>5, <3>6
    <2>2. WorkerOrder'
      BY <1>t, <2>1 DEF WorkerOrder
    <2>3. proc' \in {proc, Abort(w.active), [proc EXCEPT ![w.active] = "dead"]}
      BY <1>f, <1>g DEF FailCall, WorkerState
    <2>4. proc' \in [Launches -> ProcStates] /\ ExecutesAfterDurableLaunch'
      BY <1>f, <1>t, <1>g, <2>3 DEF Abort, ProcStates, ExecutesAfterDurableLaunch
    <2> QED BY <2>1, <2>2, <2>4
  <1>6. CASE CallFails
    <2>1. /\ UNCHANGED <<durable, owner, boot, scope, run, expired, g, conn, req, rpc>>
          /\ UNCHANGED <<rec, rep>> /\ FailCall /\ w.call # "none"
      BY <1>6 DEF CallFails, durable, channel, MutexFree
    <2> QED BY <2>1, <1>f, <1>k, <1>l
  <1>7. CASE ReceiveReply
    <2>1. /\ UNCHANGED <<durable, owner, boot, scope, run, expired, g, conn, req, rpc>>
          /\ rec' = rec /\ w.call # "none" /\ rep # <<>> /\ rep' = Tail(rep)
      BY <1>7 DEF ReceiveReply, durable, MutexFree
    <2>2. rep' \in Seq(Reply) /\ RepliesPromise' /\ Promises(Head(rep)) /\ Head(rep) \in Reply
      BY <1>t, <1>g, <2>1, TakeReply
    <2>3. CASE FailCall BY <2>1, <2>2, <2>3, <1>f, <1>l
    <2>4. CASE /\ AcceptReply
               /\ Head(rep) = [type |-> w.call, seq |-> MessageSequence(w.call), ok |-> TRUE]
      <3>1. /\ w.call = "begin" => w.sequence \in Launches
            /\ w.call = "started" => w.sequence <= rec.launches
        BY <2>2, <2>4 DEF Promises, MessageSequence
      <3>2. w.call \in MessageTypes /\ 0 \in 0 .. MaxLaunches
        BY <2>1, <1>g, BoundsAssumption DEF WorkerState
      <3>3. /\ w' \in WorkerState /\ w'.call = "none" /\ w'.sequence = w.sequence
            /\ w'.pc = "run" => w'.active = w.active /\ (w.call = "started" \/ w.pc = "run")
            /\ w'.pc \in {"start", "complete", "startFailed"} => w.pc = w'.pc \/ w.call = "begin"
            /\ proc' = proc \/ (w.call = "started" /\ proc' = Release(w.active))
        <4>1. CASE w.call \in {"hello", "begin", "failed"}
          BY <2>4, <1>g, <4>1 DEF AcceptReply, WorkerState, WorkerPCs
        <4>2. CASE w.call = "started" BY <2>4, <1>g, <4>2 DEF AcceptReply, WorkerState, WorkerPCs
        <4>3. CASE w.call = "finish"
          BY <2>4, <1>g, <3>2, <4>3 DEF AcceptReply, WorkerState, WorkerPCs
        <4>4. CASE w.call \in {"stop", "close"}
          BY <2>4, <1>g, <4>4 DEF AcceptReply, WorkerState, WorkerPCs
        <4> QED BY <3>2, <4>1, <4>2, <4>3, <4>4
      <3>4. WorkerOrder'
        BY <1>t, <3>1, <3>3 DEF WorkerOrder
      <3>5. w.call = "started" => w.active = w.sequence /\ w.active <= rec.launches
        BY <1>t, <3>1 DEF WorkerOrder
      <3>6. proc' \in [Launches -> ProcStates] /\ ExecutesAfterDurableLaunch'
        BY <1>t, <1>g, <2>1, <3>3, <3>5 DEF Release, ProcStates, ExecutesAfterDurableLaunch
      <3> QED BY <2>1, <2>2, <3>3, <3>4, <3>6, <1>l
    <2> QED BY <1>7, <2>3, <2>4 DEF ReceiveReply
  <1>8. CASE WorkerExits BY <1>8, WorkerEndsKeepsLaunchInv DEF WorkerExits
  <1> QED BY <1>1, <1>2, <1>3, <1>4, <1>5, <1>6, <1>7, <1>8 DEF WorkerStep

(* Providers, users, crashes and reboots start nothing.                       *)
LEMMA EnvironmentKeepsLaunchInv ==
  ASSUME LaunchInv, Environment
  PROVE  LaunchInv'
  <1>t. TypeOK /\ CommitOrder /\ GuardianOrder /\ RepliesPromise /\ WorkerOrder
        /\ ExecutesAfterDurableLaunch
    BY DEF LaunchInv
  <1>g. /\ rec \in Evidence /\ proc \in [Launches -> ProcStates] /\ rec.launches \in Nat
        /\ w \in WorkerState
    BY <1>t, BoundsAssumption DEF TypeOK, Evidence
  <1>i. IdleGuardian.pc = "idle" /\ IdleGuardian.authorized = 0 /\ IdleGuardian.pending = NoReply
    BY DEF IdleGuardian
  <1>1. ASSUME NEW s \in Launches, GateOpens(s) \/ GateFails(s) \/ ProcessEnds(s)
        PROVE  LaunchInv'
    <2>1. UNCHANGED <<rec, run, g, w, req, rep>>
      BY <1>1 DEF GateOpens, GateFails, ProcessEnds, durable, channel
    <2>2. \/ proc' = [proc EXCEPT ![s] = "dead"]
          \/ /\ proc[s] \in {"released", "running"}
             /\ proc' = [proc EXCEPT ![s] = "running"] \/ proc' = [proc EXCEPT ![s] = "residual"]
      BY <1>1 DEF GateOpens, GateFails, ProcessEnds
    <2>3. proc' \in [Launches -> ProcStates] /\ ExecutesAfterDurableLaunch'
      BY <1>t, <1>g, <2>1, <2>2 DEF ProcStates, ExecutesAfterDurableLaunch
    <2>4. TypeOK'
      BY <1>t, <1>1, <2>3 DEF GateOpens, GateFails, ProcessEnds, durable, channel, TypeOK
    <2>5. WorkerOrder' /\ RepliesPromise'
      BY <1>t, <2>1 DEF WorkerOrder, RepliesPromise, Promises
    <2> QED BY <2>1, <2>3, <2>4, <2>5, WorkerFrame
  <1>2. ASSUME DeadlinePasses \/ RequestStop \/ ProveUnlaunched \/ FenceUnlaunched
        PROVE  LaunchInv'
    <2>1. UNCHANGED <<rec, run, g, w, req, rep, proc>>
      BY <1>2 DEF DeadlinePasses, RequestStop, ProveUnlaunched, FenceUnlaunched,
         durable, native, channel
    <2>2. stop' \in {"none", "user", "abandoned"} /\ proven' \in BOOLEAN
      BY <1>2, <1>t DEF DeadlinePasses, RequestStop, ProveUnlaunched, FenceUnlaunched,
         durable, TypeOK
    <2>6. expired' \in SUBSET Runs
      <3>1. run > 0 => run \in Runs
        BY <1>t, BoundsAssumption DEF TypeOK, Runs
      <3>2. expired' = expired \/ (run > 0 /\ expired' = expired \cup {run})
        BY <1>2 DEF DeadlinePasses, RequestStop, ProveUnlaunched, FenceUnlaunched
      <3> QED BY <1>t, <3>1, <3>2 DEF TypeOK
    <2>3. UNCHANGED <<owner, boot, scope, conn, rpc>>
      BY <1>2 DEF DeadlinePasses, RequestStop, ProveUnlaunched, FenceUnlaunched,
         native, channel
    <2>4. TypeOK'
      BY <1>t, <2>1, <2>2, <2>3, <2>6 DEF TypeOK
    <2>5. WorkerOrder' /\ RepliesPromise' /\ ExecutesAfterDurableLaunch'
      BY <1>t, <2>1 DEF WorkerOrder, RepliesPromise, Promises, ExecutesAfterDurableLaunch
    <2> QED BY <2>1, <2>4, <2>5, WorkerFrame
  <1>3. ASSUME GuardianCrash PROVE LaunchInv'
    <2>1. g' = IdleGuardian /\ UNCHANGED <<rec, w, rep, proc>> /\ req' = <<>>
      BY <1>3 DEF GuardianCrash, EndRun, durable, native
    <2>2. req' \in Seq(Request)
      BY <2>1
    <2>3. TypeOK'
      BY <1>t, <1>3, <2>1, <2>2, IdleGuardianType
         DEF GuardianCrash, EndRun, durable, native, TypeOK
    <2>4. CommitOrder' /\ GuardianOrder'
      BY <1>t, <1>i, <2>1, Settle DEF SettledPCs
    <2> QED BY <2>1, <2>3, <2>4, GuardianFrame
  <1>4. ASSUME WorkerCrash PROVE LaunchInv'
    BY <1>4, WorkerEndsKeepsLaunchInv DEF WorkerCrash
  <1>5. ASSUME Reboot PROVE LaunchInv'
    <2>1. /\ g' = IdleGuardian /\ UNCHANGED <<rec, run>> /\ proc' = Killed
          /\ req' = <<>> /\ rep' = <<>>
      BY <1>5 DEF Reboot, durable
    <2>2. req' \in Seq(Request) /\ rep' \in Seq(Reply) /\ RepliesPromise'
      BY <2>1 DEF RepliesPromise
    <2>3. proc' \in [Launches -> ProcStates] /\ ExecutesAfterDurableLaunch'
      BY <2>1, <1>g, <1>t, KillProcesses, KeepProcesses, BoundsAssumption
    <2>4. w' \in WorkerState /\ WorkerOrder'
      <3>1. CASE w' = w BY <3>1, <1>t, <1>g DEF WorkerOrder
      <3>2. CASE w' = [NoWorker EXCEPT !.pc = "exited"]
        <4>1. w' \in WorkerState
          BY <3>2, WorkerReset DEF WorkerPCs
        <4> QED BY <3>2, <4>1 DEF WorkerOrder, NoWorker
      <3> QED BY <1>5, <3>1, <3>2 DEF Reboot
    <2>5. boot' \in Boots /\ rpc' \in RecoveryPCs
      BY <1>5, <1>t, BoundsAssumption DEF Reboot, TypeOK, Boots, RecoveryPCs
    <2>6. TypeOK'
      BY <1>t, <1>5, <2>1, <2>2, <2>3, <2>4, <2>5, IdleGuardianType
         DEF Reboot, durable, TypeOK
    <2>7. CommitOrder' /\ GuardianOrder'
      BY <1>t, <1>i, <2>1, Settle DEF SettledPCs
    <2> QED BY <2>2, <2>3, <2>4, <2>6, <2>7 DEF LaunchInv
  <1> QED BY <1>1, <1>2, <1>3, <1>4, <1>5 DEF Environment

(* Nothing has been recorded, launched or sent in the initial state.          *)
LEMMA InitLaunchInv == Init => LaunchInv
  <1> SUFFICES ASSUME Init PROVE LaunchInv
    OBVIOUS
  <1>1. rec \in Evidence
    BY BoundsAssumption DEF Init, Evidence, NoEvidence, NoTermination, NoStamp, Stamp,
       Causes, WaitResults
  <1>2. req \in Seq(Request) /\ rep \in Seq(Reply)
    BY DEF Init
  <1>3. proc \in [Launches -> ProcStates]
    BY DEF Init, ProcStates
  <1>4. boot \in Boots /\ run \in 0 .. MaxRuns /\ expired \in SUBSET Runs
    BY BoundsAssumption DEF Init, Boots
  <1>5. w \in WorkerState
    <2>1. NoWorker = [NoWorker EXCEPT !.pc = "none"]
      BY DEF NoWorker
    <2> QED BY <2>1, WorkerReset DEF Init, WorkerPCs
  <1>6. TypeOK
    BY <1>1, <1>2, <1>3, <1>4, <1>5, IdleGuardianType DEF Init, TypeOK, RecoveryPCs
  <1>7. CommitOrder /\ GuardianOrder /\ WorkerOrder
    BY DEF Init, CommitOrder, GuardianOrder, WorkerOrder, NoEvidence, NoStamp,
       IdleGuardian, NoWorker, NoReply, HasIntent, HasRegistration
  <1>8. RepliesPromise /\ ExecutesAfterDurableLaunch
    BY DEF Init, RepliesPromise, ExecutesAfterDurableLaunch
  <1> QED BY <1>6, <1>7, <1>8 DEF LaunchInv

(* LaunchInv is an invariant of the lifetime.                                 *)
THEOREM LaunchInvariant == Spec => []LaunchInv
  <1>1. LaunchInv /\ [Next]_vars => LaunchInv'
    <2> SUFFICES ASSUME LaunchInv, [Next]_vars PROVE LaunchInv'
      OBVIOUS
    <2>1. CASE UNCHANGED vars
      BY <2>1 DEF vars, LaunchInv, TypeOK, CommitOrder, GuardianOrder, RepliesPromise,
         Promises, WorkerOrder, ExecutesAfterDurableLaunch
    <2>2. CASE Next
      BY <2>2, StartupKeepsLaunchInv, ControlKeepsLaunchInv, FinalizationKeepsLaunchInv,
         WorkerKeepsLaunchInv, RecoveryKeepsLaunchInv, EnvironmentKeepsLaunchInv
         DEF Next, GuardianStep
    <2> QED BY <2>1, <2>2
  <1> QED BY InitLaunchInv, <1>1, PTL DEF Spec

(* The type invariant: sequence numbers stay within the task's launch limit   *)
(* in the guardian, the worker and the durable records.                       *)
THEOREM TypeCorrect == Spec => []TypeOK
  <1>1. LaunchInv => TypeOK
    BY DEF LaunchInv
  <1> QED BY LaunchInvariant, <1>1, PTL

(* No provider executes before the durable record of its launch, whatever     *)
(* crashes, lost replies, stale replies, recoveries and reboots intervene.    *)
THEOREM LaunchesAreDurable == Spec => []ExecutesAfterDurableLaunch
  <1>1. LaunchInv => ExecutesAfterDurableLaunch
    BY DEF LaunchInv
  <1> QED BY LaunchInvariant, <1>1, PTL


--------------------
(* The inductive invariant.                                                   *)

BeforeWorker == {"create", "register", "resolve", "start"}
Observing == {"observe", "record", "unrecorded"}
InService == {"serve", "launched"}
Finalizing == {"term", "publish", "await", "wait", "destroy"}

(* The worker may be inside a native Start, or holds or will read the         *)
(* guardian's permission for one.                                             *)
BeginAccepted ==
    /\ w.call = "begin"
    /\ \E i \in DOMAIN rep : rep[i].type = "begin" /\ rep[i].seq = w.sequence /\ rep[i].ok
MayStart == w.pc = "start" \/ BeginAccepted
InStart == w.pc \in {"start", "complete", "startFailed"} \/ BeginAccepted

(* The lifetime-owner lease admits one writer of records.                     *)
Ownership ==
    /\ owner = "guardian" <=> g.pc # "idle"
    /\ owner = "recovery" <=> rpc # "idle"

(* The records in the order they are committed, each bound to the earlier.    *)
RecordOrder ==
    /\ ~HasIntent(rec) => rec = NoEvidence
    /\ HasRegistration(rec) => rec.registration = rec.intent
    /\ ~HasRegistration(rec) =>
          ~rec.worker /\ rec.launches = 0 /\ ~HasTermination(rec) /\ rec.wait \in {"none", "absent"}
    /\ HasTermination(rec) => rec.termination.count = rec.launches
    /\ rec.wait = "absent" => AbsenceBinds(rec)
    /\ rec.wait \notin {"none", "absent"} => NativeWaitBinds(rec)

(* A guardian between its intent and its release: what it has recorded so far *)
(* and whether the worker exists.                                             *)
GuardianRecords ==
    /\ g.pc \in {"create", "register"} => rec.intent = ThisRun /\ ~HasRegistration(rec)
    /\ g.pc = "start" => rec.registration.boot = boot
    /\ g.pc \in BeforeWorker \cup Observing \cup InService =>
          rec.wait = "none" /\ ~HasTermination(rec)
    /\ g.pc \in {"start"} \cup Observing \cup InService \cup Finalizing => HasRegistration(rec)
    /\ g.pc \in {"owned", "intent"} \cup BeforeWorker => ~g.started
    /\ g.pc \in BeforeWorker => ~rec.worker
    /\ g.pc \in Observing \cup InService => g.started
    /\ g.pc \in {"observe", "unrecorded"} => ~rec.worker
    /\ g.pc \in InService => rec.worker
    /\ g.pc \in BeforeWorker \cup Observing \cup InService \cup Finalizing =>
          (g.started <=> w.pc # "none")
    /\ g.pc \in Finalizing =>
          IF g.started THEN rec.worker \/ rec.wait = "unqualified" ELSE ~rec.worker

(* A worker that is not recorded yet has not been served: it has done nothing. *)
UnrecordedWorker ==
    ~rec.worker \/ g.pc = "record" =>
        /\ \/ w.pc \in {"none", "boot", "exit", "exited"}
           \/ w.pc = "call" /\ w.call = "hello"
        /\ rep = <<>> /\ rec.launches = 0
        /\ \A s \in Launches : proc[s] = "none"
        /\ g.pending = NoReply

(* One worker per registration, and no process survives its boot.             *)
BootOrder ==
    /\ w.pc # "none" => HasRegistration(rec)
    /\ w.pc = "none" => ~rec.worker
    /\ WorkerAlive \/ Live # {} => rec.registration.boot = boot

(* What the durable ends say of the worker and of the scope.                  *)
Ended ==
    /\ rec.wait # "none" => ~WorkerAlive
    /\ rec.termination.cause = "previous-boot" => ~WorkerAlive
    /\ HasTermination(rec) => Live = {} /\ ~InStart
    /\ w.terminal => HasTermination(rec)
    /\ \A i \in DOMAIN rep :
          rep[i].ok /\ rep[i].type \in {"stop", "close"} => HasTermination(rec)

(* The finalizer's order: fence, empty, publish, wait, destroy.               *)
FinalOrder ==
    /\ g.waitObserved => w.pc = "exited"
    /\ g.cause # "previous-boot"
    /\ g.pc \in {"term", "publish"} => g.cause # "none"
    /\ g.pc = "term" => ~HasTermination(rec)
    /\ g.pc = "publish" =>
          /\ Live = {} /\ ~InStart
          /\ HasTermination(rec) => rec.termination = TerminationOfLaunched
    /\ g.pc \in {"await", "wait", "destroy"} => HasTermination(rec)
    /\ g.pc \in {"term", "publish", "await"} => rec.wait \in {"none", "unqualified"}
    /\ g.pc = "wait" =>
          /\ rec.wait \in {"none", IF g.started THEN "native" ELSE "not-started"}
          /\ g.started => w.pc = "exited"
    /\ g.pc = "destroy" => rec.wait # "none"
    /\ g.pc = "release" => Closed(rec) \/ ~HasRegistration(rec)

(* What recovery has established at each of its steps.                        *)
RecoveryOrder ==
    /\ rpc = "dispose" => HasIntent(rec) /\ ~HasRegistration(rec) /\ rec.wait = "none"
    /\ rpc = "absence" =>
          /\ ~WorkerAlive /\ Live = {} /\ HasIntent(rec)
          /\ HasRegistration(rec) => HasTermination(rec)
    /\ rpc = "previousBoot" => rec.registration.boot # boot
    /\ rpc \in {"previousBoot", "open", "wait", "again", "terminate"} =>
          HasRegistration(rec) /\ ~HasTermination(rec)
    /\ rpc = "again" => ~WorkerAlive
    /\ rpc = "terminate" => Live = {} /\ (~WorkerAlive \/ ~rec.worker)
    /\ rpc \in {"completion", "finish"} => HasRegistration(rec) /\ HasTermination(rec)

(* The guardian knows of every Start and of every process while it serves.    *)
StartOrder ==
    /\ g.pc \in InService \cup {"term"} /\ InStart => g.authorized = w.sequence
    /\ g.pc \in InService => Live \subseteq {g.authorized, g.active}
    /\ g.authorized # 0 \/ g.pc = "launched" => g.active = 0
    /\ MayStart \/ w.pc = "startFailed" => Live = {}
    /\ WorkerAlive => \A s \in Launches : proc[s] # "none" => s <= w.sequence
    /\ w.call = "begin" \/ w.pc = "start" =>
          \A s \in Launches : s = w.sequence => proc[s] = "none"
    /\ w.pc = "complete" \/ w.call = "started" =>
          \A s \in Launches : s = w.sequence => proc[s] # "none"

(* A launch never shares the scope with another one.                          *)
OneLaunch == SerialLaunches

(* Requests on their way to the guardian are the worker's past.               *)
RequestOrder ==
    /\ w.pc = "none" => req = <<>>
    /\ \A i \in DOMAIN req :
          /\ WorkerAlive /\ req[i].type \in {"begin", "started", "failed"} =>
                req[i].seq <= w.sequence
          /\ req[i].type \in {"started", "failed"} /\ req[i].seq = w.sequence =>
                ~InStart /\ w.call # "begin"
          /\ req[i].type = "failed" => req[i].seq \notin Live

(* Permissions on their way to the worker are for starts it has asked for.    *)
ReplyOrder ==
    WorkerAlive => \A i \in DOMAIN rep : rep[i].ok /\ rep[i].type = "begin" =>
                                             rep[i].seq <= w.sequence

(* The client's mutex: the execution thread is blocked in its own call.       *)
ClientThread == w.pc = "call" <=> w.call \notin {"none", "stop"}

(* A proof that nothing was launched.                                         *)
Unlaunched == proven => stop # "none" /\ rec = NoEvidence /\ g.pc \in {"idle", "owned"}

EvidenceInv ==
    /\ Ownership /\ RecordOrder /\ GuardianRecords /\ UnrecordedWorker /\ BootOrder
    /\ Ended /\ FinalOrder /\ RecoveryOrder /\ StartOrder /\ OneLaunch /\ RequestOrder
    /\ ReplyOrder /\ ClientThread /\ Unlaunched
--------------------
(* Everything of the guardian's private state but its place.                  *)
KeepsBookkeeping ==
    /\ g'.cause = g.cause /\ g'.started = g.started /\ g'.waitObserved = g.waitObserved
    /\ g'.authorized = g.authorized /\ g'.active = g.active /\ g'.pending = g.pending

(* A guardian process that has ended has no private state left.               *)
ForgetsBookkeeping ==
    /\ g'.pc = "idle" /\ g'.cause = "none" /\ ~g'.started /\ ~g'.waitObserved
    /\ g'.authorized = 0 /\ g'.active = 0 /\ g'.pending = NoReply

(* A guardian that enters the finalizer keeps its launch bookkeeping and the  *)
(* first cause of the termination.                                            *)
EntersTermination ==
    /\ g'.pc = "term" /\ g'.started = g.started
    /\ g'.authorized = g.authorized /\ g'.active = g.active
    /\ g'.cause \notin {"none", "previous-boot"}

(* The decision recovery takes on the evidence it loads is one it may act on. *)
LEMMA RecoveryEntry ==
  ASSUME RecordOrder, UnrecordedWorker, BootOrder, Ended, HasIntent(rec) \/ HasRegistration(rec),
         rpc' = RecoveryStep(rec, boot), UNCHANGED <<rec, boot, w, proc>>
  PROVE  rpc' # "idle" /\ RecoveryOrder'
  <1> USE DEF RecordOrder, UnrecordedWorker, BootOrder, Ended, Live, LiveStates, WorkerAlive,
          RecoveryOrder
  <1>1. HasIntent(rec)
    BY DEF HasIntent, HasRegistration
  <1>2. CASE Closed(rec) BY <1>2 DEF RecoveryStep
  <1>3. CASE ~Closed(rec) /\ ~HasRegistration(rec)
    <2>1. rpc' \in {"dispose", "absence"}
      BY <1>3 DEF RecoveryStep
    <2>2. rec.wait = "none" /\ w.pc = "none" /\ Live = {}
      BY <1>3 DEF Closed
    <2> QED BY <1>1, <1>3, <2>1, <2>2
  <1>4. CASE ~Closed(rec) /\ HasRegistration(rec) /\ rec.registration.boot # boot
    BY <1>1, <1>4 DEF RecoveryStep
  <1>5. CASE ~Closed(rec) /\ HasRegistration(rec) /\ rec.registration.boot = boot
    <2>1. rpc' = IF HasTermination(rec) THEN "completion" ELSE "open"
      BY <1>5 DEF RecoveryStep
    <2> QED BY <1>5, <2>1
  <1> QED BY <1>2, <1>3, <1>4, <1>5

(* A guardian that gives its lease up, by choice or by a crash, leaves the    *)
(* evidence as it is.                                                         *)
LEMMA RunEndKeepsEvidence ==
  ASSUME EvidenceInv, g.pc # "idle", EndRun, req' \in {req, <<>>},
         UNCHANGED <<rec, stop, proven, boot, run, proc, w, rep, rpc>>
  PROVE  EvidenceInv'
  <1>1. ForgetsBookkeeping /\ owner' = "none"
    BY DEF EndRun, IdleGuardian, ForgetsBookkeeping
  <1> QED BY <1>1 DEF EvidenceInv, ForgetsBookkeeping, Ownership, RecordOrder, GuardianRecords,
       UnrecordedWorker, BootOrder, Ended, FinalOrder, RecoveryOrder, StartOrder, OneLaunch,
       RequestOrder, ReplyOrder, ClientThread, Unlaunched, BeforeWorker, Observing, InService,
       Finalizing, SerialLaunches, Live, WorkerAlive, InStart, MayStart, BeginAccepted,
       TerminationOfLaunched, ThisRun

(* Startup.                                                                   *)
LEMMA StartupKeepsEvidence ==
  ASSUME LaunchInv, EvidenceInv, GuardianStartup
  PROVE  EvidenceInv'
  <1>t. TypeOK /\ CommitOrder /\ GuardianOrder
    BY DEF LaunchInv
  <1>g. g \in GuardianState /\ rec \in Evidence /\ run \in 0 .. MaxRuns /\ boot \in Boots
        /\ w \in WorkerState
    BY <1>t DEF TypeOK
  <1> USE DEF durable, native, channel, At
  <1> USE DEF Ownership, RecordOrder, GuardianRecords, UnrecordedWorker, BootOrder, Ended,
          FinalOrder, RecoveryOrder, StartOrder, OneLaunch, RequestOrder, ReplyOrder,
          ClientThread, Unlaunched, BeforeWorker, Observing, InService, Finalizing,
          SerialLaunches, Live, WorkerAlive, InStart, MayStart, BeginAccepted,
          TerminationOfLaunched, ThisRun
  <1>1. ASSUME RefuseTerminalReplay PROVE EvidenceInv'
    BY <1>1, RunEndKeepsEvidence DEF RefuseTerminalReplay
  <1>2. ASSUME RecoverExpiredStart PROVE EvidenceInv'
    <2>1. /\ g.pc = "owned" /\ ForgetsBookkeeping
          /\ UNCHANGED <<durable, native, run, expired, w, channel>>
      BY <1>2 DEF RecoverExpiredStart, ForgetsBookkeeping, IdleGuardian
    <2>2. Ownership' /\ RecoveryOrder'
      <3>1. CASE owner' = "none" /\ UNCHANGED rpc
        BY <2>1, <3>1 DEF EvidenceInv, ForgetsBookkeeping
      <3>2. CASE /\ owner' = "recovery" /\ rpc' = RecoveryStep(rec, boot)
                 /\ HasIntent(rec) \/ HasRegistration(rec)
        <4>1. rpc' # "idle" /\ RecoveryOrder'
          BY <2>1, <3>2, RecoveryEntry DEF EvidenceInv
        <4> QED BY <2>1, <3>2, <4>1 DEF ForgetsBookkeeping
      <3> QED BY <1>2, <3>1, <3>2 DEF RecoverExpiredStart
    <2> QED BY <2>1, <2>2 DEF EvidenceInv, ForgetsBookkeeping
  <1>3. ASSUME PermitIntent PROVE EvidenceInv'
    <2>1. /\ g.pc = "owned" /\ g'.pc = "intent" /\ KeepsBookkeeping
          /\ stop = "none" /\ UNCHANGED <<durable, owner, native, run, expired, w, channel, rpc>>
      BY <1>g, <1>3 DEF PermitIntent, GuardianState, KeepsBookkeeping, LaunchRefused
    <2> QED BY <2>1 DEF EvidenceInv, KeepsBookkeeping
  <1>4. ASSUME RecordIntent PROVE EvidenceInv'
    <2>1. CASE ~HasIntent(rec) /\ rec' = [rec EXCEPT !.intent = ThisRun]
      <3>1. /\ rec = NoEvidence /\ ~proven /\ g.pc = "intent" /\ run # 0
            /\ UNCHANGED <<stop, proven, native, run, expired, w, channel, rpc>>
        BY <1>t, <1>4, <2>1 DEF RecordIntent, EvidenceInv, CommitOrder
      <3>2. /\ rec'.intent = ThisRun /\ rec'.registration = NoStamp /\ ~rec'.worker
            /\ rec'.launches = 0 /\ rec'.termination = NoTermination /\ rec'.wait = "none"
            /\ HasIntent(rec') /\ ~HasRegistration(rec') /\ ~HasTermination(rec')
        BY <2>1, <3>1 DEF NoEvidence, NoStamp, NoTermination, HasIntent, HasRegistration,
           HasTermination
      <3>3. \/ ForgetsBookkeeping /\ owner' = "none"
            \/ KeepsBookkeeping /\ g'.pc = "create" /\ UNCHANGED owner
        BY <1>g, <1>4, <2>1 DEF RecordIntent, EndRun, IdleGuardian, ForgetsBookkeeping,
           KeepsBookkeeping, GuardianState
      <3>4. w.pc = "none" /\ ~rec.worker /\ ~HasTermination(rec)
        BY <3>1 DEF EvidenceInv, HasRegistration, HasTermination, NoEvidence, NoStamp,
           NoTermination
      <3> QED BY <2>1, <3>1, <3>2, <3>3, <3>4 DEF EvidenceInv, ForgetsBookkeeping, KeepsBookkeeping,
           NoTermination
    <2>2. CASE UNCHANGED rec /\ EndRun
      BY <1>4, <2>2, RunEndKeepsEvidence DEF RecordIntent
    <2> QED BY <1>4, <2>1, <2>2 DEF RecordIntent
  <1>5. ASSUME CreateScope PROVE EvidenceInv'
    <2>1. CASE EndRun BY <1>5, <2>1, RunEndKeepsEvidence DEF CreateScope
    <2>2. CASE g' = [g EXCEPT !.pc = "register"] /\ UNCHANGED owner
      <3>1. /\ g.pc = "create" /\ g'.pc = "register" /\ KeepsBookkeeping
            /\ UNCHANGED <<durable, owner, boot, proc, run, expired, w, channel, rpc>>
        BY <1>g, <1>5, <2>2 DEF CreateScope, GuardianState, KeepsBookkeeping
      <3> QED BY <3>1 DEF EvidenceInv, KeepsBookkeeping
    <2> QED BY <1>5, <2>1, <2>2 DEF CreateScope
  <1>6. ASSUME BindAndRecordRunScope PROVE EvidenceInv'
    <2>1. /\ g.pc = "register" /\ g'.pc \in {"resolve", "start"} /\ KeepsBookkeeping
          /\ UNCHANGED <<stop, proven, owner, native, run, expired, w, channel, rpc>>
      BY <1>g, <1>6 DEF BindAndRecordRunScope, GuardianState, KeepsBookkeeping
    <2>2. CASE UNCHANGED rec
      <3>1. g'.pc = "resolve"
        BY <1>g, <1>6, <1>t, <2>1, <2>2 DEF BindAndRecordRunScope, GuardianState, EvidenceInv,
           Evidence, CommitOrder, HasRegistration
      <3> QED BY <2>1, <2>2, <3>1 DEF EvidenceInv, KeepsBookkeeping
    <2>3. CASE rec' = [rec EXCEPT !.registration = ThisRun]
      <3>1. /\ rec'.intent = rec.intent /\ rec'.registration = ThisRun
            /\ rec'.worker = rec.worker /\ rec'.launches = rec.launches
            /\ rec'.termination = rec.termination /\ rec'.wait = rec.wait
        BY <1>g, <2>3 DEF Evidence
      <3>2. HasIntent(rec) /\ HasIntent(rec') /\ ~HasRegistration(rec) /\ HasRegistration(rec')
            /\ run # 0
        BY <1>t, <2>1, <3>1 DEF CommitOrder, HasIntent, HasRegistration, EvidenceInv
      <3> QED BY <2>1, <3>1, <3>2 DEF EvidenceInv, KeepsBookkeeping, HasTermination, ThisRun
    <2> QED BY <1>6, <2>2, <2>3 DEF BindAndRecordRunScope
  <1>7. ASSUME ResolveCreatedScopeFailure PROVE EvidenceInv'
    <2>1. /\ g.pc = "resolve"
          /\ UNCHANGED <<durable, owner, boot, proc, run, expired, w, channel, rpc>>
      BY <1>7 DEF ResolveCreatedScopeFailure
    <2>2. CASE HasRegistration(rec)
      <3>0. g.cause # "previous-boot"
        BY DEF EvidenceInv
      <3>1. EntersTermination /\ g'.pending = NoReply /\ g'.waitObserved = g.waitObserved
        BY <1>g, <1>7, <2>2, <3>0 DEF ResolveCreatedScopeFailure, EnterTermination,
           ScopePublished, EntersTermination, GuardianState
      <3> QED BY <2>1, <2>2, <3>1 DEF EvidenceInv, EntersTermination
    <2>3. CASE ~HasRegistration(rec)
      <3>1. g'.pc = "release" /\ KeepsBookkeeping
        BY <1>g, <1>7, <2>3 DEF ResolveCreatedScopeFailure, ScopePublished, KeepsBookkeeping,
           GuardianState
      <3> QED BY <2>1, <2>3, <3>1 DEF EvidenceInv, KeepsBookkeeping
    <2> QED BY <2>2, <2>3
  <1>8. ASSUME StartWorker PROVE EvidenceInv'
    <2>1. g.pc = "start" /\ UNCHANGED <<durable, owner, native, run, expired, req, rep, rpc>>
      BY <1>8 DEF StartWorker
    <2>2. CASE UNCHANGED w
      <3>1. EntersTermination /\ g'.pending = NoReply /\ g'.waitObserved = g.waitObserved
        BY <1>g, <1>8, <2>1, <2>2 DEF StartWorker, EnterTermination,
           EntersTermination, GuardianState, EvidenceInv, NoWorker
      <3> QED BY <2>1, <2>2, <3>1 DEF EvidenceInv, EntersTermination
    <2>3. CASE w' = [NoWorker EXCEPT !.pc = "boot"]
      <3>1. /\ g'.pc = "observe" /\ g'.started /\ g'.cause = g.cause
            /\ g'.waitObserved = g.waitObserved /\ g'.authorized = g.authorized
            /\ g'.active = g.active /\ g'.pending = g.pending
        BY <1>g, <1>8, <2>1, <2>3 DEF StartWorker, GuardianState, EnterTermination, NoWorker,
           EvidenceInv
      <3>2. w'.pc = "boot" /\ w'.call = "none" /\ ~w'.terminal /\ w'.sequence = 0
        BY <2>3 DEF NoWorker
      <3> QED BY <2>1, <3>1, <3>2 DEF EvidenceInv, HasTermination
    <2> QED BY <1>8, <2>2, <2>3 DEF StartWorker
  <1>9. ASSUME ObserveWorker PROVE EvidenceInv'
    <2>1. /\ g.pc = "observe" /\ g'.pc \in {"record", "unrecorded"} /\ KeepsBookkeeping
          /\ UNCHANGED <<durable, owner, native, run, expired, w, req, rep, rpc>>
      BY <1>g, <1>9 DEF ObserveWorker, GuardianState, KeepsBookkeeping
    <2> QED BY <2>1 DEF EvidenceInv, KeepsBookkeeping
  <1>10. ASSUME PersistWorkerIdentity PROVE EvidenceInv'
    <2>1. /\ g.pc = "record" /\ g'.pc \in {"record", "serve"} /\ KeepsBookkeeping
          /\ UNCHANGED <<stop, proven, owner, native, run, expired, w, channel, rpc>>
      BY <1>g, <1>10 DEF PersistWorkerIdentity, GuardianState, KeepsBookkeeping
    <2>2. /\ rec'.intent = rec.intent /\ rec'.registration = rec.registration
          /\ rec'.worker /\ rec'.launches = rec.launches
          /\ rec'.termination = rec.termination /\ rec'.wait = rec.wait
      BY <1>g, <1>10 DEF PersistWorkerIdentity, Evidence
    <2> QED BY <2>1, <2>2 DEF EvidenceInv, KeepsBookkeeping, HasIntent, HasRegistration,
         HasTermination, NoEvidence, NoStamp, LiveStates
  <1>11. ASSUME PersistUnrecordedWait PROVE EvidenceInv'
    <2>1. /\ g.pc = "unrecorded" /\ w.pc = "exited" /\ Exact
          /\ UNCHANGED <<stop, proven, owner, native, run, expired, w, channel, rpc>>
          /\ g'.pc = "term" /\ g'.waitObserved /\ g'.cause = "recovery"
          /\ g'.started = g.started /\ g'.authorized = g.authorized
          /\ g'.active = g.active /\ g'.pending = g.pending
      BY <1>g, <1>11 DEF PersistUnrecordedWait, UnboundWaitAccepted, GuardianState
    <2>2. /\ rec'.intent = rec.intent /\ rec'.registration = rec.registration
          /\ rec'.worker = rec.worker /\ rec'.launches = rec.launches
          /\ rec'.termination = rec.termination /\ rec'.wait = "unqualified"
      BY <1>g, <1>11 DEF PersistUnrecordedWait, Evidence
    <2> QED BY <2>1, <2>2 DEF EvidenceInv, HasIntent, HasRegistration, HasTermination, NoEvidence,
         NoStamp, NativeWaitBinds
  <1> QED BY <1>1, <1>2, <1>3, <1>4, <1>5, <1>6, <1>7, <1>8, <1>9, <1>10, <1>11 DEF GuardianStartup
--------------------
(* The scope after Terminate.                                                 *)
LEMMA KilledScope ==
  ASSUME proc \in [Launches -> ProcStates], proc' = Killed
  PROVE  /\ Live' = {}
         /\ \A s \in Launches : proc'[s] = "none" <=> proc[s] = "none"
  BY DEF Killed, Live, LiveStates, ProcStates

(* A reply joins the channel behind the others.                               *)
LEMMA AppendedReply ==
  ASSUME rep \in Seq(Reply), NEW r \in Reply, rep' = Append(rep, r)
  PROVE  /\ \A i \in DOMAIN rep : i \in DOMAIN rep' /\ rep'[i] = rep[i]
         /\ \A i \in DOMAIN rep' : (i \in DOMAIN rep /\ rep'[i] = rep[i]) \/ rep'[i] = r
         /\ \E i \in DOMAIN rep' : rep'[i] = r
  OBVIOUS

(* The head of a channel is read, the rest stays in order.                    *)
LEMMA TakenRequest ==
  ASSUME req \in Seq(Request), req # <<>>, req' = Tail(req)
  PROVE  /\ \A i \in DOMAIN req' : i + 1 \in DOMAIN req /\ req'[i] = req[i + 1]
         /\ 1 \in DOMAIN req /\ Head(req) = req[1] /\ Head(req) \in Request
  OBVIOUS

(* A reply that grants nothing: no permission to start, no termination.       *)
Harmless(r) == ~(r.ok /\ r.type \in {"begin", "stop", "close"})
RepliesHarmlessly == rep' = rep \/ \E r \in Reply : Harmless(r) /\ rep' = Append(rep, r)

(* It changes nothing the worker may rely on.                                 *)
LEMMA HarmlessReply ==
  ASSUME rep \in Seq(Reply), RepliesHarmlessly, UNCHANGED w
  PROVE  /\ \A i \in DOMAIN rep' :
               ~Harmless(rep'[i]) => \E j \in DOMAIN rep : rep[j] = rep'[i]
         /\ BeginAccepted' <=> BeginAccepted
  <1>1. CASE rep' = rep BY <1>1 DEF BeginAccepted
  <1>2. ASSUME NEW r \in Reply, Harmless(r), rep' = Append(rep, r)
        PROVE  /\ \A i \in DOMAIN rep' :
                     ~Harmless(rep'[i]) => \E j \in DOMAIN rep : rep[j] = rep'[i]
               /\ BeginAccepted' <=> BeginAccepted
    <2>1. /\ \A i \in DOMAIN rep : i \in DOMAIN rep' /\ rep'[i] = rep[i]
          /\ \A i \in DOMAIN rep' : (i \in DOMAIN rep /\ rep'[i] = rep[i]) \/ rep'[i] = r
      BY <1>2, AppendedReply
    <2> QED BY <1>2, <2>1 DEF Harmless, BeginAccepted
  <1> QED BY <1>1, <1>2 DEF RepliesHarmlessly

(* A step of the serving guardian that grants nothing and at most records a   *)
(* launch keeps the evidence if its bookkeeping still covers every Start and  *)
(* every process.                                                             *)
LEMMA ServiceStep ==
  ASSUME LaunchInv, EvidenceInv, g.pc \in InService, g'.pc \in InService \cup {"term"},
         g'.started = g.started, g'.waitObserved => w.pc = "exited",
         g'.cause # "previous-boot", g'.pc = "term" => g'.cause # "none",
         req' = req \/ (req # <<>> /\ req' = Tail(req)), RepliesHarmlessly,
         proc' \in {proc, Killed},
         rec' = rec \/ \E n \in Launches : rec' = [rec EXCEPT !.launches = n],
         UNCHANGED <<stop, proven, owner, boot, run, w, rpc>>,
         g'.authorized # 0 \/ g'.pc = "launched" => g'.active = 0,
         InStart => g'.authorized = w.sequence,
         Live' \subseteq {g'.authorized, g'.active}
  PROVE  EvidenceInv'
  <1>t. /\ proc \in [Launches -> ProcStates] /\ rep \in Seq(Reply) /\ req \in Seq(Request)
        /\ rec \in Evidence
    BY DEF LaunchInv, TypeOK
  <1>r. /\ rec'.intent = rec.intent /\ rec'.registration = rec.registration
        /\ rec'.worker = rec.worker /\ rec'.termination = rec.termination
        /\ rec'.wait = rec.wait
    BY <1>t DEF Evidence
  <1>h. /\ HasIntent(rec') <=> HasIntent(rec)
        /\ HasRegistration(rec') <=> HasRegistration(rec)
        /\ HasTermination(rec') <=> HasTermination(rec)
    BY <1>r DEF HasIntent, HasRegistration, HasTermination
  <1>1. /\ Live' \subseteq Live
        /\ \A s \in Launches : proc'[s] = "none" <=> proc[s] = "none"
    BY <1>t, KilledScope DEF Live
  <1>2. /\ \A i \in DOMAIN rep' :
               ~Harmless(rep'[i]) => \E j \in DOMAIN rep : rep[j] = rep'[i]
        /\ BeginAccepted' <=> BeginAccepted
    BY <1>t, HarmlessReply
  <1>3. (InStart' <=> InStart) /\ (MayStart' <=> MayStart) /\ (WorkerAlive' <=> WorkerAlive)
    BY <1>2 DEF InStart, MayStart, WorkerAlive
  <1>4. /\ rec.worker /\ ~HasTermination(rec) /\ HasRegistration(rec) /\ HasIntent(rec)
        /\ rec.wait = "none" /\ rpc = "idle" /\ w.pc # "none" /\ ~proven
    BY DEF EvidenceInv, GuardianRecords, Ownership, InService, LaunchInv, CommitOrder, Unlaunched
  <1>5. Ownership' /\ RecordOrder' /\ GuardianRecords' /\ UnrecordedWorker' /\ ClientThread'
        /\ Unlaunched'
    BY <1>r, <1>h, <1>4 DEF EvidenceInv, Ownership, RecordOrder, GuardianRecords, UnrecordedWorker,
       ClientThread, Unlaunched, InService, BeforeWorker, Observing, Finalizing, ThisRun
  <1>6. BootOrder' /\ RecoveryOrder' /\ OneLaunch'
    BY <1>r, <1>h, <1>1, <1>3, <1>4 DEF EvidenceInv, BootOrder, RecoveryOrder, OneLaunch,
       SerialLaunches
  <1>7. Ended'
    BY <1>r, <1>h, <1>1, <1>2, <1>3, <1>4 DEF EvidenceInv, Ended, Harmless
  <1>8. FinalOrder'
    BY <1>r, <1>h, <1>4 DEF EvidenceInv, FinalOrder, GuardianRecords, InService
  <1>9. StartOrder'
    BY <1>1, <1>3, <1>4 DEF EvidenceInv, StartOrder, InService
  <1>10. RequestOrder'
    <2>1. CASE req' = req BY <1>1, <1>3, <2>1 DEF EvidenceInv, RequestOrder
    <2>2. CASE req # <<>> /\ req' = Tail(req)
      <3>1. \A i \in DOMAIN req' : i + 1 \in DOMAIN req /\ req'[i] = req[i + 1]
        BY <1>t, <2>2, TakenRequest
      <3> QED BY <1>1, <1>3, <1>4, <3>1 DEF EvidenceInv, RequestOrder
    <2> QED BY <2>1, <2>2
  <1>11. ReplyOrder'
    BY <1>2, <1>3 DEF EvidenceInv, ReplyOrder, Harmless
  <1> QED BY <1>5, <1>6, <1>7, <1>8, <1>9, <1>10, <1>11 DEF EvidenceInv
(* A handler that answers goes on serving, or recovers when the reply cannot  *)
(* be written.                                                                *)
LEMMA AnswerBookkeeping ==
  ASSUME NEW s \in GuardianState, s.pc = "serve", s.cause # "previous-boot",
         NEW m \in Request, NEW ok \in BOOLEAN, Answer(s, m, ok)
  PROVE  /\ g'.pc \in {"serve", "term"} /\ g'.started = s.started
         /\ g'.waitObserved = s.waitObserved
         /\ g'.authorized = s.authorized /\ g'.active = s.active
         /\ g'.cause # "previous-boot" /\ (g'.pc = "term" => g'.cause # "none")
         /\ rep' = rep \/ rep' = Append(rep, ReplyTo(m, ok))
         /\ ReplyTo(m, ok) \in Reply
  <1>1. ReplyTo(m, ok) \in Reply
    BY DEF ReplyTo, Reply, Request
  <1>2. g' = s \/ g' = Recovering(s)
    BY DEF Answer
  <1>3. rep' = rep \/ rep' = Append(rep, ReplyTo(m, ok))
    BY DEF Answer
  <1>4. CASE g' = s BY <1>1, <1>3, <1>4
  <1>5. CASE g' = Recovering(s) BY <1>1, <1>3, <1>5 DEF Recovering, GuardianState
  <1> QED BY <1>2, <1>4, <1>5

(* A handler that refuses and recovers.                                       *)
LEMMA RejectBookkeeping ==
  ASSUME NEW s \in GuardianState, s.cause # "previous-boot",
         NEW m \in Request, RejectAndRecover(s, m)
  PROVE  /\ g'.pc = "term" /\ g'.started = s.started /\ g'.waitObserved = s.waitObserved
         /\ g'.authorized = s.authorized /\ g'.active = s.active
         /\ g'.cause \notin {"none", "previous-boot"}
         /\ RepliesHarmlessly
  <1>1. ReplyTo(m, FALSE) \in Reply /\ Harmless(ReplyTo(m, FALSE))
    BY DEF ReplyTo, Reply, Request, Harmless
  <1>2. RepliesHarmlessly
    BY <1>1 DEF RejectAndRecover, RepliesHarmlessly
  <1> QED BY <1>2 DEF RejectAndRecover, Recovering, GuardianState

(* The request at the head of the channel: what its sender has done.          *)
LEMMA HeadRequest ==
  ASSUME LaunchInv, EvidenceInv, req # <<>>
  PROVE  LET m == Head(req) IN
         /\ m \in Request
         /\ m.type \in {"started", "failed"} /\ m.seq = w.sequence => ~InStart
         /\ m.type = "failed" => m.seq \notin Live
         /\ WorkerAlive /\ m.type = "begin" => m.seq <= w.sequence
  <1>1. req \in Seq(Request)
    BY DEF LaunchInv, TypeOK
  <1>2. 1 \in DOMAIN req /\ Head(req) = req[1] /\ Head(req) \in Request
    BY <1>1
  <1> QED BY <1>2 DEF EvidenceInv, RequestOrder

(* Control: hello, refusals, reports of failed and finished commands, stop    *)
(* and close requests, and the events that end serving.                       *)
LEMMA ServiceKeepsEvidence ==
  ASSUME LaunchInv, EvidenceInv,
         \/ HandleHello \/ AcknowledgeStarted \/ HandleFailed \/ HandleFinish
         \/ HandleTermination \/ ServeEvent \/ ServeFault \/ ReaderDeadline
  PROVE  EvidenceInv'
  <1>g. /\ g \in GuardianState /\ proc \in [Launches -> ProcStates] /\ rep \in Seq(Reply)
        /\ Live \subseteq Launches /\ 0 \notin Launches
    BY DEF LaunchInv, TypeOK, Live, Launches
  <1>c. /\ g.cause # "previous-boot" /\ (g.waitObserved => w.pc = "exited")
        /\ g.authorized # 0 \/ g.pc = "launched" => g.active = 0
        /\ g.pc \in InService /\ InStart => g.authorized = w.sequence
        /\ g.pc \in InService => Live \subseteq {g.authorized, g.active}
    BY DEF EvidenceInv, FinalOrder, StartOrder
  <1>l. proc' = proc => Live' = Live
    BY DEF Live
  <1>k. proc' = Killed => Live' = {}
    BY <1>g, KilledScope
  <1> USE DEF durable, native, channel, At, InService, Serving
  <1>1. ASSUME HandleHello PROVE EvidenceInv'
    <2> DEFINE s == [g EXCEPT !.hello = TRUE]
    <2>1. /\ g.pc = "serve" /\ req # <<>> /\ Head(req).type = "hello" /\ req' = Tail(req)
          /\ Answer(s, Head(req), ~g.hello)
          /\ UNCHANGED <<durable, owner, native, run, expired, w, conn, rpc>>
      BY <1>1 DEF HandleHello
    <2>2. Head(req) \in Request
      BY <2>1, HeadRequest
    <2>3. /\ s \in GuardianState /\ s.pc = "serve" /\ s.cause = g.cause /\ s.started = g.started
          /\ s.waitObserved = g.waitObserved /\ s.authorized = g.authorized
          /\ s.active = g.active /\ (~g.hello) \in BOOLEAN
      BY <1>g, <2>1 DEF GuardianState
    <2>4. /\ g'.pc \in {"serve", "term"} /\ g'.started = g.started
          /\ g'.waitObserved = g.waitObserved
          /\ g'.authorized = g.authorized /\ g'.active = g.active
          /\ g'.cause # "previous-boot" /\ (g'.pc = "term" => g'.cause # "none")
          /\ rep' = rep \/ rep' = Append(rep, ReplyTo(Head(req), ~g.hello))
          /\ ReplyTo(Head(req), ~g.hello) \in Reply
      BY <1>c, <2>1, <2>2, <2>3, AnswerBookkeeping
    <2>5. RepliesHarmlessly
      BY <2>1, <2>4 DEF RepliesHarmlessly, Harmless, ReplyTo
    <2> QED BY <1>c, <1>l, <2>1, <2>4, <2>5, ServiceStep
  <1>2. ASSUME AcknowledgeStarted PROVE EvidenceInv'
    <2> DEFINE m == Head(req)
               s == [g EXCEPT !.pc = "serve", !.authorized = 0, !.active = m.seq]
    <2>1. /\ g.pc = "launched" /\ req # <<>> /\ m.type = "started" /\ req' = Tail(req)
          /\ m.seq = g.authorized
          /\ UNCHANGED <<durable, owner, native, run, expired, w, conn, rpc>>
      BY <1>2 DEF AcknowledgeStarted, LaunchInv, GuardianOrder
    <2>a. Answer(s, m, TRUE)
      BY <1>2 DEF AcknowledgeStarted
    <2>2. m \in Request /\ ~InStart
      BY <1>c, <2>1, HeadRequest
    <2>3. /\ s \in GuardianState /\ s.pc = "serve" /\ s.cause = g.cause /\ s.started = g.started
          /\ s.waitObserved = g.waitObserved /\ s.authorized = 0 /\ s.active = g.authorized
      <3>1. m.seq \in 0 .. MaxLaunches /\ 0 \in 0 .. MaxLaunches
        BY <1>g, <2>1, BoundsAssumption DEF GuardianState
      <3> HIDE DEF m
      <3> QED BY <1>g, <2>1, <3>1 DEF GuardianState, GuardianPCs
    <2>4. /\ g'.pc \in {"serve", "term"} /\ g'.started = g.started
          /\ g'.waitObserved = g.waitObserved
          /\ g'.authorized = 0 /\ g'.active = g.authorized
          /\ g'.cause # "previous-boot" /\ (g'.pc = "term" => g'.cause # "none")
          /\ rep' = rep \/ rep' = Append(rep, ReplyTo(m, TRUE))
          /\ ReplyTo(m, TRUE) \in Reply
      BY <1>c, <2>1, <2>a, <2>2, <2>3, AnswerBookkeeping
    <2>5. RepliesHarmlessly
      BY <2>1, <2>4 DEF RepliesHarmlessly, Harmless, ReplyTo
    <2>6. Live' \subseteq {g'.authorized, g'.active}
      BY <1>g, <1>c, <1>l, <2>1, <2>4
    <2> QED BY <1>c, <2>1, <2>2, <2>4, <2>5, <2>6, ServiceStep
  <1>3. ASSUME HandleFailed PROVE EvidenceInv'
    <2> DEFINE m == Head(req)
    <2>1. /\ g.pc = "serve" /\ req # <<>> /\ m.type = "failed" /\ req' = Tail(req)
          /\ UNCHANGED <<durable, owner, native, run, expired, w, conn, rpc>>
      BY <1>3 DEF HandleFailed
    <2>2. PICK s \in {g, [g EXCEPT !.authorized = 0]}, ok \in BOOLEAN :
             /\ Answer(s, m, ok)
             /\ s = g \/ (g.active = 0 /\ g.authorized = m.seq)
      BY <1>3 DEF HandleFailed, ReadyToAcknowledge
    <2>3. m \in Request /\ (m.seq = w.sequence => ~InStart) /\ m.seq \notin Live
      BY <2>1, HeadRequest
    <2>4. /\ s \in GuardianState /\ s.pc = "serve" /\ s.cause = g.cause /\ s.started = g.started
          /\ s.waitObserved = g.waitObserved /\ s.authorized \in {g.authorized, 0}
          /\ s.active = g.active
          /\ s.authorized = g.authorized \/ (g.active = 0 /\ g.authorized = m.seq)
      BY <1>g, <2>1, <2>2, BoundsAssumption DEF GuardianState
    <2>5. /\ g'.pc \in {"serve", "term"} /\ g'.started = g.started
          /\ g'.waitObserved = g.waitObserved
          /\ g'.authorized = s.authorized /\ g'.active = g.active
          /\ g'.cause # "previous-boot" /\ (g'.pc = "term" => g'.cause # "none")
          /\ rep' = rep \/ rep' = Append(rep, ReplyTo(m, ok))
          /\ ReplyTo(m, ok) \in Reply
      BY <1>c, <2>1, <2>2, <2>3, <2>4, AnswerBookkeeping
    <2>6. RepliesHarmlessly
      BY <2>1, <2>5 DEF RepliesHarmlessly, Harmless, ReplyTo
    <2>7. Live' \subseteq {g'.authorized, g'.active}
      BY <1>g, <1>c, <1>l, <2>1, <2>3, <2>4, <2>5
    <2>8. InStart => g'.authorized = w.sequence
      BY <1>c, <2>1, <2>3, <2>4, <2>5
    <2> QED BY <1>c, <2>1, <2>4, <2>5, <2>6, <2>7, <2>8, ServiceStep
  <1>4. ASSUME HandleFinish PROVE EvidenceInv'
    <2> DEFINE m == Head(req)
    <2>1. /\ g.pc = "serve" /\ req # <<>> /\ m.type = "finish" /\ req' = Tail(req)
          /\ UNCHANGED <<durable, owner, boot, scope, run, expired, w, conn, rpc>>
      BY <1>4 DEF HandleFinish
    <2>2. m \in Request
      BY <2>1, HeadRequest
    <2>3. CASE EnsureScopeEmpty /\ Answer([g EXCEPT !.active = 0], m, TRUE)
      <3> DEFINE s == [g EXCEPT !.active = 0]
      <3>1. /\ s \in GuardianState /\ s.pc = "serve" /\ s.cause = g.cause /\ s.started = g.started
            /\ s.waitObserved = g.waitObserved /\ s.authorized = g.authorized /\ s.active = 0
        <4>1. 0 \in 0 .. MaxLaunches
          BY BoundsAssumption
        <4> QED BY <1>g, <2>1, <4>1 DEF GuardianState
      <3>2. /\ g'.pc \in {"serve", "term"} /\ g'.started = g.started
            /\ g'.waitObserved = g.waitObserved
            /\ g'.authorized = g.authorized /\ g'.active = 0
            /\ g'.cause # "previous-boot" /\ (g'.pc = "term" => g'.cause # "none")
            /\ rep' = rep \/ rep' = Append(rep, ReplyTo(m, TRUE))
            /\ ReplyTo(m, TRUE) \in Reply
        BY <1>c, <2>2, <2>3, <3>1, AnswerBookkeeping
      <3>3. RepliesHarmlessly
        BY <2>1, <3>2 DEF RepliesHarmlessly, Harmless, ReplyTo
      <3> QED BY <1>c, <1>k, <2>1, <2>3, <3>2, <3>3, ServiceStep DEF EnsureScopeEmpty
    <2>4. CASE UNCHANGED proc /\ RejectAndRecover(g, m)
      <3>1. /\ g'.pc = "term" /\ g'.started = g.started /\ g'.waitObserved = g.waitObserved
            /\ g'.authorized = g.authorized /\ g'.active = g.active
            /\ g'.cause \notin {"none", "previous-boot"} /\ RepliesHarmlessly
        BY <1>g, <1>c, <2>2, <2>4, RejectBookkeeping
      <3> QED BY <1>c, <1>l, <2>1, <2>4, <3>1, ServiceStep
    <2>5. CASE UNCHANGED proc /\ Answer(g, m, FALSE)
      <3>1. /\ g'.pc \in {"serve", "term"} /\ g'.started = g.started
            /\ g'.waitObserved = g.waitObserved
            /\ g'.authorized = g.authorized /\ g'.active = g.active
            /\ g'.cause # "previous-boot" /\ (g'.pc = "term" => g'.cause # "none")
            /\ rep' = rep \/ rep' = Append(rep, ReplyTo(m, FALSE))
            /\ ReplyTo(m, FALSE) \in Reply
        BY <1>g, <1>c, <2>1, <2>2, <2>5, AnswerBookkeeping
      <3>2. RepliesHarmlessly
        BY <3>1 DEF RepliesHarmlessly, Harmless, ReplyTo
      <3> QED BY <1>c, <1>l, <2>1, <2>5, <3>1, <3>2, ServiceStep
    <2> QED BY <1>4, <2>3, <2>4, <2>5 DEF HandleFinish
  <1>5. ASSUME HandleTermination PROVE EvidenceInv'
    <2> DEFINE m == Head(req)
    <2>1. /\ g.pc = "serve" /\ req # <<>> /\ req' = Tail(req)
          /\ UNCHANGED <<durable, owner, native, run, expired, w, conn, rpc>>
      BY <1>5 DEF HandleTermination
    <2>2. m \in Request
      BY <2>1, HeadRequest
    <2>3. CASE Answer(g, m, FALSE)
      <3>1. /\ g'.pc \in {"serve", "term"} /\ g'.started = g.started
            /\ g'.waitObserved = g.waitObserved
            /\ g'.authorized = g.authorized /\ g'.active = g.active
            /\ g'.cause # "previous-boot" /\ (g'.pc = "term" => g'.cause # "none")
            /\ rep' = rep \/ rep' = Append(rep, ReplyTo(m, FALSE))
            /\ ReplyTo(m, FALSE) \in Reply
        BY <1>g, <1>c, <2>1, <2>2, <2>3, AnswerBookkeeping
      <3>2. RepliesHarmlessly
        BY <3>1 DEF RepliesHarmlessly, Harmless, ReplyTo
      <3> QED BY <1>c, <1>l, <2>1, <3>1, <3>2, ServiceStep
    <2>4. CASE EnterTermination(IF m.type = "stop" THEN "budget" ELSE "completed", ReplyTo(m, TRUE))
               /\ UNCHANGED rep
      <3>1. EntersTermination /\ g'.waitObserved = g.waitObserved
        BY <1>g, <1>c, <2>4 DEF EnterTermination, EntersTermination, GuardianState
      <3> QED BY <1>c, <1>l, <2>1, <2>4, <3>1, ServiceStep DEF EntersTermination, RepliesHarmlessly
    <2> QED BY <1>5, <2>3, <2>4 DEF HandleTermination
  <1>6. ASSUME ServeEvent \/ ServeFault PROVE EvidenceInv'
    <2>1. /\ g.pc = "serve"
          /\ UNCHANGED <<durable, owner, native, run, expired, w, channel, rpc>>
      BY <1>6 DEF ServeEvent, ServeFault
    <2>2. EntersTermination /\ (g'.waitObserved => w.pc = "exited")
      BY <1>g, <1>c, <1>6 DEF ServeEvent, ServeFault, EnterTermination, EntersTermination,
         Recovering, GuardianState
    <2> QED BY <1>c, <1>l, <2>1, <2>2, ServiceStep DEF EntersTermination, RepliesHarmlessly
  <1>7. ASSUME ReaderDeadline PROVE EvidenceInv'
    <2>1. UNCHANGED <<durable, owner, native, run, expired, g, w, req, rep, rpc>>
      BY <1>7 DEF ReaderDeadline
    <2> QED BY <2>1 DEF EvidenceInv, Ownership, RecordOrder, GuardianRecords,
         UnrecordedWorker, BootOrder, Ended, FinalOrder, RecoveryOrder, StartOrder, OneLaunch,
         RequestOrder, ReplyOrder, ClientThread, Unlaunched, SerialLaunches, Live, WorkerAlive,
         InStart, MayStart, BeginAccepted, TerminationOfLaunched, ThisRun
  <1> QED BY <1>1, <1>2, <1>3, <1>4, <1>5, <1>6, <1>7
(* Only a start within the launch limit is ever permitted.                    *)
LEMMA StartSequence ==
  ASSUME LaunchInv, InStart
  PROVE  w.sequence \in Launches
  BY DEF LaunchInv, InStart, BeginAccepted, WorkerOrder, RepliesPromise, Promises

(* Control: a launch is permitted while the scope is empty and no other start *)
(* is permitted.                                                              *)
LEMMA BeginKeepsEvidence ==
  ASSUME LaunchInv, EvidenceInv, HandleBegin
  PROVE  EvidenceInv'
  <1> DEFINE m == Head(req)
  <1>g. /\ g \in GuardianState /\ proc \in [Launches -> ProcStates] /\ rep \in Seq(Reply)
        /\ Live \subseteq Launches /\ 0 \notin Launches /\ req \in Seq(Request)
    BY DEF LaunchInv, TypeOK, Live, Launches
  <1>c. /\ g.cause # "previous-boot" /\ (g.waitObserved => w.pc = "exited")
        /\ g.authorized # 0 \/ g.pc = "launched" => g.active = 0
        /\ g.pc \in InService /\ InStart => g.authorized = w.sequence
        /\ g.pc \in InService => Live \subseteq {g.authorized, g.active}
    BY DEF EvidenceInv, FinalOrder, StartOrder
  <1>l. proc' = proc => Live' = Live
    BY DEF Live
  <1> USE DEF durable, native, channel, At, InService
  <1>1. /\ g.pc = "serve" /\ req # <<>> /\ m.type = "begin" /\ req' = Tail(req)
        /\ UNCHANGED <<durable, owner, native, run, expired, w, conn, rpc>>
    BY DEF HandleBegin, Serving
  <1>2. m \in Request /\ (WorkerAlive => m.seq <= w.sequence)
    BY <1>1, HeadRequest
  <1>3. CASE Answer(g, m, FALSE)
    <2>1. /\ g'.pc \in {"serve", "term"} /\ g'.started = g.started
          /\ g'.waitObserved = g.waitObserved
          /\ g'.authorized = g.authorized /\ g'.active = g.active
          /\ g'.cause # "previous-boot" /\ (g'.pc = "term" => g'.cause # "none")
          /\ rep' = rep \/ rep' = Append(rep, ReplyTo(m, FALSE))
          /\ ReplyTo(m, FALSE) \in Reply
      BY <1>g, <1>c, <1>1, <1>2, <1>3, AnswerBookkeeping
    <2>2. RepliesHarmlessly
      BY <2>1 DEF RepliesHarmlessly, Harmless, ReplyTo
    <2> QED BY <1>c, <1>l, <1>1, <2>1, <2>2, ServiceStep
  <1>4. CASE EnterTermination("budget", ReplyTo(m, FALSE)) /\ UNCHANGED rep
    <2>1. EntersTermination /\ g'.waitObserved = g.waitObserved
      BY <1>g, <1>c, <1>4 DEF EnterTermination, EntersTermination, GuardianState
    <2> QED BY <1>c, <1>l, <1>1, <1>4, <2>1, ServiceStep DEF EntersTermination, RepliesHarmlessly
  <1>5. ASSUME ReadyToBegin, InLaunchOrder(m),
               Answer([g EXCEPT !.next = m.seq, !.authorized = m.seq], m, TRUE)
        PROVE  EvidenceInv'
    <2> DEFINE s == [g EXCEPT !.next = m.seq, !.authorized = m.seq]
    <2>1. g.authorized = 0 /\ g.active = 0 /\ m.seq \in Launches /\ m.seq \in 0 .. MaxLaunches
      BY <1>g, <1>2, <1>5, BoundsAssumption DEF ReadyToBegin, InLaunchOrder, GuardianState,
         Launches, Request, Asked
    <2>2. ~InStart /\ Live = {} /\ Live' = {}
      BY <1>g, <1>c, <1>l, <1>1, <2>1, StartSequence
    <2>3. /\ s \in GuardianState /\ s.pc = "serve" /\ s.cause = g.cause /\ s.started = g.started
          /\ s.waitObserved = g.waitObserved /\ s.authorized = m.seq /\ s.active = 0
      <3> HIDE DEF m
      <3> QED BY <1>g, <1>1, <2>1 DEF GuardianState
    <2>4. /\ g'.pc \in {"serve", "term"} /\ g'.started = g.started
          /\ g'.waitObserved = g.waitObserved
          /\ g'.authorized = m.seq /\ g'.active = 0
          /\ g'.cause # "previous-boot" /\ (g'.pc = "term" => g'.cause # "none")
          /\ rep' = rep \/ rep' = Append(rep, ReplyTo(m, TRUE))
          /\ ReplyTo(m, TRUE) \in Reply
      BY <1>c, <1>2, <1>5, <2>3, AnswerBookkeeping
    <2>5. CASE rep' = rep BY <1>c, <1>1, <2>2, <2>4, <2>5, ServiceStep DEF RepliesHarmlessly
    <2>6. CASE rep' = Append(rep, ReplyTo(m, TRUE))
      <3> DEFINE r == ReplyTo(m, TRUE)
      <3>1. r.type = "begin" /\ r.seq = m.seq /\ r.ok
        BY <1>1 DEF ReplyTo
      <3>2. \A i \in DOMAIN rep' : (i \in DOMAIN rep /\ rep'[i] = rep[i]) \/ rep'[i] = r
        BY <1>g, <2>4, <2>6, AppendedReply
      <3> HIDE DEF r, m
      <3>3. InStart' => w.call = "begin" /\ m.seq = w.sequence
        BY <1>1, <2>2, <3>1, <3>2 DEF InStart, BeginAccepted
      <3>4. (WorkerAlive' <=> WorkerAlive) /\ (MayStart' => InStart')
        BY <1>1 DEF WorkerAlive, MayStart, InStart
      <3>5. /\ rec.worker /\ ~HasTermination(rec) /\ HasRegistration(rec) /\ HasIntent(rec)
            /\ rec.wait = "none" /\ rpc = "idle" /\ w.pc # "none" /\ ~proven
        BY <1>1 DEF EvidenceInv, GuardianRecords, Ownership, LaunchInv, CommitOrder, Unlaunched
      <3>6. Ownership' /\ RecordOrder' /\ GuardianRecords' /\ UnrecordedWorker' /\ ClientThread'
            /\ Unlaunched' /\ BootOrder' /\ RecoveryOrder' /\ OneLaunch'
        BY <1>1, <1>l, <2>4, <3>4, <3>5 DEF EvidenceInv, Ownership, RecordOrder, GuardianRecords,
           UnrecordedWorker, ClientThread, Unlaunched, BeforeWorker, Observing, Finalizing,
           ThisRun, BootOrder, RecoveryOrder, OneLaunch, SerialLaunches
      <3>7. Ended'
        BY <1>1, <2>2, <3>1, <3>2, <3>4, <3>5 DEF EvidenceInv, Ended
      <3>8. FinalOrder'
        BY <1>1, <2>4, <3>5 DEF EvidenceInv, FinalOrder, GuardianRecords
      <3>9. StartOrder'
        BY <1>1, <2>2, <2>4, <3>3, <3>4 DEF EvidenceInv, StartOrder
      <3>10. RequestOrder'
        <4>1. \A i \in DOMAIN req' : i + 1 \in DOMAIN req /\ req'[i] = req[i + 1]
          BY <1>g, <1>1, TakenRequest
        <4> QED BY <1>1, <2>2, <3>3, <3>4, <3>5, <4>1 DEF EvidenceInv, RequestOrder
      <3>11. ReplyOrder'
        BY <1>1, <1>2, <3>1, <3>2, <3>4 DEF EvidenceInv, ReplyOrder
      <3> QED BY <3>6, <3>7, <3>8, <3>9, <3>10, <3>11 DEF EvidenceInv
    <2> QED BY <2>4, <2>5, <2>6
  <1> QED BY <1>3, <1>4, <1>5 DEF HandleBegin

(* Control: the report of a started process.                                  *)
LEMMA StartedKeepsEvidence ==
  ASSUME LaunchInv, EvidenceInv, HandleStarted \/ RejectStartedLaunch
  PROVE  EvidenceInv'
  <1> DEFINE m == Head(req)
  <1>g. /\ g \in GuardianState /\ proc \in [Launches -> ProcStates] /\ rep \in Seq(Reply)
        /\ Live \subseteq Launches /\ 0 \notin Launches
    BY DEF LaunchInv, TypeOK, Live, Launches
  <1>c. /\ g.cause # "previous-boot" /\ (g.waitObserved => w.pc = "exited")
        /\ g.authorized # 0 \/ g.pc = "launched" => g.active = 0
        /\ g.pc \in InService /\ InStart => g.authorized = w.sequence
        /\ g.pc \in InService => Live \subseteq {g.authorized, g.active}
    BY DEF EvidenceInv, FinalOrder, StartOrder
  <1>l. proc' = proc => Live' = Live
    BY DEF Live
  <1>k. proc' = Killed => Live' = {}
    BY <1>g, KilledScope
  <1> USE DEF durable, native, channel, At, InService
  <1>1. /\ g.pc = "serve" /\ req # <<>> /\ m.type = "started"
        /\ UNCHANGED <<stop, proven, owner, boot, scope, run, expired, w, conn, rpc>>
    BY DEF HandleStarted, RejectStartedLaunch, Serving
  <1>2. m \in Request /\ (m.seq = w.sequence => ~InStart)
    BY <1>1, HeadRequest
  <1>3. ASSUME ReadyToAcknowledge(m), m.seq \in Live, RecordLaunch(m),
               g' = [g EXCEPT !.pc = "launched"], UNCHANGED <<req, rep, proc>>
        PROVE  EvidenceInv'
    <2>1. g'.pc = "launched" /\ KeepsBookkeeping /\ g.active = 0
      BY <1>g, <1>3 DEF GuardianState, KeepsBookkeeping, ReadyToAcknowledge
    <2>2. \E n \in Launches : rec' = [rec EXCEPT !.launches = n]
      BY <1>g, <1>3 DEF RecordLaunch
    <2> QED
      BY <1>c, <1>l, <1>1, <1>3, <2>1, <2>2, ServiceStep DEF KeepsBookkeeping, RepliesHarmlessly
  <1>4. ASSUME RejectAndRecover(g, m), req' = Tail(req), UNCHANGED <<rec, proc>>
        PROVE  EvidenceInv'
    <2>1. /\ g'.pc = "term" /\ g'.started = g.started /\ g'.waitObserved = g.waitObserved
          /\ g'.authorized = g.authorized /\ g'.active = g.active
          /\ g'.cause \notin {"none", "previous-boot"} /\ RepliesHarmlessly
      BY <1>g, <1>c, <1>2, <1>4, RejectBookkeeping
    <2> QED BY <1>c, <1>l, <1>1, <1>4, <2>1, ServiceStep
  <1>5. ASSUME Answer(g, m, FALSE), req' = Tail(req), UNCHANGED <<rec, proc>>
        PROVE  EvidenceInv'
    <2>1. /\ g'.pc \in {"serve", "term"} /\ g'.started = g.started
          /\ g'.waitObserved = g.waitObserved
          /\ g'.authorized = g.authorized /\ g'.active = g.active
          /\ g'.cause # "previous-boot" /\ (g'.pc = "term" => g'.cause # "none")
          /\ rep' = rep \/ rep' = Append(rep, ReplyTo(m, FALSE))
          /\ ReplyTo(m, FALSE) \in Reply
      BY <1>g, <1>c, <1>1, <1>2, <1>5, AnswerBookkeeping
    <2>2. RepliesHarmlessly
      BY <2>1 DEF RepliesHarmlessly, Harmless, ReplyTo
    <2> QED BY <1>c, <1>l, <1>1, <1>5, <2>1, <2>2, ServiceStep
  <1>6. ASSUME RejectStartedLaunch PROVE EvidenceInv'
    <2>1. /\ m.seq = g.authorized /\ g.active = 0 /\ m.seq \in Live /\ req' = Tail(req)
          /\ rec' = rec \/ rec' = [rec EXCEPT !.launches = m.seq]
      BY <1>6 DEF RejectStartedLaunch, ReadyToAcknowledge
    <2>2. ~InStart /\ (rec' = rec \/ \E n \in Launches : rec' = [rec EXCEPT !.launches = n])
      BY <1>g, <1>c, <1>1, <1>2, <2>1
    <2>3. CASE EnsureScopeEmpty /\ RejectAndRecover([g EXCEPT !.authorized = 0], m)
      <3> DEFINE s == [g EXCEPT !.authorized = 0]
      <3>1. /\ s \in GuardianState /\ s.cause = g.cause /\ s.started = g.started
            /\ s.waitObserved = g.waitObserved /\ s.authorized = 0 /\ s.active = g.active
        <4>1. 0 \in 0 .. MaxLaunches
          BY BoundsAssumption
        <4> QED BY <1>g, <4>1 DEF GuardianState
      <3>2. /\ g'.pc = "term" /\ g'.started = g.started /\ g'.waitObserved = g.waitObserved
            /\ g'.authorized = 0 /\ g'.active = g.active
            /\ g'.cause \notin {"none", "previous-boot"} /\ RepliesHarmlessly
        BY <1>c, <1>2, <2>3, <3>1, RejectBookkeeping
      <3> QED BY <1>c, <1>k, <1>1, <2>1, <2>2, <2>3, <3>2, ServiceStep DEF EnsureScopeEmpty
    <2>4. CASE UNCHANGED <<proc, rep>> /\ g' = Recovering(g)
      <3>1. EntersTermination /\ g'.waitObserved = g.waitObserved
        BY <1>g, <1>c, <2>4 DEF Recovering, EntersTermination, GuardianState
      <3> QED BY <1>c, <1>l, <1>1, <2>1, <2>2, <2>4, <3>1, ServiceStep
           DEF EntersTermination, RepliesHarmlessly
    <2> QED BY <1>6, <2>3, <2>4 DEF RejectStartedLaunch
  <1> QED BY <1>1, <1>3, <1>4, <1>5, <1>6 DEF HandleStarted
(* Finalization: fence, empty the scope, publish the termination, wait for    *)
(* the worker, publish its completion, remove the scope, release the lease.   *)
LEMMA FinalizationKeepsEvidence ==
  ASSUME LaunchInv, EvidenceInv, GuardianFinalization
  PROVE  EvidenceInv'
  <1>g. /\ g \in GuardianState /\ rec \in Evidence /\ proc \in [Launches -> ProcStates]
        /\ rep \in Seq(Reply) /\ g.pending \in Reply /\ 0 \notin Launches
    BY DEF LaunchInv, TypeOK, GuardianState, Launches
  <1>i. HasRegistration(rec) => HasIntent(rec)
    BY DEF LaunchInv, CommitOrder
  <1>l. proc' = proc => Live' = Live
    BY DEF Live
  <1> USE DEF durable, native, channel, At
  <1> USE DEF Ownership, RecordOrder, GuardianRecords, UnrecordedWorker, BootOrder, Ended,
          FinalOrder, RecoveryOrder, StartOrder, OneLaunch, RequestOrder, ReplyOrder,
          ClientThread, Unlaunched, BeforeWorker, Observing, InService, Finalizing,
          SerialLaunches, WorkerAlive, InStart, MayStart, TerminationOfLaunched, ThisRun
  <1>1. ASSUME TerminationAttemptFails PROVE EvidenceInv'
    <2>1. /\ g.pc \in {"term", "publish"} /\ g'.pc = g.pc /\ g'.cause = g.cause
          /\ g'.started = g.started /\ g'.waitObserved = g.waitObserved
          /\ g'.authorized = g.authorized /\ g'.active = g.active /\ g'.pending = NoReply
          /\ UNCHANGED <<durable, owner, native, run, expired, w, req, rpc>>
      BY <1>g, <1>1 DEF TerminationAttemptFails, GuardianState
    <2>2. RepliesHarmlessly /\ (g.pending = NoReply => rep' = rep)
      <3>1. CASE g.pending = NoReply BY <1>1, <3>1 DEF TerminationAttemptFails, RepliesHarmlessly
      <3>2. CASE g.pending # NoReply
        <4> DEFINE r == [g.pending EXCEPT !.ok = FALSE]
        <4>1. r \in Reply /\ ~r.ok
          BY <1>g DEF Reply
        <4>2. rep' = Append(rep, r)
          BY <1>1, <3>2 DEF TerminationAttemptFails
        <4> HIDE DEF r
        <4> QED BY <3>2, <4>1, <4>2 DEF RepliesHarmlessly, Harmless
      <3> QED BY <3>1, <3>2
    <2>3. /\ \A i \in DOMAIN rep' :
               ~Harmless(rep'[i]) => \E j \in DOMAIN rep : rep[j] = rep'[i]
          /\ BeginAccepted' <=> BeginAccepted
      BY <1>g, <2>1, <2>2, HarmlessReply
    <2>4. Live' = Live
      BY <1>l, <2>1
    <2>5. /\ \A i \in DOMAIN rep' :
                rep'[i].ok /\ rep'[i].type \in {"stop", "close"} => HasTermination(rec)
          /\ ReplyOrder'
      BY <2>1, <2>3 DEF EvidenceInv, Harmless
    <2> QED BY <2>1, <2>2, <2>3, <2>4, <2>5 DEF EvidenceInv
  <1>2. ASSUME FencePendingStart PROVE EvidenceInv'
    <2>1. /\ g.pc = "term" /\ g'.pc = "term" /\ g'.cause = g.cause /\ g'.started = g.started
          /\ g'.authorized = g.authorized /\ g'.active = g.active /\ g'.pending = g.pending
          /\ g'.waitObserved => g.waitObserved \/ w.pc = "exited"
          /\ UNCHANGED <<durable, owner, native, run, expired, w, req, rep, rpc>>
      BY <1>g, <1>2 DEF FencePendingStart, GuardianState
    <2> QED BY <1>l, <2>1 DEF EvidenceInv, BeginAccepted
  <1>3. ASSUME ProveScopeEmpty PROVE EvidenceInv'
    <2>1. /\ g.pc = "term" /\ g'.pc = "publish" /\ g'.cause = g.cause /\ g'.started = g.started
          /\ g'.authorized = 0 /\ g'.active = g.active /\ g'.pending = g.pending
          /\ g'.waitObserved = g.waitObserved /\ proc' = Killed
          /\ g.authorized = 0 \/ g.waitObserved
          /\ UNCHANGED <<durable, owner, boot, scope, run, expired, w, channel, rpc>>
      BY <1>g, <1>3 DEF ProveScopeEmpty, GuardianState, EnsureScopeEmpty, StartFenced
    <2>2. Live' = {} /\ \A s \in Launches : proc'[s] = "none" <=> proc[s] = "none"
      BY <1>g, <2>1, KilledScope
    <2>3. ~InStart /\ ~InStart' /\ ~MayStart'
      BY <1>g, <2>1, StartSequence DEF EvidenceInv, BeginAccepted
    <2> HIDE DEF InStart, MayStart
    <2> QED BY <2>1, <2>2, <2>3 DEF EvidenceInv
  <1>4. ASSUME RecordTermination PROVE EvidenceInv'
    <2>1. /\ g.pc = "publish" /\ g'.pc \in {"publish", "await"} /\ g'.cause = g.cause
          /\ g'.started = g.started /\ g'.waitObserved = g.waitObserved
          /\ g'.authorized = g.authorized /\ g'.active \in {g.active, 0}
          /\ g'.pending \in {g.pending, NoReply}
          /\ UNCHANGED <<stop, proven, owner, native, run, expired, w, req, rpc>>
      BY <1>g, <1>4 DEF RecordTermination, GuardianState
    <2>2. /\ rec'.intent = rec.intent /\ rec'.registration = rec.registration
          /\ rec'.worker = rec.worker /\ rec'.launches = rec.launches
          /\ rec'.termination = [cause |-> g.cause, count |-> rec.launches]
          /\ rec'.wait = rec.wait
      BY <1>g, <1>4 DEF RecordTermination, Evidence
    <2>3. HasTermination(rec') /\ rec'.termination.cause # "previous-boot"
      BY <2>1, <2>2 DEF EvidenceInv, HasTermination
    <2>4. /\ HasIntent(rec') <=> HasIntent(rec)
          /\ HasRegistration(rec') <=> HasRegistration(rec)
          /\ HasRegistration(rec) /\ HasIntent(rec)
          /\ NativeWaitBinds(rec') <=> NativeWaitBinds(rec)
      BY <1>i, <2>1, <2>2 DEF EvidenceInv, HasIntent, HasRegistration, NativeWaitBinds
    <2>5. rep' = rep \/ (g.pending # NoReply /\ rep' = Append(rep, g.pending))
      BY <1>4 DEF RecordTermination
    <2>6. ReplyOrder' /\ (BeginAccepted' <=> BeginAccepted) /\ (g.pending = NoReply => rep' = rep)
      <3>1. CASE rep' = rep BY <2>1, <3>1 DEF EvidenceInv, BeginAccepted
      <3>2. CASE g.pending # NoReply /\ rep' = Append(rep, g.pending)
        <4>1. /\ \A i \in DOMAIN rep : i \in DOMAIN rep' /\ rep'[i] = rep[i]
              /\ \A i \in DOMAIN rep' :
                    (i \in DOMAIN rep /\ rep'[i] = rep[i]) \/ rep'[i] = g.pending
          BY <1>g, <3>2, AppendedReply
        <4>2. g.pending.type = "begin" => ~g.pending.ok
          BY DEF LaunchInv, GuardianOrder
        <4> QED BY <2>1, <3>2, <4>1, <4>2 DEF EvidenceInv, BeginAccepted
      <3> QED BY <2>5, <3>1, <3>2
    <2>7. (InStart' <=> InStart) /\ (MayStart' <=> MayStart) /\ Live' = Live
      BY <1>l, <2>1, <2>6
    <2> HIDE DEF InStart, MayStart
    <2>8. RecordOrder' /\ Ended' /\ FinalOrder'
      BY <2>1, <2>2, <2>3, <2>4, <2>6, <2>7 DEF EvidenceInv
    <2>9. UnrecordedWorker' /\ StartOrder' /\ RequestOrder'
      BY <2>1, <2>2, <2>4, <2>6, <2>7 DEF EvidenceInv
    <2>10. Ownership' /\ GuardianRecords' /\ BootOrder' /\ RecoveryOrder' /\ OneLaunch'
           /\ ClientThread' /\ Unlaunched'
      BY <2>1, <2>2, <2>4, <2>6, <2>7 DEF EvidenceInv
    <2> QED BY <2>6, <2>8, <2>9, <2>10 DEF EvidenceInv
  <1>5. ASSUME AwaitWorkerWait PROVE EvidenceInv'
    <2>1. /\ g.pc = "await" /\ g'.pc = IF rec.wait = "none" THEN "wait" ELSE "destroy"
          /\ g'.cause = g.cause /\ g'.started = g.started /\ g'.authorized = g.authorized
          /\ g'.active = g.active /\ g'.pending = g.pending /\ g'.waitObserved = g.started
          /\ g.started => g.waitObserved \/ w.pc = "exited"
          /\ UNCHANGED <<durable, owner, native, run, expired, w, channel, rpc>>
      BY <1>g, <1>5 DEF AwaitWorkerWait, WorkerAwaited, GuardianState
    <2> QED BY <1>l, <2>1 DEF EvidenceInv, BeginAccepted
  <1>6. ASSUME PersistWorkerWait PROVE EvidenceInv'
    <2>1. /\ g.pc = "wait" /\ g'.pc \in {"wait", "destroy"} /\ KeepsBookkeeping
          /\ UNCHANGED <<stop, proven, owner, native, run, expired, w, channel, rpc>>
      BY <1>g, <1>6 DEF PersistWorkerWait, GuardianState, KeepsBookkeeping
    <2>2. /\ rec'.intent = rec.intent /\ rec'.registration = rec.registration
          /\ rec'.worker = rec.worker /\ rec'.launches = rec.launches
          /\ rec'.termination = rec.termination
          /\ rec'.wait = IF g.started THEN "native" ELSE "not-started"
      BY <1>g, <1>6 DEF PersistWorkerWait, Evidence
    <2>3. /\ HasIntent(rec') <=> HasIntent(rec)
          /\ HasRegistration(rec') <=> HasRegistration(rec)
          /\ HasTermination(rec') <=> HasTermination(rec)
          /\ HasRegistration(rec) /\ HasIntent(rec)
      BY <1>i, <2>1, <2>2 DEF EvidenceInv, HasIntent, HasRegistration, HasTermination
    <2>4. NativeWaitBinds(rec') /\ ~WorkerAlive
      BY <2>1, <2>2, <2>3 DEF EvidenceInv, NativeWaitBinds
    <2> QED BY <1>l, <2>1, <2>2, <2>3, <2>4 DEF EvidenceInv, KeepsBookkeeping, BeginAccepted
  <1>7. ASSUME DestroyScope PROVE EvidenceInv'
    <2>1. /\ g.pc = "destroy" /\ g'.pc = "release" /\ KeepsBookkeeping
          /\ UNCHANGED <<durable, owner, boot, proc, run, expired, w, channel, rpc>>
      BY <1>g, <1>7 DEF DestroyScope, GuardianState, KeepsBookkeeping
    <2> QED BY <1>l, <2>1 DEF EvidenceInv, KeepsBookkeeping, BeginAccepted, Closed
  <1>8. ASSUME ReleaseOwner PROVE EvidenceInv'
    BY <1>8, RunEndKeepsEvidence DEF ReleaseOwner
  <1> QED BY <1>1, <1>2, <1>3, <1>4, <1>5, <1>6, <1>7, <1>8 DEF GuardianFinalization
(* A step of a recoverer, which holds the lease no guardian can hold then.    *)
LEMMA RecoveryFrame ==
  ASSUME LaunchInv, EvidenceInv, owner # "guardian",
         UNCHANGED <<stop, proven, boot, run, g, w, req, rep>>,
         HasIntent(rec), rec'.intent = rec.intent, rec'.registration = rec.registration,
         rec'.worker = rec.worker, rec'.launches = rec.launches,
         HasTermination(rec) => HasTermination(rec'),
         Live' \subseteq Live, \A s \in Launches : proc'[s] = "none" <=> proc[s] = "none",
         Ownership', RecordOrder', Ended', RecoveryOrder'
  PROVE  EvidenceInv'
  <1>1. g.pc = "idle" /\ ~proven /\ (HasRegistration(rec') <=> HasRegistration(rec))
    BY DEF EvidenceInv, Ownership, Unlaunched, HasRegistration, HasIntent, NoEvidence, NoStamp
  <1>2. /\ InStart' <=> InStart
        /\ MayStart' <=> MayStart
        /\ WorkerAlive' <=> WorkerAlive
    BY DEF InStart, MayStart, BeginAccepted, WorkerAlive
  <1>3. GuardianRecords' /\ FinalOrder' /\ ClientThread' /\ Unlaunched'
    BY <1>1 DEF EvidenceInv, GuardianRecords, FinalOrder, ClientThread, Unlaunched, BeforeWorker,
       Observing, InService, Finalizing
  <1>4. UnrecordedWorker' /\ BootOrder' /\ OneLaunch'
    BY <1>1, <1>2 DEF EvidenceInv, UnrecordedWorker, BootOrder, OneLaunch, SerialLaunches
  <1>5. StartOrder' /\ RequestOrder' /\ ReplyOrder'
    BY <1>1, <1>2 DEF EvidenceInv, StartOrder, RequestOrder, ReplyOrder, InService
  <1> QED BY <1>3, <1>4, <1>5 DEF EvidenceInv

(* Recovery: it writes what it has proved, and nothing over a record.         *)
LEMMA RecoveryKeepsEvidence ==
  ASSUME LaunchInv, EvidenceInv, RecoveryActions
  PROVE  EvidenceInv'
  <1>g. rec \in Evidence /\ proc \in [Launches -> ProcStates]
    BY DEF LaunchInv, TypeOK
  <1>i. HasRegistration(rec) => HasIntent(rec)
    BY DEF LaunchInv, CommitOrder
  <1>l. proc' = proc => Live' = Live
    BY DEF Live
  <1>k. proc' = Killed =>
           Live' = {} /\ \A s \in Launches : proc'[s] = "none" <=> proc[s] = "none"
    BY <1>g, KilledScope
  <1>o. rpc # "idle" <=> owner = "recovery"
    BY DEF EvidenceInv, Ownership
  <1>r. rpc \in {"previousBoot", "open", "wait", "again", "terminate", "completion", "finish"} =>
           HasRegistration(rec)
    BY DEF EvidenceInv, RecoveryOrder
  <1> USE DEF durable, native, channel, RecoveryAt, Ownership, RecordOrder, Ended, RecoveryOrder,
          WorkerAlive, InStart, BeginAccepted
  <1>1. ASSUME AcquireRecoveryOwner PROVE EvidenceInv'
    <2>1. /\ owner = "none" /\ owner' = "recovery" /\ (HasIntent(rec) \/ HasRegistration(rec))
          /\ rpc' = RecoveryStep(rec, boot)
          /\ UNCHANGED <<durable, run, expired, native, g, w, channel>>
      BY <1>1 DEF AcquireRecoveryOwner
    <2>2. rpc' # "idle" /\ RecoveryOrder'
      BY <2>1, RecoveryEntry DEF EvidenceInv
    <2>3. Ownership' /\ RecordOrder' /\ Ended'
      BY <1>l, <2>1, <2>2 DEF EvidenceInv
    <2> QED BY <1>i, <1>l, <2>1, <2>2, <2>3, RecoveryFrame
  <1>2. ASSUME DisposeUnregisteredScope PROVE EvidenceInv'
    <2>1. /\ rpc = "dispose" /\ rpc' = "absence"
          /\ UNCHANGED <<durable, owner, run, expired, boot, proc, g, w, channel>>
      BY <1>2 DEF DisposeUnregisteredScope
    <2>2. HasIntent(rec) /\ ~HasRegistration(rec) /\ w.pc = "none" /\ Live = {}
      BY <2>1 DEF EvidenceInv, BootOrder, UnrecordedWorker, Live, LiveStates
    <2>3. Ownership' /\ RecordOrder' /\ Ended' /\ RecoveryOrder'
      BY <1>l, <2>1, <2>2 DEF EvidenceInv
    <2> QED BY <1>l, <1>o, <2>1, <2>2, <2>3, RecoveryFrame
  <1>3. ASSUME PersistAbsence PROVE EvidenceInv'
    <2>1. /\ rpc = "absence" /\ rpc' = "release" /\ rec.wait = "none"
          /\ UNCHANGED <<stop, proven, owner, run, expired, native, g, w, channel>>
      BY <1>3 DEF PersistAbsence, AbsenceWritable
    <2>2. /\ rec'.intent = rec.intent /\ rec'.registration = rec.registration
          /\ rec'.worker = rec.worker /\ rec'.launches = rec.launches
          /\ rec'.termination = rec.termination /\ rec'.wait = "absent"
      BY <1>g, <1>3 DEF PersistAbsence, Evidence
    <2>3. /\ HasIntent(rec) /\ HasIntent(rec')
          /\ HasRegistration(rec') <=> HasRegistration(rec)
          /\ HasTermination(rec') <=> HasTermination(rec)
          /\ ~WorkerAlive /\ Live = {} /\ (HasRegistration(rec) => HasTermination(rec))
      BY <2>1, <2>2 DEF EvidenceInv, HasIntent, HasRegistration, HasTermination
    <2>4. AbsenceBinds(rec')
      BY <2>1, <2>2, <2>3 DEF EvidenceInv, AbsenceBinds
    <2>5. Ownership' /\ RecordOrder' /\ Ended' /\ RecoveryOrder'
      BY <1>l, <2>1, <2>2, <2>3, <2>4 DEF EvidenceInv
    <2> QED BY <1>l, <1>o, <2>1, <2>2, <2>3, <2>5, RecoveryFrame
  <1>4. ASSUME ReconcilePreviousBoot \/ PersistRecoveryTermination PROVE EvidenceInv'
    <2>1. PICK c \in {"previous-boot", "recovery"} :
             /\ rpc = IF c = "recovery" THEN "terminate" ELSE "previousBoot"
             /\ rpc' = IF c = "recovery" THEN "finish" ELSE "absence"
             /\ rec' = [rec EXCEPT !.termination = [cause |-> c, count |-> rec.launches]]
             /\ UNCHANGED <<stop, proven, owner, run, expired, native, g, w, channel>>
      BY <1>4 DEF ReconcilePreviousBoot, PersistRecoveryTermination, PersistTermination
    <2>2. /\ rec'.intent = rec.intent /\ rec'.registration = rec.registration
          /\ rec'.worker = rec.worker /\ rec'.launches = rec.launches
          /\ rec'.termination = [cause |-> c, count |-> rec.launches] /\ rec'.wait = rec.wait
      BY <1>g, <2>1 DEF Evidence
    <2>3. /\ HasIntent(rec) /\ HasIntent(rec') /\ HasRegistration(rec) /\ HasRegistration(rec')
          /\ ~HasTermination(rec) /\ HasTermination(rec')
      BY <1>i, <1>r, <2>1, <2>2 DEF EvidenceInv, HasIntent, HasRegistration, HasTermination
    <2>4. Live = {} /\ ~InStart /\ (c = "previous-boot" => ~WorkerAlive)
      <3>1. CASE c = "previous-boot" BY <2>1, <3>1 DEF EvidenceInv, BootOrder, ClientThread
      <3>2. CASE c = "recovery" BY <2>1, <3>2 DEF EvidenceInv, UnrecordedWorker, ClientThread
      <3> QED BY <3>1, <3>2
    <2>5. RecordOrder'
      <3>1. rec.wait # "absent" \/ AbsenceBinds(rec')
        BY <2>2, <2>3 DEF AbsenceBinds
      <3>2. rec.wait \notin {"none", "absent"} => NativeWaitBinds(rec')
        BY <2>1, <2>2, <2>3 DEF EvidenceInv, NativeWaitBinds
      <3> QED BY <2>1, <2>2, <2>3, <3>1, <3>2 DEF EvidenceInv
    <2>6. Ownership' /\ Ended' /\ RecoveryOrder'
      BY <1>l, <2>1, <2>2, <2>3, <2>4 DEF EvidenceInv
    <2> QED BY <1>l, <1>o, <2>1, <2>2, <2>3, <2>5, <2>6, RecoveryFrame
  <1>5. ASSUME RecoverRegistered PROVE EvidenceInv'
    <2>1. /\ rpc = "open" /\ UNCHANGED <<durable, run, expired, boot, scope, g, w, channel>>
      BY <1>5 DEF RecoverRegistered
    <2>2. Live' \subseteq Live /\ \A s \in Launches : proc'[s] = "none" <=> proc[s] = "none"
      <3>1. CASE KillRecordedLaunches
        BY <1>g, <3>1 DEF KillRecordedLaunches, Killed, Live, LiveStates, ProcStates
      <3>2. CASE proc' = Killed \/ proc' = proc
        BY <1>k, <1>l, <3>2
      <3> QED BY <1>5, <3>1, <3>2 DEF RecoverRegistered, RecoverCooperative
    <2>3. \/ rpc' = "wait" /\ UNCHANGED owner
          \/ rpc' = "terminate" /\ UNCHANGED <<proc, owner>> /\ ~rec.worker /\ Live = {}
          \/ rpc' = "idle" /\ owner' = "none"
      BY <1>5 DEF RecoverRegistered, RecoverCooperative
    <2>4. Ownership' /\ RecordOrder' /\ Ended' /\ RecoveryOrder'
      BY <1>l, <2>1, <2>2, <2>3 DEF EvidenceInv
    <2> QED BY <1>i, <1>o, <1>r, <2>1, <2>2, <2>4, RecoveryFrame
  <1>6. ASSUME AwaitWorkerAbsent PROVE EvidenceInv'
    <2>1. /\ rpc = "wait" /\ rpc' = "again" /\ ~WorkerAlive
          /\ UNCHANGED <<durable, owner, run, expired, native, g, w, channel>>
      BY <1>6 DEF AwaitWorkerAbsent, WorkerAbsent
    <2>2. Ownership' /\ RecordOrder' /\ Ended' /\ RecoveryOrder'
      BY <1>l, <2>1 DEF EvidenceInv
    <2> QED BY <1>i, <1>l, <1>o, <1>r, <2>1, <2>2, RecoveryFrame
  <1>7. ASSUME RecoverScopeAgain PROVE EvidenceInv'
    <2>1. /\ rpc = "again" /\ rpc' = "terminate" /\ proc' = Killed
          /\ UNCHANGED <<durable, owner, run, expired, boot, scope, g, w, channel>>
      BY <1>7 DEF RecoverScopeAgain
    <2>2. Ownership' /\ RecordOrder' /\ Ended' /\ RecoveryOrder'
      BY <1>k, <2>1 DEF EvidenceInv
    <2> QED BY <1>i, <1>k, <1>o, <1>r, <2>1, <2>2, RecoveryFrame
  <1>8. ASSUME RecoverWorkerCompletion PROVE EvidenceInv'
    <2>1. /\ rpc \in {"completion", "finish"} /\ rpc' \in {"destroy", "release"}
          /\ UNCHANGED <<stop, proven, owner, run, expired, native, g, w, channel>>
          /\ \/ UNCHANGED rec
             \/ /\ rec.wait = "none" /\ rec.worker /\ ~WorkerAlive
                /\ rec' = [rec EXCEPT !.wait = "absent"]
      BY <1>8 DEF RecoverWorkerCompletion, WorkerAbsent
    <2>2. HasIntent(rec) /\ HasRegistration(rec) /\ HasTermination(rec)
      BY <1>i, <2>1 DEF EvidenceInv
    <2>3. /\ rec'.intent = rec.intent /\ rec'.registration = rec.registration
          /\ rec'.worker = rec.worker /\ rec'.launches = rec.launches
          /\ rec'.termination = rec.termination
          /\ rec' = rec \/ (rec'.wait = "absent" /\ ~WorkerAlive)
      BY <1>g, <2>1 DEF Evidence
    <2>4. HasIntent(rec') /\ HasRegistration(rec') /\ HasTermination(rec')
      BY <2>2, <2>3 DEF HasIntent, HasRegistration, HasTermination
    <2>5. RecordOrder'
      <3>1. AbsenceBinds(rec')
        BY <2>4 DEF AbsenceBinds
      <3> QED BY <2>2, <2>3, <2>4, <3>1 DEF EvidenceInv
    <2>6. Ownership' /\ Ended' /\ RecoveryOrder'
      BY <1>l, <2>1, <2>2, <2>3, <2>4 DEF EvidenceInv
    <2> QED BY <1>l, <1>o, <2>1, <2>2, <2>3, <2>4, <2>5, <2>6, RecoveryFrame
  <1>9. ASSUME DestroyRecoveredScope PROVE EvidenceInv'
    <2>1. /\ rpc = "destroy" /\ rpc' = "release"
          /\ UNCHANGED <<durable, owner, run, expired, boot, proc, g, w, channel>>
      BY <1>9 DEF DestroyRecoveredScope
    <2> QED BY <1>l, <2>1 DEF EvidenceInv, GuardianRecords, UnrecordedWorker, BootOrder, FinalOrder,
         StartOrder, OneLaunch, RequestOrder, ReplyOrder, ClientThread, Unlaunched,
         SerialLaunches, MayStart, TerminationOfLaunched, ThisRun
  <1>10. ASSUME RecoveryEnds PROVE EvidenceInv'
    <2>1. /\ rpc # "idle" /\ rpc' = "idle" /\ owner' = "none"
          /\ UNCHANGED <<durable, run, expired, native, g, w, channel>>
      BY <1>10 DEF RecoveryEnds
    <2> QED BY <1>l, <2>1 DEF EvidenceInv, GuardianRecords, UnrecordedWorker, BootOrder, FinalOrder,
         StartOrder, OneLaunch, RequestOrder, ReplyOrder, ClientThread, Unlaunched,
         SerialLaunches, MayStart, TerminationOfLaunched, ThisRun
  <1> QED BY <1>1, <1>2, <1>3, <1>4, <1>5, <1>6, <1>7, <1>8, <1>9, <1>10 DEF RecoveryActions

--------------------
(* What most steps of a worker leave alone: they start nothing, create no     *)
(* permission and claim no end that is not durable.                           *)
QuietWorker ==
    /\ w'.pc # "none"
    /\ UNCHANGED <<rec, stop, proven, owner, boot, run, g, rpc>>
    /\ Live' \subseteq Live /\ \A s \in Launches : proc'[s] = "none" <=> proc[s] = "none"
    /\ w'.sequence = w.sequence \/ w'.pc = "exited"
    /\ w'.call = "begin" => w.call = "begin"
    /\ w'.pc = "start" => MayStart
    /\ w'.pc = "startFailed" => w.pc \in {"start", "startFailed"}
    /\ w'.pc = "complete" => w.pc = "complete"
    /\ w'.call = "started" => w.pc = "complete" \/ w.call = "started"
    /\ \A i \in DOMAIN rep' : rep'[i].ok => \E j \in DOMAIN rep : rep[j] = rep'[i]
    /\ w'.terminal => HasTermination(rec)
    /\ ClientThread'
    /\ ~rec.worker \/ g.pc = "record" =>
          /\ w'.pc \in {"boot", "exit", "exited"} \/ (w'.pc = "call" /\ w'.call = "hello")
          /\ rep' = <<>>

(* A request the worker may add: it claims nothing of a start still going on. *)
QuietRequest(m) ==
    /\ m \in Request /\ m.seq <= w.sequence /\ w'.sequence = w.sequence
    /\ m.type \in {"started", "failed"} => ~InStart' /\ w'.call # "begin"
    /\ m.type = "failed" => m.seq \notin Live'

(* A worker step that starts and ends no process keeps the evidence.         *)
LEMMA QuietWorkerStep ==
  ASSUME LaunchInv, EvidenceInv, WorkerAlive, QuietWorker,
         req' = req \/ \E m : QuietRequest(m) /\ req' = Append(req, m)
  PROVE  EvidenceInv'
  <1>t. /\ req \in Seq(Request) /\ rep \in Seq(Reply) /\ w \in WorkerState
        /\ proc \in [Launches -> ProcStates]
    BY DEF LaunchInv, TypeOK
  <1>a. w'.pc = "exited" => w'.call \in {"none", "stop"}
    BY DEF QuietWorker, ClientThread
  <1>1. (InStart' => InStart) /\ (MayStart' => MayStart)
    BY <1>a DEF QuietWorker, InStart, MayStart, BeginAccepted
  <1>2. Ownership' /\ RecordOrder' /\ ClientThread' /\ Unlaunched' /\ RecoveryOrder'
    BY DEF QuietWorker, EvidenceInv, Ownership, RecordOrder, Unlaunched, RecoveryOrder,
       WorkerAlive
  <1>3. GuardianRecords' /\ UnrecordedWorker' /\ BootOrder' /\ OneLaunch'
    BY DEF QuietWorker, EvidenceInv, GuardianRecords, UnrecordedWorker, BootOrder, OneLaunch,
       SerialLaunches, WorkerAlive, BeforeWorker, Observing, InService, Finalizing, ThisRun
  <1>4. Ended' /\ FinalOrder'
    BY <1>1 DEF QuietWorker, EvidenceInv, Ended, FinalOrder, WorkerAlive, TerminationOfLaunched
  <1>5. StartOrder' /\ ReplyOrder'
    <2>1. WorkerAlive' => w'.sequence = w.sequence
      BY DEF QuietWorker, WorkerAlive
    <2>2. InStart' => WorkerAlive'
      BY <1>a DEF InStart, BeginAccepted, WorkerAlive, QuietWorker
    <2>3. ReplyOrder'
      BY <2>1 DEF QuietWorker, EvidenceInv, ReplyOrder
    <2>4. /\ w'.call = "begin" \/ w'.pc = "start" =>
               WorkerAlive' /\ (w.call = "begin" \/ w.pc = "start")
          /\ w'.pc = "complete" \/ w'.call = "started" =>
               WorkerAlive' /\ (w.pc = "complete" \/ w.call = "started")
          /\ MayStart' \/ w'.pc = "startFailed" => MayStart \/ w.pc = "startFailed"
      BY <1>1, <1>a DEF QuietWorker, MayStart, BeginAccepted, WorkerAlive
    <2> QED BY <1>1, <2>1, <2>2, <2>3, <2>4 DEF QuietWorker, EvidenceInv, StartOrder, InService
  <1>6. RequestOrder'
    <2>1. /\ WorkerAlive' => w'.sequence = w.sequence
          /\ InStart' => WorkerAlive'
          /\ w'.call = "begin" => WorkerAlive' /\ w.call = "begin"
      BY <1>a DEF QuietWorker, WorkerAlive, InStart, BeginAccepted
    <2>2. CASE req' = req BY <1>1, <2>1, <2>2 DEF QuietWorker, EvidenceInv, RequestOrder
    <2>3. ASSUME NEW m, QuietRequest(m), req' = Append(req, m) PROVE RequestOrder'
      <3>1. \A i \in DOMAIN req' : (i \in DOMAIN req /\ req'[i] = req[i]) \/ req'[i] = m
        BY <1>t, <2>3 DEF QuietRequest
      <3> QED BY <1>1, <2>1, <2>3, <3>1 DEF QuietWorker, QuietRequest, EvidenceInv, RequestOrder
    <2> QED BY <2>2, <2>3
  <1> QED BY <1>2, <1>3, <1>4, <1>5, <1>6 DEF EvidenceInv

(* A call of the worker, a request to start apart.                            *)
LEMMA CallKeepsEvidence ==
  ASSUME LaunchInv, EvidenceInv, WorkerAlive,
         NEW type \in MessageTypes \ {"begin"}, NEW seq \in Asked, Call(type, seq),
         seq <= w.sequence, type = "started" => w.pc = "complete",
         type = "failed" => w.pc = "startFailed",
         ~rec.worker \/ g.pc = "record" => type = "hello"
  PROVE  EvidenceInv'
  <1>t. w \in WorkerState /\ proc \in [Launches -> ProcStates]
    BY DEF LaunchInv, TypeOK
  <1>1. /\ w.call = "none" /\ w'.call = type /\ w'.sequence = w.sequence
        /\ w'.pc = IF type = "stop" THEN w.pc ELSE "call"
        /\ w'.terminal = w.terminal
        /\ UNCHANGED <<rec, stop, proven, owner, boot, scope, proc, run, expired, g, conn, rep,
                       rpc>>
    BY <1>t DEF Call, MutexFree, WorkerState, durable, native, MessageTypes
  <1>2. w.pc # "call" /\ (w.terminal => HasTermination(rec))
        /\ (~rec.worker \/ g.pc = "record" => rep = <<>>)
        /\ (w.pc = "startFailed" => Live = {})
    BY <1>1 DEF EvidenceInv, ClientThread, Ended, UnrecordedWorker, StartOrder
  <1>3. QuietWorker
    BY <1>1, <1>2 DEF QuietWorker, Live, WorkerAlive, MayStart, ClientThread, MessageTypes
  <1>4. req' = req \/ req' = Append(req, [type |-> type, seq |-> seq])
    BY DEF Call
  <1>5. QuietRequest([type |-> type, seq |-> seq])
    BY <1>1, <1>2 DEF QuietRequest, Request, MessageTypes, InStart, BeginAccepted, Live
  <1> QED BY <1>3, <1>4, <1>5, QuietWorkerStep

(* The steps of a worker that start nothing.                                  *)
LEMMA QuietStepsKeepEvidence ==
  ASSUME LaunchInv, EvidenceInv,
         \/ SendHello \/ OpenChildFails \/ CompleteStart \/ CompleteFailedStart
         \/ FinishCommand \/ FinishCommandLocally \/ Terminate \/ CloseTask
         \/ ReceiveReply \/ CallFails \/ WorkerExits \/ WorkerCrash
  PROVE  EvidenceInv'
  <1>t. /\ w \in WorkerState /\ proc \in [Launches -> ProcStates] /\ rep \in Seq(Reply)
        /\ rec \in Evidence /\ w.sequence \in Asked /\ 0 \in Asked /\ w.sequence >= 0
    BY BoundsAssumption DEF LaunchInv, TypeOK, WorkerState, Asked
  <1>k. w.sequence \in Nat
    BY <1>t, BoundsAssumption DEF Asked
  <1>o. WorkerOrder
    BY DEF LaunchInv
  <1>c. /\ w.pc = "call" <=> w.call \notin {"none", "stop"}
        /\ w.terminal => HasTermination(rec)
        /\ HasTermination(rec) => ~InStart
        /\ ~rec.worker \/ g.pc = "record" => rep = <<>>
        /\ ~rec.worker \/ g.pc = "record" =>
              w.pc \in {"none", "boot", "exit", "exited"} \/ (w.pc = "call" /\ w.call = "hello")
    BY DEF EvidenceInv, ClientThread, Ended, UnrecordedWorker
  <1>l. proc' = proc => Live' = Live
    BY DEF Live
  <1>f. ASSUME WorkerAlive, UNCHANGED <<rec, stop, proven, owner, boot, run, g, rpc, req>>,
               w'.sequence = w.sequence,
               w'.pc \in {"ready", "exit", "run"}, w'.call = "none",
               w'.terminal => HasTermination(rec),
               ~rec.worker \/ g.pc = "record" => w'.pc = "exit" /\ rep' = <<>>,
               rep' = rep \/ (rep # <<>> /\ rep' = Tail(rep)),
               Live' \subseteq Live, \A s \in Launches : proc'[s] = "none" <=> proc[s] = "none"
        PROVE  EvidenceInv'
    <2>1. \A i \in DOMAIN rep' : \E j \in DOMAIN rep : rep[j] = rep'[i]
      <3>1. CASE rep' = rep BY <3>1
      <3>2. CASE rep # <<>> /\ rep' = Tail(rep)
        <4>1. \A i \in DOMAIN Tail(rep) : i + 1 \in DOMAIN rep /\ Tail(rep)[i] = rep[i + 1]
          BY <1>t, <3>2
        <4> QED BY <3>2, <4>1
      <3> QED BY <1>f, <3>1, <3>2
    <2>2. QuietWorker
      BY <1>f, <2>1 DEF QuietWorker, ClientThread
    <2> QED BY <1>f, <2>2, QuietWorkerStep
  <1> USE DEF WorkerAt, WorkerAlive, durable, native, channel, MutexFree
  <1>1. CASE SendHello BY <1>1, <1>t, CallKeepsEvidence DEF SendHello, MessageTypes
  <1>2. CASE OpenChildFails
    <2>1. /\ w.pc = "boot" /\ w'.pc = "exit" /\ w'.call = w.call /\ w'.terminal = w.terminal
          /\ w'.sequence = w.sequence
          /\ UNCHANGED <<rec, stop, proven, owner, boot, run, proc, g, rpc, req, rep>>
      BY <1>2, <1>t DEF OpenChildFails, WorkerState
    <2>2. w.call \in {"none", "stop"}
      BY <1>c, <2>1
    <2>3. QuietWorker
      BY <1>c, <1>l, <2>1, <2>2 DEF QuietWorker, ClientThread
    <2> QED BY <2>1, <2>3, QuietWorkerStep
  <1>3. CASE CompleteStart
    <2>1. w.pc = "complete" /\ w.call = "none" /\ ~w.terminal /\ w.sequence \in Asked
      BY <1>3, <1>c, <1>t DEF CompleteStart, InStart
    <2>2. Call("started", w.sequence)
      BY <1>3, <2>1 DEF CompleteStart
    <2> QED BY <1>c, <1>k, <2>1, <2>2, CallKeepsEvidence DEF MessageTypes
  <1>4. CASE CompleteFailedStart
    <2>1. w.pc = "startFailed" /\ w.call = "none" /\ ~w.terminal /\ w.sequence \in Asked
      BY <1>4, <1>c, <1>t DEF CompleteFailedStart, InStart
    <2>2. Call("failed", w.sequence)
      BY <1>4, <2>1 DEF CompleteFailedStart
    <2> QED BY <1>c, <1>k, <2>1, <2>2, CallKeepsEvidence DEF MessageTypes
  <1>5. CASE FinishCommand
    <2>1. w.pc = "run" /\ Call("finish", w.sequence)
      BY <1>5 DEF FinishCommand, CommandWaited
    <2> QED BY <1>c, <1>k, <1>t, <2>1, CallKeepsEvidence DEF MessageTypes
  <1>6. CASE FinishCommandLocally
    <2>1. /\ w.pc = "run" /\ w'.pc = "ready" /\ w'.call = "none" /\ w'.terminal = w.terminal
          /\ w'.sequence = w.sequence
          /\ UNCHANGED <<rec, stop, proven, owner, boot, run, proc, g, rpc, req, rep>>
      BY <1>6, <1>t DEF FinishCommandLocally, CommandWaited, WorkerState
    <2> QED BY <1>c, <1>f, <1>l, <2>1
  <1>7. CASE Terminate
    <2>1. w.pc \notin {"none", "boot", "exit", "exited"} /\ w.call # "hello" /\ Call("stop", 0)
      BY <1>7 DEF Terminate
    <2> QED BY <1>c, <1>t, <2>1, CallKeepsEvidence DEF MessageTypes
  <1>8. CASE CloseTask
    <2>1. w.pc = "ready" /\ w.call = "none"
      BY <1>8 DEF CloseTask
    <2>2. CASE w.controlErr \/ w.terminal
      <3>1. /\ w'.pc = "exit" /\ w'.call = "none" /\ w'.terminal = w.terminal
            /\ w'.sequence = w.sequence
            /\ UNCHANGED <<rec, stop, proven, owner, boot, run, proc, g, rpc, req, rep>>
        BY <1>8, <1>t, <2>1, <2>2 DEF CloseTask, WorkerState
      <3> QED BY <1>c, <1>f, <1>l, <2>1, <3>1
    <2>3. CASE ~(w.controlErr \/ w.terminal)
      BY <1>8, <1>c, <1>t, <2>1, <2>3, CallKeepsEvidence DEF CloseTask, MessageTypes
    <2> QED BY <2>2, <2>3
  <1>9. ASSUME WorkerAlive, w.call # "none", FailCall,
               rep' = rep \/ (rep # <<>> /\ rep' = Tail(rep)),
               UNCHANGED <<rec, stop, proven, owner, boot, run, g, rpc, req>>
        PROVE  EvidenceInv'
    <2>1. /\ w'.sequence = w.sequence /\ w'.call = "none" /\ w'.terminal = w.terminal
      BY <1>9, <1>t DEF FailCall, WorkerState, MessageTypes
    <2>2. IF w.call = "stop" THEN w'.pc = w.pc
          ELSE w'.pc = IF w.call \in {"hello", "close"} THEN "exit"
                       ELSE IF w.call = "started" THEN "run" ELSE "ready"
      BY <1>9, <1>t DEF FailCall, WorkerState, MessageTypes
    <2>3. Live' \subseteq Live /\ \A s \in Launches : proc'[s] = "none" <=> proc[s] = "none"
      <3>1. CASE w.call = "started"
        <4>1. w.active \in Launches /\ proc[w.active] # "none"
          BY <1>o, <3>1 DEF WorkerOrder, EvidenceInv, StartOrder
        <4>2. proc' = Abort(w.active) \/ proc' = [proc EXCEPT ![w.active] = "dead"]
          BY <1>9, <3>1 DEF FailCall
        <4> QED BY <1>t, <4>1, <4>2 DEF Abort, Live, LiveStates, ProcStates
      <3>2. CASE w.call # "started"
        <4>1. UNCHANGED proc
          BY <1>9, <1>t, <3>2 DEF FailCall, WorkerState, MessageTypes
        <4> QED BY <1>l, <4>1
      <3> QED BY <3>1, <3>2
    <2>4. CASE w.call # "stop"
      <3>1. ~rec.worker \/ g.pc = "record" => rep' = <<>> /\ w.call = "hello"
        BY <1>9, <1>c, <2>4
      <3> QED BY <1>9, <1>c, <1>f, <2>1, <2>2, <2>3, <2>4, <3>1
    <2>5. CASE w.call = "stop"
      <3>1. \A i \in DOMAIN rep' : \E j \in DOMAIN rep : rep[j] = rep'[i]
        <4>1. rep # <<>> => \A i \in DOMAIN Tail(rep) :
                 i + 1 \in DOMAIN rep /\ Tail(rep)[i] = rep[i + 1]
          BY <1>t
        <4> QED BY <1>9, <4>1
      <3>2. QuietWorker
        BY <1>9, <1>c, <2>1, <2>2, <2>3, <2>5, <3>1 DEF QuietWorker, ClientThread, MayStart
      <3> QED BY <1>9, <3>2, QuietWorkerStep
    <2> QED BY <2>4, <2>5
  <1>10. CASE CallFails BY <1>9, <1>10 DEF CallFails
  <1>11. CASE WorkerExits \/ WorkerCrash
    <2>1. WorkerAlive /\ WorkerEnds
      BY <1>11 DEF WorkerExits, WorkerCrash
    <2>2. w'.pc = "exited" /\ w'.call = "none" /\ ~w'.terminal /\ w'.sequence = 0
      BY <2>1 DEF WorkerEnds, NoWorker
    <2>3. Live' \subseteq Live /\ \A s \in Launches : proc'[s] = "none" <=> proc[s] = "none"
      BY <1>t, <2>1 DEF WorkerEnds, GatesClosed, Live, LiveStates, ProcStates
    <2>4. QuietWorker /\ req' = req
      BY <2>1, <2>2, <2>3 DEF WorkerEnds, QuietWorker, ClientThread
    <2> QED BY <2>1, <2>4, QuietWorkerStep
  <1>12. CASE ReceiveReply
    <2>1. /\ WorkerAlive /\ w.call # "none" /\ rep # <<>> /\ rep' = Tail(rep)
          /\ UNCHANGED <<rec, stop, proven, owner, boot, run, g, rpc, req>>
      BY <1>12 DEF ReceiveReply
    <2>2. rec.worker /\ g.pc # "record"
      BY <1>c, <2>1
    <2>3. CASE FailCall BY <1>9, <2>1, <2>3
    <2>4. CASE /\ AcceptReply
               /\ Head(rep) = [type |-> w.call, seq |-> MessageSequence(w.call), ok |-> TRUE]
      <3>1. w'.sequence = w.sequence /\ w'.call = "none"
        BY <1>t, <2>1, <2>4 DEF AcceptReply, WorkerState, MessageTypes
      <3>2. /\ w'.pc = CASE w.call \in {"hello", "failed", "finish"} -> "ready"
                         [] w.call = "begin" -> "start" [] w.call = "started" -> "run"
                         [] w.call = "stop" -> w.pc [] w.call = "close" -> "exit"
            /\ w'.terminal = (w.terminal \/ w.call \in {"stop", "close"})
        BY <1>t, <2>1, <2>4 DEF AcceptReply, WorkerState, MessageTypes
      <3>3. 1 \in DOMAIN rep /\ rep[1] = Head(rep)
        BY <1>t, <2>1
      <3>4. w.call \in {"stop", "close"} => HasTermination(rec)
        BY <2>4, <3>3 DEF EvidenceInv, Ended
      <3>5. w.call = "begin" => MayStart
        BY <2>4, <3>3 DEF MayStart, BeginAccepted, MessageSequence
      <3>6. Live' \subseteq Live /\ \A s \in Launches : proc'[s] = "none" <=> proc[s] = "none"
        <4>1. CASE w.call = "started"
          <5>1. w.active \in Launches /\ proc[w.active] # "none"
            BY <1>o, <4>1 DEF WorkerOrder, EvidenceInv, StartOrder
          <5>2. proc' = Release(w.active)
            BY <2>4, <4>1 DEF AcceptReply
          <5> QED BY <1>t, <5>1, <5>2 DEF Release, Live, LiveStates, ProcStates
        <4>2. CASE w.call # "started"
          <5>1. UNCHANGED proc
            BY <1>t, <2>1, <2>4, <4>2 DEF AcceptReply, WorkerState, MessageTypes
          <5> QED BY <1>l, <5>1
        <4> QED BY <4>1, <4>2
      <3>7. \A i \in DOMAIN rep' : \E j \in DOMAIN rep : rep[j] = rep'[i]
        <4>1. \A i \in DOMAIN Tail(rep) : i + 1 \in DOMAIN rep /\ Tail(rep)[i] = rep[i + 1]
          BY <1>t, <2>1
        <4> QED BY <2>1, <4>1
      <3>8. w.call \in MessageTypes
        BY <1>t, <2>1 DEF WorkerState
      <3>9. QuietWorker
        BY <1>c, <2>1, <2>2, <3>1, <3>2, <3>4, <3>5, <3>6, <3>7, <3>8
           DEF QuietWorker, ClientThread, MayStart, MessageTypes
      <3> QED BY <2>1, <3>9, QuietWorkerStep
    <2> QED BY <1>12, <2>3, <2>4 DEF ReceiveReply
  <1> QED BY <1>1, <1>2, <1>3, <1>4, <1>5, <1>6, <1>7, <1>8, <1>10, <1>11, <1>12

(* A worker asks for its next start: nothing has ever carried that sequence.  *)
LEMMA StartCommandKeepsEvidence ==
  ASSUME LaunchInv, EvidenceInv, StartCommand
  PROVE  EvidenceInv'
  <1>t. /\ w \in WorkerState /\ proc \in [Launches -> ProcStates] /\ rep \in Seq(Reply)
        /\ req \in Seq(Request) /\ w.sequence \in Nat
        /\ \A i \in DOMAIN rep : rep[i].seq \in Nat
        /\ \A i \in DOMAIN req : req[i].seq \in Nat
    <2>1. /\ w \in WorkerState /\ proc \in [Launches -> ProcStates] /\ rep \in Seq(Reply)
          /\ req \in Seq(Request)
      BY DEF LaunchInv, TypeOK
    <2>2. \A n \in Asked : n \in Nat
      BY BoundsAssumption DEF Asked
    <2>3. (\A i \in DOMAIN rep : rep[i] \in Reply) /\ (\A i \in DOMAIN req : req[i] \in Request)
      BY <2>1
    <2> QED BY <2>1, <2>2, <2>3 DEF WorkerState, Reply, Request
  <1>1. /\ w.pc = "ready" /\ w.call = "none" /\ w'.pc = "call" /\ w'.call = "begin"
        /\ w'.sequence = w.sequence + 1 /\ w'.terminal = w.terminal
        /\ UNCHANGED <<rec, stop, proven, owner, boot, scope, proc, run, expired, g, conn, rep,
                       rpc>>
    BY <1>t DEF StartCommand, Call, WorkerAt, MutexFree, WorkerState, durable, native
  <1>2. req' = req \/ req' = Append(req, [type |-> "begin", seq |-> w.sequence + 1])
    BY DEF StartCommand, Call
  <1>3. WorkerAlive /\ rec.worker /\ g.pc # "record"
    BY <1>1 DEF EvidenceInv, UnrecordedWorker, WorkerAlive
  <1>4. ~InStart' /\ ~MayStart'
    <2>1. \A i \in DOMAIN rep : ~(rep[i].type = "begin" /\ rep[i].seq = w.sequence + 1 /\ rep[i].ok)
      BY <1>3, <1>t DEF EvidenceInv, ReplyOrder
    <2> QED BY <1>1, <2>1 DEF InStart, MayStart, BeginAccepted
  <1>5. \A s \in Launches : proc[s] # "none" => s # w.sequence + 1 /\ s <= w.sequence + 1
    <2>1. \A s \in Launches : s \in Nat
      BY BoundsAssumption DEF Launches
    <2>2. \A s \in Launches : proc[s] # "none" => s <= w.sequence
      BY <1>3 DEF EvidenceInv, StartOrder
    <2> QED BY <1>t, <2>1, <2>2
  <1>6. Live' = Live
    BY <1>1 DEF Live
  <1>7. Ownership' /\ RecordOrder' /\ ClientThread' /\ Unlaunched' /\ RecoveryOrder' /\ OneLaunch'
    BY <1>1, <1>3, <1>6 DEF EvidenceInv, Ownership, RecordOrder, Unlaunched, RecoveryOrder,
       WorkerAlive, ClientThread, OneLaunch, SerialLaunches
  <1>8. GuardianRecords' /\ UnrecordedWorker' /\ BootOrder'
    BY <1>1, <1>3, <1>6 DEF EvidenceInv, GuardianRecords, UnrecordedWorker, BootOrder,
       WorkerAlive, BeforeWorker, Observing, InService, Finalizing, ThisRun
  <1>9. Ended' /\ FinalOrder'
    BY <1>1, <1>3, <1>4, <1>6 DEF EvidenceInv, Ended, FinalOrder, WorkerAlive,
       TerminationOfLaunched
  <1>10. StartOrder'
    BY <1>1, <1>4, <1>5, <1>6 DEF EvidenceInv, StartOrder, InService
  <1>11. ReplyOrder'
    BY <1>1, <1>3, <1>t DEF EvidenceInv, ReplyOrder
  <1>12. RequestOrder'
    <2>1. \A i \in DOMAIN req' : \/ i \in DOMAIN req /\ req'[i] = req[i]
                                 \/ req'[i] = [type |-> "begin", seq |-> w.sequence + 1]
      BY <1>2, <1>t
    <2>2. \A i \in DOMAIN req :
             /\ req[i].type \in {"begin", "started", "failed"} =>
                   req[i].seq <= w.sequence + 1 /\ req[i].seq # w.sequence + 1
             /\ req[i].type = "failed" => req[i].seq \notin Live
      BY <1>3, <1>t DEF EvidenceInv, RequestOrder
    <2> QED BY <1>1, <1>4, <1>6, <1>t, <2>1, <2>2 DEF RequestOrder
  <1> QED BY <1>7, <1>8, <1>9, <1>10, <1>11, <1>12 DEF EvidenceInv

(* A native Start: the one step that puts a process into the scope.           *)
LEMMA NativeStartKeepsEvidence ==
  ASSUME LaunchInv, EvidenceInv, NativeStart
  PROVE  EvidenceInv'
  <1>t. w \in WorkerState /\ proc \in [Launches -> ProcStates]
    BY DEF LaunchInv, TypeOK
  <1>1. /\ w.pc = "start" /\ w.sequence \in Launches
        /\ UNCHANGED <<rec, stop, proven, owner, boot, scope, run, expired, g, req, rep, conn, rpc>>
    BY DEF NativeStart, WorkerAt, LaunchInv, WorkerOrder, durable, channel
  <1>2. WorkerAlive /\ InStart /\ MayStart /\ w.call \in {"none", "stop"}
    BY <1>1 DEF WorkerAlive, InStart, MayStart, EvidenceInv, ClientThread
  <1>3. rec.worker /\ g.pc # "record" /\ (w.terminal => HasTermination(rec))
    BY <1>1 DEF EvidenceInv, UnrecordedWorker, Ended
  <1>4. CASE UNCHANGED proc /\ w' = [w EXCEPT !.pc = "startFailed"]
    <2>1. /\ w'.pc = "startFailed" /\ w'.call = w.call /\ w'.sequence = w.sequence
          /\ w'.terminal = w.terminal
      BY <1>4, <1>t DEF WorkerState
    <2>2. QuietWorker
      BY <1>1, <1>2, <1>3, <1>4, <2>1 DEF QuietWorker, ClientThread, Live
    <2> QED BY <1>1, <1>2, <2>2, QuietWorkerStep
  <1>5. CASE proc' = [proc EXCEPT ![w.sequence] = "gated"] /\ w' = [w EXCEPT !.pc = "complete"]
    <2>1. /\ w'.pc = "complete" /\ w'.call = w.call /\ w'.sequence = w.sequence
          /\ w'.terminal = w.terminal
      BY <1>5, <1>t DEF WorkerState
    <2>2. Live = {} /\ ~HasTermination(rec) /\ g.pc # "publish"
          /\ rpc \notin {"absence", "terminate"}
      BY <1>2, <1>3 DEF EvidenceInv, StartOrder, Ended, FinalOrder, RecoveryOrder
    <2>3. Live' = {w.sequence}
      BY <1>1, <1>5, <1>t, <2>2 DEF Live, LiveStates, ProcStates
    <2>4. InStart' /\ ~MayStart' /\ WorkerAlive'
      BY <1>2, <2>1 DEF InStart, MayStart, BeginAccepted, WorkerAlive
    <2>5. Ownership' /\ RecordOrder' /\ ClientThread' /\ Unlaunched' /\ RecoveryOrder'
          /\ OneLaunch'
      BY <1>1, <1>2, <2>1, <2>2, <2>3, <2>4 DEF EvidenceInv, Ownership, RecordOrder, Unlaunched,
         RecoveryOrder, ClientThread, OneLaunch, SerialLaunches
    <2>6. GuardianRecords' /\ UnrecordedWorker' /\ BootOrder'
      BY <1>1, <1>2, <1>3, <2>1 DEF EvidenceInv, GuardianRecords, UnrecordedWorker, BootOrder,
         BeforeWorker, Observing, InService, Finalizing, ThisRun
    <2>7. Ended' /\ FinalOrder'
      BY <1>1, <1>2, <1>3, <2>1, <2>2, <2>4 DEF EvidenceInv, Ended, FinalOrder
    <2>8. StartOrder'
      <3>1. \A s \in Launches : proc'[s] # "none" => s <= w.sequence
        <4>1. w.sequence <= w.sequence
          BY <1>1, BoundsAssumption DEF Launches
        <4> QED BY <1>2, <1>5, <1>t, <4>1 DEF EvidenceInv, StartOrder
      <3>2. proc'[w.sequence] # "none"
        BY <1>1, <1>5, <1>t
      <3> QED BY <1>1, <1>2, <2>1, <2>3, <2>4, <3>1, <3>2 DEF EvidenceInv, StartOrder, InService
    <2>9. RequestOrder' /\ ReplyOrder'
      BY <1>1, <1>2, <2>1, <2>3, <2>4 DEF EvidenceInv, RequestOrder, ReplyOrder
    <2> QED BY <2>5, <2>6, <2>7, <2>8, <2>9 DEF EvidenceInv
  <1> QED BY <1>4, <1>5 DEF NativeStart

(* Processes, deadlines, users, front ends, crashes and reboots.              *)
LEMMA EnvironmentKeepsEvidence ==
  ASSUME LaunchInv, EvidenceInv, AcquireRunOwner \/ Environment
  PROVE  EvidenceInv'
  <1>t. /\ proc \in [Launches -> ProcStates] /\ w \in WorkerState /\ g \in GuardianState
        /\ rec \in Evidence /\ boot \in Nat
    BY BoundsAssumption DEF LaunchInv, TypeOK, Boots
  <1>l. proc' = proc => Live' = Live
    BY DEF Live
  <1> USE DEF durable, native, channel, At
  <1>1. ASSUME Live' \subseteq Live, \A s \in Launches : proc'[s] = "none" <=> proc[s] = "none",
               UNCHANGED <<rec, proven, owner, boot, run, g, w, req, rep, rpc>>,
               stop # "none" => stop' # "none"
        PROVE  EvidenceInv'
    BY <1>1 DEF EvidenceInv, Ownership, RecordOrder, GuardianRecords,
       UnrecordedWorker, BootOrder, Ended, FinalOrder, RecoveryOrder, StartOrder, OneLaunch,
       RequestOrder, ReplyOrder, ClientThread, Unlaunched, BeforeWorker, Observing, InService,
       Finalizing, SerialLaunches, WorkerAlive, InStart, MayStart, BeginAccepted,
       TerminationOfLaunched, ThisRun
  <1>2. ASSUME NEW s \in Launches, GateOpens(s) \/ GateFails(s) \/ ProcessEnds(s)
        PROVE  EvidenceInv'
    <2>1. Live' \subseteq Live /\ \A r \in Launches : proc'[r] = "none" <=> proc[r] = "none"
      BY <1>2, <1>t DEF GateOpens, GateFails, ProcessEnds, Live, LiveStates, ProcStates
    <2> QED BY <1>1, <1>2, <2>1 DEF GateOpens, GateFails, ProcessEnds
  <1>3. CASE DeadlinePasses \/ RequestStop
    BY <1>1, <1>3, <1>l DEF DeadlinePasses, RequestStop
  <1>4. CASE ProveUnlaunched \/ FenceUnlaunched
    <2>1. /\ owner = "none" /\ rec = NoEvidence /\ stop' # "none" /\ proven'
          /\ UNCHANGED <<rec, owner, native, run, expired, g, w, channel, rpc>>
      BY <1>4 DEF ProveUnlaunched, FenceUnlaunched, UnlaunchedUnderLease
    <2>2. g.pc = "idle"
      BY <2>1 DEF EvidenceInv, Ownership
    <2> QED BY <1>l, <2>1, <2>2 DEF EvidenceInv, Ownership, RecordOrder, GuardianRecords,
         UnrecordedWorker, BootOrder, Ended, FinalOrder, RecoveryOrder, StartOrder, OneLaunch,
         RequestOrder, ReplyOrder, ClientThread, Unlaunched, BeforeWorker, Observing, InService,
         Finalizing, SerialLaunches, WorkerAlive, InStart, MayStart, BeginAccepted,
         TerminationOfLaunched, ThisRun
  <1>5. CASE GuardianCrash BY <1>5, RunEndKeepsEvidence DEF GuardianCrash
  <1>6. CASE WorkerCrash BY <1>6, QuietStepsKeepEvidence
  <1>7. CASE Reboot
    <2>1. /\ ForgetsBookkeeping /\ owner' = "none" /\ rpc' = "idle" /\ req' = <<>> /\ rep' = <<>>
          /\ proc' = Killed /\ UNCHANGED <<rec, stop, proven, run>>
      BY <1>7 DEF Reboot, ForgetsBookkeeping, IdleGuardian
    <2>2. /\ w'.pc = IF w.pc = "none" THEN "none" ELSE "exited"
          /\ w'.call \in {"none", "stop"} /\ (w'.terminal => HasTermination(rec))
      BY <1>7 DEF Reboot, NoWorker, EvidenceInv, ClientThread, Ended
    <2>3. Live' = {} /\ \A s \in Launches : proc'[s] = "none" <=> proc[s] = "none"
      BY <1>t, <2>1, KilledScope
    <2>4. ~InStart' /\ ~MayStart' /\ ~WorkerAlive'
      BY <2>2 DEF InStart, MayStart, BeginAccepted, WorkerAlive
    <2> QED BY <2>1, <2>2, <2>3, <2>4 DEF EvidenceInv, ForgetsBookkeeping, Ownership, RecordOrder,
         GuardianRecords, UnrecordedWorker, BootOrder, Ended, FinalOrder, RecoveryOrder,
         StartOrder, OneLaunch, RequestOrder, ReplyOrder, ClientThread, Unlaunched, BeforeWorker,
         Observing, InService, Finalizing, SerialLaunches
  <1>8. CASE AcquireRunOwner
    <2>1. /\ g.pc = "idle" /\ owner = "none" /\ owner' = "guardian" /\ g'.pc = "owned"
          /\ g'.cause = "none" /\ ~g'.started /\ ~g'.waitObserved
          /\ g'.authorized = 0 /\ g'.active = 0 /\ g'.pending = NoReply
          /\ UNCHANGED <<durable, expired, native, w, channel, rpc>>
      BY <1>8 DEF AcquireRunOwner, IdleGuardian
    <2> QED BY <1>l, <2>1 DEF EvidenceInv, Ownership, RecordOrder, GuardianRecords,
         UnrecordedWorker, BootOrder, Ended, FinalOrder, RecoveryOrder, StartOrder, OneLaunch,
         RequestOrder, ReplyOrder, ClientThread, Unlaunched, BeforeWorker, Observing, InService,
         Finalizing, SerialLaunches, WorkerAlive, InStart, MayStart, BeginAccepted
  <1> QED BY <1>2, <1>3, <1>4, <1>5, <1>6, <1>7, <1>8 DEF Environment

(* The evidence is sound before anything has been written.                   *)
LEMMA InitEvidenceInv == Init => EvidenceInv
  <1> SUFFICES ASSUME Init PROVE EvidenceInv
    OBVIOUS
  <1>1. Live = {} /\ \A s \in Launches : proc[s] = "none"
    BY DEF Init, Live, LiveStates
  <1>2. /\ ~HasIntent(rec) /\ ~HasRegistration(rec) /\ ~HasTermination(rec)
        /\ ~rec.worker /\ rec.launches = 0 /\ rec.wait = "none"
        /\ rec.termination.cause = "none" /\ rec = NoEvidence
    BY DEF Init, NoEvidence, NoStamp, NoTermination, HasIntent, HasRegistration, HasTermination
  <1>3. /\ g.pc = "idle" /\ g.cause = "none" /\ ~g.waitObserved /\ g.authorized = 0
        /\ g.active = 0 /\ g.pending = NoReply
    BY DEF Init, IdleGuardian
  <1>4. w.pc = "none" /\ w.call = "none" /\ ~w.terminal
    BY DEF Init, NoWorker
  <1>5. ~WorkerAlive /\ ~InStart /\ ~MayStart
    BY <1>4 DEF WorkerAlive, InStart, MayStart, BeginAccepted
  <1>6. req = <<>> /\ rep = <<>> /\ ~proven /\ owner = "none" /\ rpc = "idle"
    BY DEF Init
  <1>7. Ownership /\ RecordOrder /\ GuardianRecords /\ UnrecordedWorker /\ BootOrder /\ Unlaunched
    BY <1>1, <1>2, <1>3, <1>4, <1>5, <1>6 DEF Ownership, RecordOrder, GuardianRecords,
       UnrecordedWorker, BootOrder, Unlaunched, BeforeWorker, Observing, InService, Finalizing
  <1>8. Ended /\ FinalOrder /\ RecoveryOrder /\ StartOrder /\ OneLaunch /\ ClientThread
    BY <1>1, <1>2, <1>3, <1>4, <1>5, <1>6 DEF Ended, FinalOrder, RecoveryOrder, StartOrder,
       OneLaunch, SerialLaunches, ClientThread, InService
  <1>9. RequestOrder /\ ReplyOrder
    BY <1>5, <1>6 DEF RequestOrder, ReplyOrder
  <1> QED BY <1>7, <1>8, <1>9 DEF EvidenceInv

--------------------
(* Every step preserves the invariant.                                       *)
LEMMA StepKeepsEvidence ==
  ASSUME LaunchInv, EvidenceInv, [Next]_vars
  PROVE  EvidenceInv'
  <1>1. CASE UNCHANGED vars BY <1>1 DEF vars, EvidenceInv, Ownership, RecordOrder, GuardianRecords,
       UnrecordedWorker, BootOrder, Ended, FinalOrder, RecoveryOrder, StartOrder, OneLaunch,
       RequestOrder, ReplyOrder, ClientThread, Unlaunched, BeforeWorker, Observing, InService,
       Finalizing, SerialLaunches, Live, WorkerAlive, InStart, MayStart, BeginAccepted,
       TerminationOfLaunched, ThisRun
  <1>2. CASE GuardianStep \/ ServeFault
    BY <1>2, StartupKeepsEvidence, ServiceKeepsEvidence, BeginKeepsEvidence, StartedKeepsEvidence,
       FinalizationKeepsEvidence DEF GuardianStep, GuardianControl
  <1>3. CASE WorkerStep
    BY <1>3, QuietStepsKeepEvidence, StartCommandKeepsEvidence, NativeStartKeepsEvidence
       DEF WorkerStep
  <1>4. CASE RecoveryActions BY <1>4, RecoveryKeepsEvidence
  <1>5. CASE AcquireRunOwner \/ Environment
    BY <1>5, EnvironmentKeepsEvidence
  <1> QED BY <1>1, <1>2, <1>3, <1>4, <1>5 DEF Next

(* EvidenceInv is an invariant of the lifetime.                               *)
THEOREM EvidenceInvariant == Spec => []EvidenceInv
  <1>1. LaunchInv /\ EvidenceInv /\ [Next]_vars => EvidenceInv'
    BY StepKeepsEvidence
  <1> QED BY InitEvidenceInv, LaunchInvariant, <1>1, PTL DEF Spec

(* The invariant contains the soundness of the evidence.                     *)
LEMMA SoundEvidence ==
  ASSUME EvidenceInv
  PROVE  EvidenceIsSound
  <1>1. ~HasRegistration(rec) => Live = {} /\ ~rec.worker /\ w.pc = "none"
    BY DEF EvidenceInv, RecordOrder, UnrecordedWorker, BootOrder, Live, LiveStates
  <1>2. TerminationSound /\ WorkerTerminalIsDurable /\ NoTerminationInsideStart /\ SerialLaunches
    BY DEF EvidenceInv, Ended, OneLaunch, TerminationSound, WorkerTerminalIsDurable,
       NoTerminationInsideStart, InStart
  <1>3. ClosureSound
    BY <1>1, <1>2 DEF EvidenceInv, Ended, RecordOrder, ClosureSound, Closed, AbsenceBinds,
       HasTermination, TerminationSound
  <1>4. EvidenceNeverFaults
    BY DEF EvidenceInv, RecordOrder, EvidenceNeverFaults, EvidenceBinds
  <1>5. UnlaunchedProofHolds
    BY <1>1 DEF EvidenceInv, Unlaunched, UnlaunchedProofHolds, NoEvidence, NoStamp, HasIntent,
       HasRegistration
  <1> QED BY <1>2, <1>3, <1>4, <1>5 DEF EvidenceIsSound

(* The evidence is sound for every launch limit, number of guardian runs and  *)
(* number of boots, under both scope assurances: a durable termination means  *)
(* an empty scope, closure an absent worker besides, no reader meets evidence *)
(* it must reject, and no caller believes more than is durable.               *)
THEOREM EvidenceSoundness == Spec => []EvidenceIsSound
  <1>1. EvidenceInv => EvidenceIsSound
    BY SoundEvidence
  <1> QED BY EvidenceInvariant, <1>1, PTL

--------------------
(* What one step may change of the records.                                   *)
Writes ==
    \/ RecordIntent \/ BindAndRecordRunScope \/ PersistWorkerIdentity \/ PersistUnrecordedWait
    \/ HandleStarted \/ RejectStartedLaunch \/ RecordTermination \/ PersistWorkerWait
    \/ PersistAbsence \/ ReconcilePreviousBoot \/ PersistRecoveryTermination
    \/ RecoverWorkerCompletion

(* The other steps leave every record alone.                                  *)
LEMMA OthersWriteNothing ==
  ASSUME [Next]_vars, ~Writes
  PROVE  UNCHANGED rec
  <1> USE DEF durable
  <1>1. CASE UNCHANGED vars BY <1>1 DEF vars
  <1>2. CASE GuardianStartup
    BY <1>2 DEF Writes, GuardianStartup, RefuseTerminalReplay, RecoverExpiredStart, PermitIntent,
       CreateScope, ResolveCreatedScopeFailure, StartWorker, ObserveWorker
  <1>3. CASE GuardianControl \/ ServeFault
    BY <1>3 DEF Writes, GuardianControl, HandleHello, HandleBegin, AcknowledgeStarted,
       HandleFailed, HandleFinish, HandleTermination, ServeEvent, ReaderDeadline, ServeFault
  <1>4. CASE GuardianFinalization
    BY <1>4 DEF Writes, GuardianFinalization, TerminationAttemptFails, FencePendingStart,
       ProveScopeEmpty, AwaitWorkerWait, DestroyScope, ReleaseOwner
  <1>5. CASE WorkerStep
    BY <1>5 DEF WorkerStep, SendHello, OpenChildFails, StartCommand, NativeStart, CompleteStart,
       CompleteFailedStart, FinishCommand, FinishCommandLocally, Terminate, CloseTask,
       ReceiveReply, CallFails, WorkerExits, WorkerEnds, Call
  <1>6. CASE RecoveryActions
    BY <1>6 DEF Writes, RecoveryActions, AcquireRecoveryOwner, DisposeUnregisteredScope,
       RecoverRegistered, AwaitWorkerAbsent, RecoverScopeAgain, DestroyRecoveredScope, RecoveryEnds
  <1>7. CASE AcquireRunOwner \/ Environment
    BY <1>7 DEF AcquireRunOwner, Environment, GateOpens, GateFails, ProcessEnds, DeadlinePasses,
       RequestStop, ProveUnlaunched, FenceUnlaunched, GuardianCrash, WorkerCrash, WorkerEnds,
       Reboot
  <1> QED BY <1>1, <1>2, <1>3, <1>4, <1>5, <1>6, <1>7 DEF Next, GuardianStep

(* A writer adds one record that was absent, or writes what is there again.   *)
WritesOnce ==
    \/ UNCHANGED rec
    \/ ~HasIntent(rec) /\ rec' = [rec EXCEPT !.intent = ThisRun]
    \/ ~HasRegistration(rec) /\ rec' = [rec EXCEPT !.registration = ThisRun]
    \/ ~HasTermination(rec) /\ rec' = [rec EXCEPT !.worker = TRUE]
    \/ /\ ~HasTermination(rec)
       /\ \E n \in Launches : n >= rec.launches /\ rec' = [rec EXCEPT !.launches = n]
    \/ /\ ~HasTermination(rec)
       /\ \E t : rec' = [rec EXCEPT !.termination = t]
    \/ rec.wait = "none" /\ \E r \in WaitResults \ {"none"} : rec' = [rec EXCEPT !.wait = r]

(* The steps that write records write each of them once.                     *)
LEMMA WritersWriteOnce ==
  ASSUME LaunchInv, EvidenceInv, Writes
  PROVE  WritesOnce
  <1>t. g \in GuardianState /\ rec \in Evidence
    BY DEF LaunchInv, TypeOK
  <1> USE DEF At, RecoveryAt, WritesOnce
  <1>1. CASE RecordIntent BY <1>1 DEF RecordIntent
  <1>2. CASE BindAndRecordRunScope BY <1>2 DEF BindAndRecordRunScope, EvidenceInv, GuardianRecords
  <1>3. CASE PersistWorkerIdentity
    BY <1>3 DEF PersistWorkerIdentity, EvidenceInv, GuardianRecords, Observing
  <1>4. CASE PersistUnrecordedWait
    BY <1>4 DEF PersistUnrecordedWait, EvidenceInv, GuardianRecords, Observing, WaitResults
  <1>5. CASE HandleStarted \/ RejectStartedLaunch
    <2> DEFINE m == Head(req)
    <2>1. /\ g.pc = "serve"
          /\ \/ UNCHANGED rec
             \/ /\ m.seq \in Live /\ g.authorized = m.seq
                /\ rec' = [rec EXCEPT !.launches = m.seq]
      BY <1>5 DEF HandleStarted, RejectStartedLaunch, Serving, RecordLaunch, ReadyToAcknowledge
    <2>2. CASE UNCHANGED rec BY <2>2
    <2>3. CASE m.seq \in Live /\ g.authorized = m.seq /\ rec' = [rec EXCEPT !.launches = m.seq]
      <3>1. m.seq \in Launches /\ m.seq # 0
        BY <2>3, BoundsAssumption DEF Live, Launches
      <3>2. m.seq >= rec.launches
        BY <1>t, <2>1, <2>3, <3>1, BoundsAssumption
           DEF LaunchInv, GuardianOrder, Evidence, GuardianState, Launches
      <3>3. ~HasTermination(rec)
        BY <2>1 DEF EvidenceInv, GuardianRecords, InService
      <3> QED BY <2>3, <3>1, <3>2, <3>3
    <2> QED BY <2>1, <2>2, <2>3
  <1>6. CASE RecordTermination
    <2>1. g.pc = "publish" /\ rec' = [rec EXCEPT !.termination = TerminationOfLaunched]
      BY <1>6 DEF RecordTermination
    <2>2. HasTermination(rec) => rec.termination = TerminationOfLaunched
      BY <2>1 DEF EvidenceInv, FinalOrder
    <2>3. CASE HasTermination(rec) BY <1>t, <2>1, <2>2, <2>3 DEF Evidence
    <2>4. CASE ~HasTermination(rec) BY <2>1, <2>4
    <2> QED BY <2>3, <2>4
  <1>7. CASE PersistWorkerWait
    <2>1. /\ g.pc = "wait"
          /\ rec' = [rec EXCEPT !.wait = IF g.started THEN "native" ELSE "not-started"]
      BY <1>7 DEF PersistWorkerWait
    <2>2. rec.wait \in {"none", IF g.started THEN "native" ELSE "not-started"}
      BY <2>1 DEF EvidenceInv, FinalOrder
    <2>3. CASE rec.wait = "none" BY <2>1, <2>3 DEF WaitResults
    <2>4. CASE rec.wait # "none" BY <1>t, <2>1, <2>2, <2>4 DEF Evidence
    <2> QED BY <2>3, <2>4
  <1>8. CASE PersistAbsence BY <1>8 DEF PersistAbsence, AbsenceWritable, WaitResults
  <1>9. CASE ReconcilePreviousBoot \/ PersistRecoveryTermination
    BY <1>9 DEF ReconcilePreviousBoot, PersistRecoveryTermination, PersistTermination, EvidenceInv,
       RecoveryOrder
  <1>10. CASE RecoverWorkerCompletion BY <1>10 DEF RecoverWorkerCompletion, WaitResults
  <1> QED BY <1>1, <1>2, <1>3, <1>4, <1>5, <1>6, <1>7, <1>8, <1>9, <1>10 DEF Writes

(* What a step finds durable it leaves as it is.                              *)
RecordsKept ==
    /\ HasIntent(rec) => rec'.intent = rec.intent
    /\ HasRegistration(rec) => rec'.registration = rec.registration
    /\ rec.worker => rec'.worker
    /\ rec'.launches >= rec.launches
    /\ HasTermination(rec) =>
          rec'.termination = rec.termination /\ rec'.launches = rec.launches
    /\ rec.wait # "none" => rec'.wait = rec.wait

(* No step changes a record that is there.                                   *)
LEMMA StepKeepsRecords ==
  ASSUME LaunchInv, EvidenceInv, [Next]_vars
  PROVE  RecordsKept
  <1>1. WritesOnce
    BY OthersWriteNothing, WritersWriteOnce DEF WritesOnce
  <1>2. rec \in Evidence /\ rec.launches \in Nat
    BY BoundsAssumption DEF LaunchInv, TypeOK, Evidence
  <1> QED BY <1>1, <1>2 DEF WritesOnce, Evidence, RecordsKept

(* Every record is written once and never again, and a guardian releases the  *)
(* lease of a registered lifetime only when its closure is durable.           *)
THEOREM RecordsNeverChange == Spec => RecordsStand
  <1>1. LaunchInv /\ EvidenceInv /\ [Next]_vars => [RecordsKept]_vars
    BY StepKeepsRecords
  <1>2. LaunchInv /\ EvidenceInv /\ [Next]_vars =>
           [ReleaseOwner => Closed(rec) \/ ~HasRegistration(rec)]_vars
    BY DEF ReleaseOwner, At, EvidenceInv, FinalOrder
  <1>3. Spec => [][RecordsKept]_vars
    BY LaunchInvariant, EvidenceInvariant, <1>1, PTL DEF Spec
  <1>4. Spec => RecordsAreImmutable
    BY <1>3 DEF RecordsAreImmutable, RecordsKept
  <1>5. Spec => ReleasesOnlyClosed
    BY LaunchInvariant, EvidenceInvariant, <1>2, PTL DEF Spec, ReleasesOnlyClosed
  <1> QED BY <1>4, <1>5 DEF RecordsStand

--------------------
(* The contract's view of the lifetime.                                       *)
EvidenceView ==
    IF Closed(rec) THEN "closed" ELSE IF HasTermination(rec) THEN "terminated" ELSE "open"
UsedView == {s \in Launches : proc[s] # "none"}
WorkerView == IF w.pc = "none" THEN "none" ELSE IF w.pc = "exited" THEN "gone" ELSE "alive"

(* Steps that write no record: a worker or a launch starts, or things end.    *)
LEMMA OthersStartOrEnd ==
  ASSUME LaunchInv, EvidenceInv, [Next]_vars, ~Writes
  PROVE  \/ /\ ~HasTermination(rec) /\ rec.wait = "none"
            /\ WorkerView = "none" /\ WorkerView' = "alive" /\ UNCHANGED proc
         \/ \E s \in Launches :
               /\ ~HasTermination(rec) /\ rec.wait = "none"
               /\ WorkerView = "alive" /\ Live = {} /\ proc[s] = "none"
               /\ Live' = {s} /\ UsedView' = UsedView \cup {s} /\ UNCHANGED WorkerView
         \/ /\ Live' \subseteq Live /\ UNCHANGED UsedView
            /\ WorkerView' = WorkerView \/ (WorkerView = "alive" /\ WorkerView' = "gone")
  <1>t. g \in GuardianState /\ w \in WorkerState /\ proc \in [Launches -> ProcStates]
    BY DEF LaunchInv, TypeOK
  <1> DEFINE EndsOnly == /\ Live' \subseteq Live /\ UNCHANGED UsedView
                         /\ \/ WorkerView' = WorkerView
                            \/ WorkerView = "alive" /\ WorkerView' = "gone"
  <1>p. UNCHANGED <<proc, w>> => EndsOnly
    BY DEF Live, UsedView, WorkerView
  <1>k. proc' = Killed => Live' \subseteq Live /\ UNCHANGED UsedView
    BY <1>t, KilledScope DEF UsedView
  <1> USE DEF native, WorkerAt
  <1>1. CASE UNCHANGED vars BY <1>1, <1>p DEF vars
  <1>2. CASE GuardianStartup
    <2>1. CASE StartWorker
      <3>1. CASE w' = [NoWorker EXCEPT !.pc = "boot"] /\ UNCHANGED proc
        <4>1. g.pc = "start" /\ w'.pc = "boot"
          BY <2>1, <3>1 DEF StartWorker, At, NoWorker
        <4>2. ~HasTermination(rec) /\ rec.wait = "none" /\ w.pc = "none"
          BY <4>1 DEF EvidenceInv, GuardianRecords, BeforeWorker
        <4> QED BY <3>1, <4>1, <4>2 DEF WorkerView
      <3>2. CASE UNCHANGED <<w, proc>> BY <1>p, <3>2
      <3> QED BY <2>1, <3>1, <3>2 DEF StartWorker
    <2>2. CASE ~StartWorker
      <3>1. UNCHANGED <<proc, w>>
        BY <1>2, <2>2 DEF Writes, GuardianStartup, RefuseTerminalReplay, RecoverExpiredStart,
           PermitIntent, CreateScope, ResolveCreatedScopeFailure, ObserveWorker
      <3> QED BY <1>p, <3>1
    <2> QED BY <2>1, <2>2
  <1>3. CASE GuardianControl \/ GuardianFinalization \/ ServeFault
    <2>1. UNCHANGED w
      BY <1>3 DEF Writes, GuardianControl, HandleHello, HandleBegin, AcknowledgeStarted,
         HandleFailed, HandleFinish, HandleTermination, ServeEvent, ReaderDeadline, ServeFault,
         GuardianFinalization, TerminationAttemptFails, FencePendingStart,
         ProveScopeEmpty, AwaitWorkerWait, DestroyScope, ReleaseOwner
    <2>2. UNCHANGED proc \/ proc' = Killed
      BY <1>3 DEF Writes, GuardianControl, HandleHello, HandleBegin, AcknowledgeStarted,
         HandleFailed, HandleFinish, HandleTermination, ServeEvent, ReaderDeadline, ServeFault,
         GuardianFinalization, TerminationAttemptFails, FencePendingStart,
         ProveScopeEmpty, AwaitWorkerWait, DestroyScope, ReleaseOwner, EnsureScopeEmpty
    <2> QED BY <1>k, <1>p, <2>1, <2>2 DEF WorkerView
  <1>4. CASE RecoveryActions
    <2>1. UNCHANGED w
      BY <1>4 DEF Writes, RecoveryActions, AcquireRecoveryOwner, DisposeUnregisteredScope,
         RecoverRegistered, AwaitWorkerAbsent, RecoverScopeAgain, DestroyRecoveredScope,
         RecoveryEnds
    <2>2. UNCHANGED proc \/ proc' = Killed \/ KillRecordedLaunches
      BY <1>4 DEF Writes, RecoveryActions, AcquireRecoveryOwner, DisposeUnregisteredScope,
         RecoverRegistered, AwaitWorkerAbsent, RecoverScopeAgain, DestroyRecoveredScope,
         RecoveryEnds, RecoverCooperative
    <2>3. KillRecordedLaunches => Live' \subseteq Live /\ UNCHANGED UsedView
      BY <1>t DEF KillRecordedLaunches, Killed, Live, UsedView, LiveStates, ProcStates
    <2> QED BY <1>k, <1>p, <2>1, <2>2, <2>3 DEF WorkerView
  <1>5. CASE NativeStart
    <2>1. w.pc = "start" /\ w.sequence \in Launches
      BY <1>5 DEF NativeStart, LaunchInv, WorkerOrder
    <2>2. CASE UNCHANGED proc /\ w' = [w EXCEPT !.pc = "startFailed"]
      <3>1. w'.pc = "startFailed"
        BY <1>t, <2>2 DEF WorkerState
      <3> QED BY <2>1, <2>2, <3>1 DEF WorkerView, Live, UsedView
    <2>3. CASE proc' = [proc EXCEPT ![w.sequence] = "gated"] /\ w' = [w EXCEPT !.pc = "complete"]
      <3>1. w'.pc = "complete"
        BY <1>t, <2>3 DEF WorkerState
      <3>2. /\ Live = {} /\ proc[w.sequence] = "none" /\ ~HasTermination(rec) /\ rec.wait = "none"
        BY <2>1 DEF EvidenceInv, StartOrder, Ended, MayStart, InStart, WorkerAlive
      <3>3. Live' = {w.sequence} /\ UsedView' = UsedView \cup {w.sequence}
        BY <1>t, <2>1, <2>3, <3>2 DEF Live, LiveStates, ProcStates, UsedView
      <3> QED BY <2>1, <3>1, <3>2, <3>3 DEF WorkerView
    <2> QED BY <1>5, <2>2, <2>3 DEF NativeStart
  <1>6. CASE ReceiveReply \/ CallFails
    <2>1. WorkerAlive /\ w.call # "none" /\ (AcceptReply \/ FailCall)
      BY <1>6 DEF ReceiveReply, CallFails, MutexFree
    <2>2. w'.pc \notin {"none", "exited"}
      BY <1>t, <2>1 DEF AcceptReply, FailCall, WorkerState, MessageTypes, WorkerAlive
    <2>3. w.call # "started" => UNCHANGED proc
      BY <1>t, <2>1 DEF AcceptReply, FailCall, WorkerState, MessageTypes
    <2>5. w.call = "started" =>
             /\ w.active \in Launches /\ proc[w.active] # "none"
             /\ proc' \in {Release(w.active), Abort(w.active), [proc EXCEPT ![w.active] = "dead"]}
      BY <2>1 DEF AcceptReply, FailCall, LaunchInv, WorkerOrder, EvidenceInv, StartOrder
    <2>4. Live' \subseteq Live /\ UNCHANGED UsedView
      BY <1>t, <2>3, <2>5 DEF Release, Abort, Live, LiveStates, ProcStates, UsedView
    <2> QED BY <2>1, <2>2, <2>4 DEF WorkerView, WorkerAlive
  <1>7. CASE WorkerExits \/ WorkerCrash
    <2>1. WorkerAlive /\ w'.pc = "exited" /\ proc' = GatesClosed
      BY <1>7 DEF WorkerExits, WorkerCrash, WorkerEnds, WorkerAlive, NoWorker
    <2>2. Live' \subseteq Live /\ UNCHANGED UsedView
      BY <1>t, <2>1 DEF GatesClosed, Live, LiveStates, ProcStates, UsedView
    <2> QED BY <2>1, <2>2 DEF WorkerView, WorkerAlive
  <1>8. CASE \/ SendHello \/ OpenChildFails \/ StartCommand \/ CompleteStart \/ CompleteFailedStart
             \/ FinishCommand \/ FinishCommandLocally \/ Terminate \/ CloseTask
    <2>1. WorkerAlive /\ WorkerAlive'
      <3>1. WorkerAlive
        BY <1>8 DEF SendHello, OpenChildFails, StartCommand, CompleteStart, CompleteFailedStart,
           FinishCommand, FinishCommandLocally, Terminate, CloseTask, CommandWaited, WorkerAlive
      <3>2. ASSUME NEW type, NEW seq, Call(type, seq) PROVE w'.pc \in {w.pc, "call"}
        BY <1>t, <3>2 DEF Call, WorkerState
      <3>3. w'.pc \in {w.pc, "call", "run", "ready", "exit"}
        BY <1>8, <1>t, <3>2 DEF SendHello, OpenChildFails, StartCommand, CompleteStart,
           CompleteFailedStart, FinishCommand, FinishCommandLocally, Terminate, CloseTask,
           WorkerState
      <3> QED BY <3>1, <3>3 DEF WorkerAlive
    <2>2. UNCHANGED proc \/ (CompleteStart /\ proc' = Abort(w.sequence))
      BY <1>8 DEF SendHello, OpenChildFails, StartCommand, CompleteStart, CompleteFailedStart,
         FinishCommand, FinishCommandLocally, Terminate, CloseTask, Call
    <2>3. Live' \subseteq Live /\ UNCHANGED UsedView
      BY <1>t, <2>2 DEF Abort, Live, LiveStates, ProcStates, UsedView
    <2> QED BY <2>1, <2>3 DEF WorkerView, WorkerAlive
  <1>9. CASE \E s \in Launches : GateOpens(s) \/ GateFails(s) \/ ProcessEnds(s)
    <2>1. UNCHANGED w
      BY <1>9 DEF GateOpens, GateFails, ProcessEnds
    <2>2. Live' \subseteq Live /\ UNCHANGED UsedView
      BY <1>9, <1>t DEF GateOpens, GateFails, ProcessEnds, Live, LiveStates, ProcStates, UsedView
    <2> QED BY <2>1, <2>2 DEF WorkerView
  <1>10. CASE Reboot
    <2>1. w'.pc = (IF w.pc = "none" THEN "none" ELSE "exited") /\ proc' = Killed
      BY <1>10 DEF Reboot, NoWorker
    <2> QED BY <1>k, <2>1 DEF WorkerView
  <1>11. CASE \/ AcquireRunOwner \/ DeadlinePasses \/ RequestStop \/ ProveUnlaunched
              \/ FenceUnlaunched \/ GuardianCrash
    BY <1>11, <1>p DEF AcquireRunOwner, DeadlinePasses, RequestStop, ProveUnlaunched,
       FenceUnlaunched, GuardianCrash
  <1> QED BY <1>1, <1>2, <1>3, <1>4, <1>5, <1>6, <1>7, <1>8, <1>9, <1>10, <1>11
       DEF Next, GuardianStep, WorkerStep, Environment

(* Writers leave the worker alone, and the scope too unless they end a start. *)
LEMMA WritersKeepScope ==
  ASSUME LaunchInv, EvidenceInv, Writes
  PROVE  /\ UNCHANGED w
         /\ UNCHANGED proc \/ (RejectStartedLaunch /\ proc' = Killed)
  BY DEF Writes, native, RecordIntent, BindAndRecordRunScope, PersistWorkerIdentity,
     PersistUnrecordedWait, HandleStarted, RejectStartedLaunch, RecordTermination,
     PersistWorkerWait, PersistAbsence, ReconcilePreviousBoot, PersistRecoveryTermination,
     PersistTermination, RecoverWorkerCompletion, EnsureScopeEmpty

(* The lifetime implements its contract: each step starts the worker, starts  *)
(* one launch in an empty open scope, ends processes or the worker, proves    *)
(* one more fact about what has ended, or is invisible.                       *)
THEOREM LifetimeImplementsContract == Spec => ImplementsContract
  <1>1. Init => Contract!ContractInit
    BY DEF Init, Contract!ContractInit, Closed, NoEvidence, NoTermination, HasTermination, Live,
       LiveStates, NoWorker
  <1>2. ASSUME LaunchInv, EvidenceInv, EvidenceIsSound', [Next]_vars
        PROVE  [Contract!ContractNext]_(Contract!contractVars)
    <2>1. CASE Writes
      <3>1. RecordsKept /\ UNCHANGED w
        BY <1>2, <2>1, StepKeepsRecords, WritersKeepScope
      <3>2. \/ EvidenceView' = EvidenceView
            \/ EvidenceView = "open" /\ EvidenceView' = "terminated"
            \/ EvidenceView # "closed" /\ EvidenceView' = "closed"
        BY <3>1 DEF RecordsKept, EvidenceView, Closed, HasTermination
      <3>3. CASE UNCHANGED proc
        <4>1. UNCHANGED <<Live, UsedView, WorkerView>>
          BY <3>1, <3>3 DEF Live, UsedView, WorkerView
        <4>2. EvidenceIsSound'
          BY <1>2
        <4>3. EvidenceView' = "terminated" => Live' = {}
          BY <4>2 DEF EvidenceView, EvidenceIsSound, TerminationSound
        <4>4. EvidenceView' = "closed" => Live' = {} /\ WorkerView' # "alive"
          BY <4>2 DEF EvidenceView, EvidenceIsSound, ClosureSound, WorkerView, WorkerAlive
        <4> QED
          BY <3>2, <4>1, <4>3, <4>4 DEF EvidenceView, UsedView, WorkerView, Contract!contractVars,
             Contract!ContractNext, Contract!ProveTerminated, Contract!ProveClosed
      <3>4. CASE RejectStartedLaunch /\ proc' = Killed
        <4>1. Live' \subseteq Live /\ UNCHANGED UsedView
          BY <1>2, <3>4, KilledScope DEF UsedView, LaunchInv, TypeOK
        <4>2. UNCHANGED <<EvidenceView, WorkerView>>
          BY <1>2, <3>1, <3>4 DEF EvidenceView, WorkerView, RejectStartedLaunch, LaunchInv, TypeOK,
             Evidence, Closed, HasTermination
        <4> QED
          BY <4>1, <4>2 DEF EvidenceView, UsedView, WorkerView, Contract!ContractNext, Contract!Ends
      <3> QED BY <1>2, <2>1, <3>3, <3>4, WritersKeepScope
    <2>2. CASE ~Writes
      <3>1. UNCHANGED EvidenceView
        BY <1>2, <2>2, OthersWriteNothing DEF EvidenceView
      <3>2. ~HasTermination(rec) /\ rec.wait = "none" => EvidenceView = "open"
        BY DEF EvidenceView, Closed, HasTermination
      <3>3. CASE /\ ~HasTermination(rec) /\ rec.wait = "none"
                 /\ WorkerView = "none" /\ WorkerView' = "alive" /\ UNCHANGED proc
        <4>1. UNCHANGED <<Live, UsedView>>
          BY <3>3 DEF Live, UsedView
        <4> QED
          BY <3>1, <3>2, <3>3, <4>1 DEF EvidenceView, UsedView, WorkerView, Contract!ContractNext,
             Contract!BeginWork
      <3>4. ASSUME NEW s \in Launches,
                   ~HasTermination(rec), rec.wait = "none",
                   WorkerView = "alive", Live = {}, proc[s] = "none",
                   Live' = {s}, UsedView' = UsedView \cup {s}, UNCHANGED WorkerView
            PROVE  Contract!ContractNext
        <4>1. s \notin UsedView
          BY <3>4 DEF UsedView
        <4>2. Contract!Launch(s)
          BY <3>1, <3>2, <3>4, <4>1 DEF EvidenceView, UsedView, WorkerView, Contract!Launch
        <4> QED BY <4>2 DEF Contract!ContractNext
      <3>5. CASE /\ Live' \subseteq Live /\ UNCHANGED UsedView
                 /\ WorkerView' = WorkerView \/ (WorkerView = "alive" /\ WorkerView' = "gone")
        BY <3>1, <3>5 DEF EvidenceView, UsedView, WorkerView, Contract!ContractNext, Contract!Ends
      <3> QED BY <1>2, <2>2, <3>3, <3>4, <3>5, OthersStartOrEnd
    <2> QED BY <2>1, <2>2
  <1> QED BY LaunchInvariant, EvidenceInvariant, EvidenceSoundness, <1>1, <1>2, PTL
       DEF Spec, ImplementsContract, Contract!ContractSpec
====
