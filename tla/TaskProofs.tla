----------------------------- MODULE TaskProofs -----------------------------
(***************************************************************************)
(* Theorems about what is kept for a task: the checkpoints of its          *)
(* workspace, the conversation it continues, the stream its provider       *)
(* writes, the workspace itself, and the files of the task, for any number *)
(* of participants, tasks, uses, attempts and faults.  For each component an *)
(* inductive invariant says what a participant at a step knows of the      *)
(* durable records; one lemma for each group of steps with the same effect *)
(* shows that they keep it.                                                *)
(***************************************************************************)
EXTENDS Checkpoints, Continuation, PiStream, WorkspaceUse, TaskDirectory, SequenceTheorems,
        FiniteSetTheorems, NaturalsInduction, WellFoundedInduction, TLAPS

--------------------
(* Checkpoints.                                                            *)

RemovalAttempts == [worker : Workers, receipt : RemovalStatuses]
Readers == [at : {"idle", "begun", "qualified", "register"}, expected : 0..MaxAttempts]

\* How far the creation has come, and what the repository holds then.
CreationInOrder ==
    /\ creation.state \in {"none", "opened", "queued"} => creation.done = 0
    /\ creation.result => creation.done = 2
    /\ (creation.done = 0 => candidate = 0) /\ (creation.done > 0 => candidate # 0)
    /\ creation.done < 2 => snapshot = 0
    /\ creation.done = 2 /\ removals = <<>> => snapshot = candidate
    /\ snapshot # 0 => snapshot = candidate
    /\ receipt = "checkpointed" => CompletionSucceeded(creation)

\* A removal is registered once the creation is proven over, and works alone.
RemovalsInOrder ==
    /\ removals # <<>> => creation.state = "ended"
    /\ \A k \in DOMAIN removals :
          /\ removals[k].worker.result => removals[k].worker.done = 1
          /\ removals[k].worker.done > 0 => snapshot = 0
          /\ removals[k].receipt # "none" => removals[k].worker.state = "ended"
          /\ removals[k].receipt \in {"removed", "nothing-to-remove"} =>
                CompletionSucceeded(removals[k].worker)
          /\ k < Len(removals) => removals[k].receipt = "unavailable"

\* What a command has read of the attempts still holds when it registers its own.
ReadingsStand ==
    \A r \in Removers :
        /\ removers[r].at \in {"qualified", "register"} => creation.state = "ended"
        /\ removers[r].at = "register" =>
              /\ removers[r].expected <= Len(removals)
              /\ \A k \in 1..removers[r].expected : removals[k].receipt = "unavailable"

CheckpointInv ==
    /\ CheckpointTypeOK /\ removals \in Seq(RemovalAttempts)
    /\ CreationInOrder /\ RemovalsInOrder /\ ReadingsStand

\* What a stage of a worker changes.
LEMMA MovesOf ==
  ASSUME NEW w \in Workers, NEW last \in {1, 2}, NEW m \in Moves(w, last)
  PROVE  /\ m \in Workers /\ m.done = w.done
         /\ w.state \in {"opened", "queued", "running"}
         /\ m.state \in {"queued", "running", "ended"}
         /\ m.result => w.result \/ w.done = last
         /\ m.state = "queued" => w.state = "opened"
  <1>1. \/ w.state = "opened" /\ m \in {Queued(w), Sealed(w)}
        \/ w.state = "queued" /\ m \in {Launched(w), Sealed(w)}
        \/ w.state = "running" /\ w.done = last /\ m = [w EXCEPT !.result = TRUE]
        \/ /\ w.state = "running"
           /\ \E kind \in {"native", "recovered"} :
                 m = [w EXCEPT !.state = "ended", !.closure = kind]
    BY DEF Moves
  <1>2. CASE w.state = "opened" /\ m \in {Queued(w), Sealed(w)}
    BY <1>2 DEF Workers, Queued, Sealed
  <1>3. CASE w.state = "queued" /\ m \in {Launched(w), Sealed(w)}
    BY <1>3 DEF Workers, Launched, Sealed
  <1>4. CASE w.state = "running" /\ w.done = last /\ m = [w EXCEPT !.result = TRUE]
    BY <1>4 DEF Workers
  <1>5. CASE /\ w.state = "running"
             /\ \E kind \in {"native", "recovered"} :
                   m = [w EXCEPT !.state = "ended", !.closure = kind]
    BY <1>5 DEF Workers
  <1> QED BY <1>1, <1>2, <1>3, <1>4, <1>5

\* A record of one attempt changes; the list does not.
OneChanges(k) ==
    /\ Len(removals') = Len(removals) /\ DOMAIN removals' = DOMAIN removals
    /\ removals' \in Seq(RemovalAttempts)
    /\ \A j \in DOMAIN removals : j # k => removals'[j] = removals[j]

\* A worker that moves on stays a worker.
LEMMA WorkerChanges ==
  ASSUME removals \in Seq(RemovalAttempts), NEW k \in DOMAIN removals, NEW w \in Workers,
         removals' = [removals EXCEPT ![k].worker = w]
  PROVE  /\ OneChanges(k)
         /\ removals'[k].worker = w /\ removals'[k].receipt = removals[k].receipt
  <1>1. removals[k] \in RemovalAttempts
    BY ElementOfSeq
  <1>2. [removals[k] EXCEPT !.worker = w] \in RemovalAttempts
    BY <1>1 DEF RemovalAttempts
  <1> QED BY <1>1, <1>2, ExceptSeq DEF OneChanges, RemovalAttempts

\* A receipt that changes stays a receipt.
LEMMA ReceiptChanges ==
  ASSUME removals \in Seq(RemovalAttempts), NEW k \in DOMAIN removals, NEW s \in RemovalStatuses,
         removals' = [removals EXCEPT ![k].receipt = s]
  PROVE  /\ OneChanges(k)
         /\ removals'[k].receipt = s /\ removals'[k].worker = removals[k].worker
  <1>1. removals[k] \in RemovalAttempts
    BY ElementOfSeq
  <1>2. [removals[k] EXCEPT !.receipt = s] \in RemovalAttempts
    BY <1>1 DEF RemovalAttempts
  <1> QED BY <1>1, <1>2, ExceptSeq DEF OneChanges, RemovalAttempts

\* Only the creation moves, and removals are untouched.
LEMMA CreationKeeps ==
  ASSUME CheckpointInv, MaxEdits \in Nat, MaxAttempts \in Nat,
         BeginCheckpoint \/ CreationMoves \/ Edit \/ RecordCheckpointCandidate
           \/ PublishCheckpoint \/ QualifyCheckpoint
  PROVE  CheckpointInv'
  <1> USE DEF CheckpointInv
  <1>1. creation \in Workers /\ UNCHANGED <<removals, removers>>
    BY DEF CheckpointTypeOK, BeginCheckpoint, CreationMoves, Edit, RecordCheckpointCandidate,
       PublishCheckpoint, QualifyCheckpoint
  <1>2. CASE BeginCheckpoint
    BY <1>1, <1>2 DEF BeginCheckpoint, CheckpointTypeOK, Workers, Opened, Unopened,
       CreationInOrder, RemovalsInOrder, ReadingsStand, CompletionSucceeded
  <1>3. CASE CreationMoves
    <2>1. /\ creation' \in Workers /\ creation'.done = creation.done
          /\ creation.state \in {"opened", "queued", "running"}
          /\ creation'.state \in {"queued", "running", "ended"}
          /\ creation'.result => creation.result \/ creation.done = 2
          /\ creation'.state = "queued" => creation.state = "opened"
      BY <1>1, <1>3, MovesOf DEF CreationMoves
    <2>2. UNCHANGED <<folder, candidate, snapshot, receipt>>
      BY <1>3 DEF CreationMoves
    <2> QED
      BY <1>1, <2>1, <2>2 DEF CheckpointTypeOK, CreationInOrder, RemovalsInOrder, ReadingsStand,
         CompletionSucceeded
  <1>4. CASE Edit
    BY <1>1, <1>4 DEF Edit, CheckpointTypeOK, CreationInOrder, RemovalsInOrder, ReadingsStand,
       CompletionSucceeded
  <1>5. CASE RecordCheckpointCandidate
    BY <1>1, <1>5 DEF RecordCheckpointCandidate, Working, Advanced, Workers, CheckpointTypeOK,
       CreationInOrder, RemovalsInOrder, ReadingsStand, CompletionSucceeded
  <1>6. CASE PublishCheckpoint
    BY <1>1, <1>6 DEF PublishCheckpoint, Working, Advanced, Workers, CheckpointTypeOK,
       CreationInOrder, RemovalsInOrder, ReadingsStand, CompletionSucceeded
  <1>7. CASE QualifyCheckpoint BY <1>1, <1>7 DEF QualifyCheckpoint, Qualified, CheckpointTypeOK,
       CreationInOrder, RemovalsInOrder, ReadingsStand, CompletionSucceeded
  <1> QED BY <1>2, <1>3, <1>4, <1>5, <1>6, <1>7

\* An attempt moves, and what it leaves behind agrees with what is recorded of it.
LEMMA AttemptKeeps ==
  ASSUME CheckpointInv, MaxEdits \in Nat, NEW k \in DOMAIN removals,
         OneChanges(k), UNCHANGED <<folder, creation, candidate, receipt, removers>>,
         snapshot' \in {0, snapshot},
         removals'[k].worker.result => removals'[k].worker.done = 1,
         removals'[k].worker.done > 0 => snapshot' = 0,
         removals'[k].receipt # "none" => removals'[k].worker.state = "ended",
         removals'[k].receipt \in {"removed", "nothing-to-remove"} =>
            CompletionSucceeded(removals'[k].worker),
         removals[k].receipt = "none" \/ removals'[k].receipt = removals[k].receipt
  PROVE  CheckpointInv'
  <1> USE DEF CheckpointInv
  <1>1. /\ removals' # <<>> /\ removals # <<>>
        /\ k \in 1..Len(removals) /\ Len(removals) \in Nat /\ DOMAIN removals = 1..Len(removals)
    BY DEF OneChanges
  <1>2. CheckpointTypeOK'
    <2>1. \A j \in DOMAIN removals' : removals'[j] \in RemovalAttempts
      BY ElementOfSeq DEF OneChanges
    <2> QED BY <2>1 DEF OneChanges, CheckpointTypeOK, RemovalAttempts
  <1>3. CreationInOrder'
    BY <1>1 DEF CreationInOrder, CompletionSucceeded
  <1>4. RemovalsInOrder'
    BY <1>1 DEF RemovalsInOrder, OneChanges, CompletionSucceeded
  <1>5. ReadingsStand'
    <2>1. ASSUME NEW r \in Removers, removers[r].at = "register",
                 NEW j \in 1..removers[r].expected
          PROVE  removals'[j].receipt = "unavailable"
      <3>1. j \in DOMAIN removals /\ removals[j].receipt = "unavailable"
        BY <1>1, <2>1 DEF ReadingsStand, CheckpointTypeOK
      <3> QED BY <3>1 DEF OneChanges
    <2> QED BY <1>1, <2>1 DEF ReadingsStand, OneChanges
  <1> QED BY <1>2, <1>3, <1>4, <1>5 DEF OneChanges

\* A removal attempt is observed, or one is registered.
LEMMA RemovalKeeps ==
  ASSUME CheckpointInv, MaxEdits \in Nat, NEW k \in DOMAIN removals,
         RemoveCheckpointRef(k) \/ RemovalMoves(k) \/ QualifyRemoval(k)
  PROVE  CheckpointInv'
  <1> USE DEF CheckpointInv
  <1> DEFINE w == removals[k].worker
  <1>1. removals[k] \in RemovalAttempts /\ w \in Workers
    <2>1. removals[k] \in RemovalAttempts
      BY ElementOfSeq, LenProperties
    <2> QED BY <2>1 DEF RemovalAttempts
  <1>2. /\ w.result => w.done = 1
        /\ w.done > 0 => snapshot = 0
        /\ removals[k].receipt # "none" => w.state = "ended"
        /\ removals[k].receipt \in {"removed", "nothing-to-remove"} => CompletionSucceeded(w)
    BY DEF RemovalsInOrder
  <1>3. CASE RemoveCheckpointRef(k)
    <2>1. /\ Advanced(w) \in Workers /\ Advanced(w).done = 1
          /\ Advanced(w).state = "running" /\ w.state = "running"
      BY <1>1, <1>3 DEF RemoveCheckpointRef, Working, Advanced, Workers
    <2>2. removals' = [removals EXCEPT ![k].worker = Advanced(w)]
      BY <1>3 DEF RemoveCheckpointRef
    <2>3. /\ OneChanges(k)
          /\ removals'[k].worker = Advanced(w) /\ removals'[k].receipt = removals[k].receipt
      BY <2>1, <2>2, WorkerChanges
    <2>4. snapshot' = 0
      BY <1>3 DEF RemoveCheckpointRef, CreationInOrder
    <2>5. removals[k].receipt = "none"
      BY <1>2, <2>1
    <2>6. UNCHANGED <<folder, creation, candidate, receipt, removers>>
      BY <1>3 DEF RemoveCheckpointRef
    <2> HIDE DEF CheckpointInv, w
    <2> QED BY <2>1, <2>3, <2>4, <2>5, <2>6, AttemptKeeps
  <1>4. CASE RemovalMoves(k)
    <2>1. PICK m \in Moves(w, 1) : removals' = [removals EXCEPT ![k].worker = m]
      BY <1>4 DEF RemovalMoves
    <2>2. /\ m \in Workers /\ m.done = w.done /\ (m.result => w.result \/ w.done = 1)
          /\ w.state # "ended"
      BY <1>1, MovesOf
    <2>3. /\ OneChanges(k)
          /\ removals'[k].worker = m /\ removals'[k].receipt = removals[k].receipt
      BY <2>1, <2>2, WorkerChanges
    <2>4. UNCHANGED <<folder, creation, candidate, snapshot, receipt, removers>>
      BY <1>4 DEF RemovalMoves
    <2>5. removals[k].receipt = "none"
      BY <1>2, <2>2
    <2>6. m.result => m.done = 1
      BY <1>2, <2>2
    <2>7. m.done > 0 => snapshot' = 0
      BY <1>2, <2>2, <2>4
    <2> HIDE DEF CheckpointInv, w
    <2> QED BY <2>3, <2>4, <2>5, <2>6, <2>7, AttemptKeeps
  <1>5. CASE QualifyRemoval(k)
    <2>1. Disposition(k) \in RemovalStatuses
          /\ (Disposition(k) # "unavailable" => CompletionSucceeded(w))
      BY DEF Disposition, RemovalStatuses
    <2>2. /\ OneChanges(k)
          /\ removals'[k].receipt = Disposition(k) /\ removals'[k].worker = w
      BY <1>5, <2>1, ReceiptChanges DEF QualifyRemoval
    <2>3. w.state = "ended" /\ removals[k].receipt = "none"
      BY <1>5 DEF QualifyRemoval
    <2>4. UNCHANGED <<folder, creation, candidate, snapshot, receipt, removers>>
      BY <1>5 DEF QualifyRemoval
    <2> HIDE DEF CheckpointInv, w
    <2> QED BY <1>2, <2>1, <2>2, <2>3, <2>4, AttemptKeeps
  <1> QED BY <1>3, <1>4, <1>5

\* A command reads on; what it notes agrees with the records.
LEMMA ReaderKeeps ==
  ASSUME CheckpointInv, NEW r \in Removers,
         UNCHANGED <<folder, creation, candidate, snapshot, removals>>,
         receipt' = receipt \/ (receipt' = "checkpointed" /\ CompletionSucceeded(creation))
           \/ receipt' = "unavailable",
         NEW new \in Readers, removers' = [removers EXCEPT ![r] = new],
         new.at \in {"qualified", "register"} => creation.state = "ended",
         new.at = "register" =>
            /\ new.expected <= Len(removals)
            /\ \A k \in 1..new.expected : removals[k].receipt = "unavailable"
  PROVE  CheckpointInv'
  <1> USE DEF CheckpointInv
  <1>1. CheckpointTypeOK'
    BY DEF CheckpointTypeOK, Readers
  <1>2. CreationInOrder'
    BY DEF CreationInOrder, CompletionSucceeded
  <1>3. RemovalsInOrder'
    BY DEF RemovalsInOrder, CompletionSucceeded
  <1>4. \A d \in Removers : removers'[d] = IF d = r THEN new ELSE removers[d]
    BY DEF CheckpointTypeOK
  <1>5. ReadingsStand'
    BY <1>4 DEF ReadingsStand
  <1> QED BY <1>1, <1>2, <1>3, <1>5

\* A command asks, reads and registers.
LEMMA RemoverKeeps ==
  ASSUME CheckpointInv, MaxAttempts \in Nat, NEW r \in Removers,
         AskRemoval(r) \/ QualifyFirst(r) \/ ReadHead(r) \/ Register(r) \/ StopRemover(r)
  PROVE  CheckpointInv'
  <1> USE DEF CheckpointInv
  <1>1. /\ UNCHANGED <<folder, creation, candidate, snapshot>>
        /\ Len(removals) \in Nat /\ DOMAIN removals = 1..Len(removals)
    BY DEF AskRemoval, QualifyFirst, ReadHead, Register, StopRemover
  <1>2. /\ Resting \in Readers /\ Resting.at = "idle"
        /\ removers[r] \in Readers
        /\ \A step \in {"begun", "qualified"} :
              [removers[r] EXCEPT !.at = step] \in Readers
    BY DEF Resting, Readers, CheckpointTypeOK
  <1>3. CASE AskRemoval(r) \/ StopRemover(r)
    <2>1. CASE AskRemoval(r) BY <1>1, <1>2, <2>1, ReaderKeeps DEF AskRemoval, Readers
    <2>2. CASE StopRemover(r) BY <1>1, <1>2, <2>2, ReaderKeeps DEF StopRemover, Gone
    <2> QED BY <1>3, <2>1, <2>2
  <1>4. CASE QualifyFirst(r)
    <2>1. UNCHANGED removals
      BY <1>4 DEF QualifyFirst
    <2>2. \/ receipt' = receipt \/ (receipt' = "checkpointed" /\ CompletionSucceeded(creation))
          \/ receipt' = "unavailable"
      BY <1>4 DEF QualifyFirst, Qualified
    <2>3. PICK new \in {[removers[r] EXCEPT !.at = "qualified"], Resting} :
             /\ removers' = [removers EXCEPT ![r] = new]
             /\ new # Resting => creation.state = "ended"
      BY <1>4 DEF QualifyFirst, Qualifiable, Gone
    <2>4. new \in Readers /\ new.at # "register"
      BY <1>2, <2>3 DEF Readers
    <2>5. new.at = "qualified" => creation.state = "ended"
      BY <1>2, <2>3
    <2> QED BY <1>1, <2>1, <2>2, <2>3, <2>4, <2>5, ReaderKeeps
  <1>6. CASE ReadHead(r)
    <2>1. UNCHANGED <<removals, receipt>> /\ removers[r].at = "qualified"
      BY <1>6 DEF ReadHead
    <2> DEFINE read == [at |-> "register", expected |-> Len(removals)]
    <2>2. \/ /\ removers' = [removers EXCEPT ![r] = read]
             /\ \A k \in 1..Len(removals) : removals[k].receipt = "unavailable"
          \/ removers' = [removers EXCEPT ![r] = Resting]
      <3>1. CASE removals = <<>> BY <1>6, <3>1 DEF ReadHead, Gone, Newest
      <3>2. CASE removals # <<>>
        <4>1. Newest = removals[Len(removals)]
          BY <3>2 DEF Newest
        <4>2. Newest.receipt = "unavailable" =>
                 \A k \in 1..Len(removals) : removals[k].receipt = "unavailable"
          BY <1>1, <4>1 DEF RemovalsInOrder
        <4> QED BY <1>6, <4>2 DEF ReadHead, Gone
      <3> QED BY <3>1, <3>2
    <2>3. read \in Readers /\ creation.state = "ended"
      BY <1>1, <2>1 DEF Readers, CheckpointTypeOK, ReadingsStand
    <2> QED BY <1>1, <1>2, <2>1, <2>2, <2>3, ReaderKeeps
  <1>5. CASE Register(r)
    <2> DEFINE new == [worker |-> Opened, receipt |-> "none"]
    <2>1. /\ UNCHANGED receipt /\ removers' = [removers EXCEPT ![r] = Resting]
          /\ removers[r].at = "register" /\ Len(removals) < MaxAttempts
      BY <1>5 DEF Register, Gone
    <2>2. CASE UNCHANGED removals BY <1>1, <1>2, <2>1, <2>2, ReaderKeeps
    <2>3. CASE Len(removals) = removers[r].expected /\ removals' = Append(removals, new)
      <3>1. /\ new \in RemovalAttempts /\ new.worker.result = FALSE /\ new.worker.done = 0
            /\ new.receipt = "none"
        <4>1. Opened \in Workers /\ Opened.result = FALSE /\ Opened.done = 0
          <5>1. Unopened \in Workers /\ Unopened.result = FALSE /\ Unopened.done = 0
            BY DEF Unopened, Workers
          <5> QED BY <5>1 DEF Opened, Workers
        <4> QED BY <4>1 DEF RemovalAttempts, RemovalStatuses
      <3>2. /\ removals' \in Seq(RemovalAttempts) /\ Len(removals') = Len(removals) + 1
            /\ DOMAIN removals' = 1..(Len(removals) + 1)
            /\ removals'[Len(removals) + 1] = new
            /\ \A k \in DOMAIN removals : removals'[k] = removals[k]
        BY <1>1, <2>3, <3>1, AppendProperties
      <3> HIDE DEF new
      <3>3. /\ \A k \in DOMAIN removals : removals[k].receipt = "unavailable"
            /\ creation.state = "ended" /\ removals' # <<>>
        BY <1>1, <2>1, <2>3, <3>2 DEF ReadingsStand
      <3>4. CheckpointTypeOK'
        <4>1. \A j \in DOMAIN removals' : removals'[j] \in RemovalAttempts
          BY <3>2, ElementOfSeq
        <4> QED BY <1>1, <2>1, <3>2, <4>1 DEF CheckpointTypeOK, RemovalAttempts, Resting
      <3>5. CreationInOrder'
        BY <1>1, <2>1, <3>3 DEF CreationInOrder, CompletionSucceeded
      <3>6. RemovalsInOrder'
        BY <1>1, <2>1, <3>1, <3>2, <3>3 DEF RemovalsInOrder, CompletionSucceeded
      <3>7. ReadingsStand'
        <4>1. \A d \in Removers : removers'[d] = IF d = r THEN Resting ELSE removers[d]
          BY <2>1 DEF CheckpointTypeOK
        <4>2. ASSUME NEW d \in Removers, removers'[d].at = "register"
              PROVE  /\ removers'[d].expected <= Len(removals')
                     /\ \A k \in 1..removers'[d].expected :
                           removals'[k].receipt = "unavailable"
          <5>1. removers'[d] = removers[d] /\ removers[d].expected \in Nat
            BY <1>2, <4>1, <4>2 DEF CheckpointTypeOK
          <5>2. removers[d].expected <= Len(removals)
            BY <4>2, <5>1 DEF ReadingsStand
          <5> QED BY <1>1, <3>2, <3>3, <5>1, <5>2
        <4> QED BY <1>1, <3>3, <4>2 DEF ReadingsStand
      <3> QED BY <3>2, <3>4, <3>5, <3>6, <3>7
    <2> QED BY <1>5, <2>2, <2>3 DEF Register
  <1> QED BY <1>3, <1>4, <1>5, <1>6

\* The invariant holds at first, every step keeps it, and what the runs check follows.
THEOREM CheckpointInductive ==
  ASSUME MaxEdits \in Nat, MaxAttempts \in Nat
  PROVE  /\ CheckpointInit => CheckpointInv
         /\ CheckpointInv /\ [CheckpointNext]_checkpointVars => CheckpointInv'
         /\ CheckpointInv => CheckpointTypeOK /\ CheckpointIsTrue
  <1>1. CheckpointInit => CheckpointInv
    BY EmptySeq DEF CheckpointInit, CheckpointInv, CheckpointTypeOK, Resting, Unopened, Workers,
       CreationInOrder, RemovalsInOrder, ReadingsStand, CompletionSucceeded
  <1>2. ASSUME CheckpointInv, UNCHANGED checkpointVars PROVE CheckpointInv'
    BY <1>2 DEF checkpointVars, CheckpointInv, CheckpointTypeOK, CreationInOrder,
       RemovalsInOrder, ReadingsStand, CompletionSucceeded
  <1>3. CheckpointInv /\ CheckpointNext => CheckpointInv'
    BY CreationKeeps, RemovalKeeps, RemoverKeeps DEF CheckpointNext
  <1>4. ASSUME CheckpointInv PROVE CheckpointIsTrue
    <2> USE <1>4 DEF CheckpointInv
    <2>1. Len(removals) \in Nat /\ DOMAIN removals = 1..Len(removals)
      OBVIOUS
    <2>2. RemovalsAreSerial
      <3> DEFINE R == {k \in DOMAIN removals : removals[k].worker.state = "running"}
      <3>1. R \subseteq {Len(removals)}
        BY <2>1 DEF RemovalsInOrder
      <3>2. Cardinality(R) <= Cardinality({Len(removals)})
        BY <3>1, FS_Subset, FS_Singleton
      <3>3. Cardinality({Len(removals)}) = 1 /\ Cardinality(R) \in Nat
        BY <3>1, FS_Subset, FS_Singleton, FS_CardinalityType
      <3> QED BY <2>1, <3>2, <3>3 DEF RemovalsAreSerial, RemovalsInOrder
    <2>3. RemovedStaysRemoved
      BY DEF RemovedStaysRemoved, RemovalsInOrder, CompletionSucceeded, CheckpointTypeOK
    <2>4. UsableIsPinned
      <3>1. Usable => removals = <<>>
        BY EmptySeq DEF Usable
      <3> QED
        BY <3>1 DEF UsableIsPinned, Usable, CreationInOrder, CompletionSucceeded, CheckpointTypeOK,
           Workers
    <2> QED BY <2>2, <2>3, <2>4 DEF CheckpointIsTrue
  <1> QED BY <1>1, <1>2, <1>3, <1>4 DEF CheckpointInv

--------------------
(* Conversations.                                                          *)

Early == {"resolve", "settle", "create"}

\* Task t is over: nothing runs for it, and nothing ever will again.
Over(t) == runners[t] = "gone" /\ t \notin turn

\* A task that is not made yet has nothing.
Untouched(t) ==
    /\ ~ records[t].submitted /\ ~ records[t].start /\ ~ records[t].seal /\ ~ records[t].outcome
    /\ records[t].stop = "none" /\ ~ records[t].closed
    /\ runners[t] = "none" /\ t \notin turn /\ t \notin claims

\* The records of a task agree with its runner, its provider and its claim.
RecordAgrees(t) ==
    /\ ~ records[t].made => Untouched(t)
    /\ runners[t] # "none" => records[t].submitted /\ (t = First \/ t \in claims)
    /\ records[t].start => runners[t] \in Active \cup {"gone"}
    /\ runners[t] \in Active => records[t].start
    /\ (records[t].seal \/ records[t].outcome \/ records[t].stop # "none") => records[t].start
    /\ records[t].closed => runners[t] = "gone"
    /\ t \in turn => /\ records[t].start /\ ~ records[t].seal /\ ~ records[t].outcome
                     /\ records[t].stop # "terminated" /\ ~ records[t].closed
    /\ Released(t) => t \in claims
    /\ records[t].made /\ t # First => Over(First)

\* What a command knows of its task, of the predecessor and of the conversation.
CommandAgrees(c) ==
    /\ commands[c].at \in Early =>
          /\ commands[c].task \in Tasks /\ ~ records[commands[c].task].made
          /\ \A d \in Commands : d # c /\ commands[d].at \in Early =>
                commands[d].task # commands[c].task
    /\ commands[c].at = "resolve" => commands[c].pred \in Tasks /\ records[commands[c].pred].made
    /\ commands[c].at \in {"settle", "create"} => Over(First)
    /\ commands[c].at \in {"claim", "commit", "submit"} =>
          commands[c].task \in Tasks /\ records[commands[c].task].made
    /\ commands[c].at = "commit" => sessionLock = c /\ Owners \subseteq {commands[c].task}
    /\ commands[c].at = "submit" => commands[c].task \in claims

ContInv ==
    /\ ContTypeOK
    /\ \A t \in Tasks : RecordAgrees(t)
    /\ \A c \in Commands : CommandAgrees(c)
    /\ records[First].made /\ Readable
    /\ \A s, t \in Owners : s = t

\* The types of what a step may write.
Record == [made : BOOLEAN, pred : Tasks \cup {None}, submitted : BOOLEAN, start : BOOLEAN,
           identity : BOOLEAN, seal : BOOLEAN, outcome : BOOLEAN,
           stop : {"none", "requested", "terminated"}, closed : BOOLEAN, refused : BOOLEAN]
Command == [at : Steps, task : Tasks \cup {None}, pred : Tasks \cup {None},
            evidence : Evidence \cup {None}]
RunnerStates == Active \cup {"none", "queued", "gone"}

\* What never comes back: records, the end of a runner, claims.
Advances ==
    /\ claims \subseteq claims'
    /\ \A t \in Tasks :
          /\ records[t].made => records'[t].made
          /\ records[t].outcome => records'[t].outcome
          /\ records[t].closed => records'[t].closed
          /\ records[t].stop = "terminated" => records'[t].stop = "terminated"
          /\ runners[t] = "gone" => runners'[t] = "gone"
          /\ Over(t) => Over(t)'

\* Only the record, the runner and the provider of task t change, as far as its records allow.
Turns(t) ==
    /\ UNCHANGED <<claims, releases>>
    /\ records' \in [Tasks -> Record] /\ runners' \in [Tasks -> RunnerStates]
    /\ turn' \subseteq Tasks
    /\ \A s \in Tasks : s # t =>
          /\ records'[s] = records[s] /\ runners'[s] = runners[s]
          /\ s \in turn' <=> s \in turn
    /\ records'[t].made = records[t].made

\* A release that was proved stays proved while the records only advance.
LEMMA ProofStands ==
  ASSUME \A t \in Tasks : RecordAgrees(t), Advances, NEW t \in Tasks, NEW e, TerminalProof(t, e)
  PROVE  /\ TerminalProof(t, e)' /\ Over(t)
  <1>1. e \in Evidence /\ runners[t] \notin Active
    BY DEF TerminalProof, LeaseReleased, Handoff, Evidence
  <1>2. runners[t] = "gone"
    BY <1>1 DEF TerminalProof, LeaseReleased, Handoff, RecordAgrees
  <1>3. t \notin turn
    BY DEF TerminalProof, Handoff, RecordAgrees
  <1>4. runners'[t] = "gone" /\ runners'[t] \notin Active
    BY <1>2 DEF Advances, Active
  <1> QED BY <1>2, <1>3, <1>4 DEF TerminalProof, LeaseReleased, Handoff, Advances, Over

\* Steps of a task that leave the commands alone.
LEMMA TurnKeeps ==
  ASSUME ContInv, First \in Tasks, NEW t \in Tasks, Turns(t), Advances, RecordAgrees(t)',
         UNCHANGED <<sessionLock, commands>>, contFaults' \in 0..MaxContFaults
  PROVE  ContInv'
  <1> USE DEF ContInv
  <1>1. ContTypeOK'
    BY DEF ContTypeOK, Turns, Record, RunnerStates
  <1>2. \A s \in Tasks : records'[s].made = records[s].made
    BY DEF Turns
  <1>3. ASSUME NEW s \in Tasks PROVE RecordAgrees(s)'
    <2>1. CASE s = t BY <2>1
    <2>2. CASE s # t BY <2>2, <1>2 DEF Turns, Advances, RecordAgrees, Untouched, Over, Released
    <2> QED BY <2>1, <2>2
  <1>4. Owners' = Owners
    BY DEF Turns, Owners, Released
  <1>5. ASSUME NEW c \in Commands PROVE CommandAgrees(c)'
    <2>1. CommandAgrees(c) /\ commands' = commands /\ sessionLock' = sessionLock
      OBVIOUS
    <2>2. claims' = claims /\ (Over(First) => Over(First)')
      BY DEF Turns, Advances
    <2> QED BY <1>2, <1>4, <2>1, <2>2 DEF CommandAgrees
  <1>6. Readable'
    <2> SUFFICES ASSUME NEW s \in claims', Released(s)' PROVE TerminalProof(s, releases[s])'
      BY DEF Readable, Turns
    <2>1. s \in claims /\ Released(s) /\ s \in Tasks
      BY DEF Turns, Released, ContTypeOK
    <2>2. TerminalProof(s, releases[s])
      BY <2>1 DEF Readable
    <2> QED BY <2>1, <2>2, ProofStands DEF Turns
  <1> QED BY <1>1, <1>2, <1>3, <1>4, <1>5, <1>6


\* The steps of a runner, and what observes or stops it.
LEMMA RunnerKeeps ==
  ASSUME ContInv, First \in Tasks, MaxContFaults \in Nat, NEW t \in Tasks,
         \/ RunnerStarts(t) \/ BudgetStop(t) \/ ProviderEnds(t) \/ RunnerFinishes(t)
         \/ RunnerCrashes(t) \/ CloseLifetime(t)
         \/ \E c \in Commands : Status(c, t) \/ Cancel(c, t)
  PROVE  ContInv'
  <1>1. /\ ContTypeOK /\ RecordAgrees(t)
        /\ records[t] \in Record /\ runners[t] \in RunnerStates /\ turn \subseteq Tasks
    BY DEF ContInv, ContTypeOK, Record, RunnerStates
  <1>2. UNCHANGED <<claims, releases, sessionLock, commands>> /\ contFaults' \in 0..MaxContFaults
    BY <1>1 DEF ContTypeOK, RunnerStarts, BudgetStop, ProviderEnds, RunnerFinishes,
       RunnerCrashes, CloseLifetime, Status, Cancel
  <1> DEFINE r == records[t]
  <1>3. CASE RunnerStarts(t)
    <2>1. CASE r.start \/ r.refused \/ r.closed
      <3>1. runners' = [runners EXCEPT ![t] = "gone"] /\ UNCHANGED <<records, turn>>
        BY <1>3, <2>1 DEF RunnerStarts
      <3>2. Turns(t) /\ Advances
        BY <1>1, <1>2, <3>1 DEF Turns, Advances, ContTypeOK, Record, RunnerStates, Over
      <3>3. RecordAgrees(t)'
        BY <1>1, <1>2, <1>3, <3>1, <3>2
        DEF RunnerStarts, RecordAgrees, Untouched, Over, Active, Released,
           ContTypeOK, Advances
      <3> QED BY <1>2, <3>2, <3>3, TurnKeeps
    <2>2. CASE ~ (r.start \/ r.refused \/ r.closed)
      <3>1. PICK known \in BOOLEAN :
               records' = [records EXCEPT ![t].start = TRUE, ![t].identity = known]
        BY <1>3, <2>2 DEF RunnerStarts
      <3>2. runners' = [runners EXCEPT ![t] = "running"] /\ turn' = turn \cup {t}
            /\ runners[t] = "queued"
        BY <1>3, <2>2 DEF RunnerStarts
      <3> DEFINE new == [r EXCEPT !.start = TRUE, !.identity = known]
      <3>3. new \in Record /\ records' = [records EXCEPT ![t] = new]
        BY <1>1, <3>1 DEF Record, ContTypeOK
      <3>4. Turns(t) /\ Advances
        BY <1>1, <1>2, <3>2, <3>3
        DEF Turns, Advances, ContTypeOK, Record, RunnerStates, Over, Active
      <3>5. records'[t] = new /\ runners'[t] = "running"
        BY <3>2, <3>3 DEF ContTypeOK, ContInv
      <3>6. RecordAgrees(t)'
        BY <1>1, <1>2, <2>2, <3>2, <3>4, <3>5 DEF RecordAgrees, Untouched, Over, Active, Released,
           Record, Advances
      <3> QED BY <1>2, <3>4, <3>6, TurnKeeps
    <2> QED BY <2>1, <2>2
  <1>4. CASE BudgetStop(t)
    <2> DEFINE new == [r EXCEPT !.stop = "requested"]
    <2>1. /\ new \in Record /\ records' = [records EXCEPT ![t] = new]
          /\ runners' = runners /\ turn' = turn \ {t}
          /\ runners[t] = "running" /\ r.stop = "none"
      BY <1>1, <1>4 DEF Record, BudgetStop, ContTypeOK
    <2>2. Turns(t) /\ Advances
      BY <1>1, <1>2, <2>1 DEF Turns, Advances, ContTypeOK, Record, RunnerStates, Over
    <2>3. RecordAgrees(t)'
      BY <1>1, <1>2, <2>1, <2>2 DEF RecordAgrees, Untouched, Over, Active, Released, Record,
         Advances, ContTypeOK
    <2> QED BY <1>2, <2>2, <2>3, TurnKeeps
  <1>5. CASE ProviderEnds(t)
    <2>1. records' = records /\ runners' = runners /\ turn' = turn \ {t}
      BY <1>5 DEF ProviderEnds
    <2>2. Turns(t) /\ Advances
      BY <1>1, <1>2, <2>1 DEF Turns, Advances, ContTypeOK, Record, RunnerStates, Over
    <2>3. RecordAgrees(t)'
      BY <1>1, <1>2, <2>1, <2>2 DEF RecordAgrees, Untouched, Over, Active, Released, Advances
    <2> QED BY <1>2, <2>2, <2>3, TurnKeeps
  <1>6. CASE RunnerFinishes(t)
    <2>1. PICK new \in Record, stage \in {"publishing", "gone"} :
             /\ records' = [records EXCEPT ![t] = new] /\ runners' = [runners EXCEPT ![t] = stage]
             /\ \/ new = [r EXCEPT !.seal = TRUE] \/ new = [r EXCEPT !.outcome = TRUE]
      <3>1. [r EXCEPT !.seal = TRUE] \in Record /\ [r EXCEPT !.outcome = TRUE] \in Record
        BY <1>1 DEF Record
      <3> QED BY <1>6, <3>1 DEF RunnerFinishes
    <2>2. turn' = turn /\ t \notin turn /\ runners[t] \in Active
      BY <1>6 DEF RunnerFinishes, Active
    <2>3. Turns(t) /\ Advances
      BY <1>1, <1>2, <2>1, <2>2
      DEF Turns, Advances, ContTypeOK, Record, RunnerStates, Over, Active
    <2>4. RecordAgrees(t)'
      BY <1>1, <1>2, <2>1, <2>2, <2>3 DEF RecordAgrees, Untouched, Over, Active, Released, Record,
         Advances, ContTypeOK
    <2> QED BY <1>2, <2>3, <2>4, TurnKeeps
  <1>7. CASE RunnerCrashes(t)
    <2>1. records' = records /\ runners' = [runners EXCEPT ![t] = "gone"] /\ turn' = turn
          /\ runners[t] # "none"
      BY <1>7 DEF RunnerCrashes, Active
    <2>2. Turns(t) /\ Advances
      BY <1>1, <1>2, <2>1 DEF Turns, Advances, ContTypeOK, Record, RunnerStates, Over
    <2>3. RecordAgrees(t)'
      BY <1>1, <1>2, <2>1, <2>2 DEF RecordAgrees, Untouched, Over, Active, Released, Advances,
         ContTypeOK
    <2> QED BY <1>2, <2>2, <2>3, TurnKeeps
  <1>8. CASE CloseLifetime(t)
    <2> DEFINE new == [r EXCEPT !.closed = TRUE]
    <2>1. /\ new \in Record /\ records' = [records EXCEPT ![t] = new]
          /\ runners' = runners /\ turn' = turn /\ runners[t] = "gone" /\ t \notin turn
      BY <1>1, <1>8 DEF Record, CloseLifetime, ContTypeOK
    <2>2. Turns(t) /\ Advances
      BY <1>1, <1>2, <2>1 DEF Turns, Advances, ContTypeOK, Record, RunnerStates, Over
    <2>3. RecordAgrees(t)'
      BY <1>1, <1>2, <2>1, <2>2 DEF RecordAgrees, Untouched, Over, Active, Released, Record,
         Advances, ContTypeOK
    <2> QED BY <1>2, <2>2, <2>3, TurnKeeps
  <1>9. ASSUME NEW c \in Commands, Status(c, t) PROVE ContInv'
    <2> DEFINE new == [r EXCEPT !.stop = "terminated"]
    <2>1. /\ new \in Record /\ records' = [records EXCEPT ![t] = new]
          /\ runners' = runners /\ turn' = turn /\ r.stop = "requested" /\ t \notin turn
      BY <1>1, <1>9 DEF Record, Status, ContTypeOK
    <2>2. Turns(t) /\ Advances
      BY <1>1, <1>2, <2>1 DEF Turns, Advances, ContTypeOK, Record, RunnerStates, Over
    <2>3. RecordAgrees(t)'
      BY <1>1, <1>2, <2>1, <2>2 DEF RecordAgrees, Untouched, Over, Active, Released, Record,
         Advances, ContTypeOK
    <2> QED BY <1>2, <2>2, <2>3, TurnKeeps
  <1>10. ASSUME NEW c \in Commands, Cancel(c, t) PROVE ContInv'
    <2> DEFINE new == [r EXCEPT !.refused = ~ r.start]
    <2>1. /\ new \in Record /\ records' = [records EXCEPT ![t] = new]
          /\ runners' = runners /\ turn' = turn \ {t} /\ r.made
      BY <1>1, <1>10 DEF Record, Cancel, ContTypeOK
    <2>2. Turns(t) /\ Advances
      BY <1>1, <1>2, <2>1 DEF Turns, Advances, ContTypeOK, Record, RunnerStates, Over
    <2>3. RecordAgrees(t)'
      BY <1>1, <1>2, <2>1, <2>2 DEF RecordAgrees, Untouched, Over, Active, Released, Record,
         Advances, ContTypeOK
    <2> QED BY <1>2, <2>2, <2>3, TurnKeeps
  <1> QED BY <1>3, <1>4, <1>5, <1>6, <1>7, <1>8, <1>9, <1>10

\* A command takes a step, alone or together with its task.
LEMMA MoveKeeps ==
  ASSUME ContInv, First \in Tasks, NEW t \in Tasks, Turns(t), Advances, RecordAgrees(t)',
         NEW c \in Commands, NEW new \in Command, commands' = [commands EXCEPT ![c] = new],
         sessionLock' \in Commands \cup {None}, contFaults' \in 0..MaxContFaults,
         \A d \in Commands : d # c /\ commands[d].at = "commit" => sessionLock' = sessionLock,
         CommandAgrees(c)'
  PROVE  ContInv'
  <1> USE DEF ContInv
  <1>1. ContTypeOK'
    BY DEF ContTypeOK, Turns, Record, RunnerStates, Command
  <1>2. \A s \in Tasks : records'[s].made = records[s].made
    BY DEF Turns
  <1>3. ASSUME NEW s \in Tasks PROVE RecordAgrees(s)'
    <2>1. CASE s = t BY <2>1
    <2>2. CASE s # t BY <2>2, <1>2 DEF Turns, Advances, RecordAgrees, Untouched, Over, Released
    <2> QED BY <2>1, <2>2
  <1>4. Owners' = Owners
    BY DEF Turns, Owners, Released
  <1>5. ASSUME NEW d \in Commands PROVE CommandAgrees(d)'
    <2>1. CASE d = c BY <2>1
    <2>2. CASE d # c
      <3>1. CommandAgrees(d) /\ commands'[d] = commands[d] /\ commands'[c] = new
        BY <2>2 DEF ContTypeOK
      <3>2. claims' = claims /\ (Over(First) => Over(First)')
        BY DEF Turns, Advances
      <3>3. \A b \in Commands : b # c => commands'[b] = commands[b]
        BY DEF ContTypeOK
      <3>4. ASSUME new.at \in Early, commands[d].at \in Early PROVE new.task # commands[d].task
        BY <2>2, <3>1, <3>4 DEF CommandAgrees
      <3>5. ASSUME commands[d].at \in Early, NEW b \in Commands, b # d, commands'[b].at \in Early
            PROVE  commands'[b].task # commands[d].task
        <4>1. CASE b = c BY <3>1, <3>4, <3>5, <4>1
        <4>2. CASE b # c BY <3>1, <3>3, <3>5, <4>2 DEF CommandAgrees
        <4> QED BY <4>1, <4>2
      <3>6. commands[d].at = "commit" => sessionLock' = d
        BY <2>2, <3>1 DEF CommandAgrees
      <3> QED BY <1>2, <1>4, <3>1, <3>2, <3>5, <3>6 DEF CommandAgrees
    <2> QED BY <2>1, <2>2
  <1>6. Readable'
    <2> SUFFICES ASSUME NEW s \in claims', Released(s)' PROVE TerminalProof(s, releases[s])'
      BY DEF Readable, Turns
    <2>1. s \in claims /\ Released(s) /\ s \in Tasks
      BY DEF Turns, Released, ContTypeOK
    <2>2. TerminalProof(s, releases[s])
      BY <2>1 DEF Readable
    <2> QED BY <2>1, <2>2, ProofStands DEF Turns
  <1> QED BY <1>1, <1>2, <1>3, <1>4, <1>5, <1>6

\* Where only commands move, the tasks are as before.
LEMMA TasksRest ==
  ASSUME ContInv, First \in Tasks, UNCHANGED <<records, claims, releases, runners, turn>>
  PROVE  /\ Turns(First) /\ Advances /\ RecordAgrees(First)'
         /\ Owners' = Owners /\ (Over(First) => Over(First)')
  BY DEF ContInv, ContTypeOK, Turns, Advances, RecordAgrees, Untouched, Over, Released, Record,
     RunnerStates, Owners

\* The steps of a command that change nothing but the command.
LEMMA CommandKeeps ==
  ASSUME ContInv, First \in Tasks, None \notin Commands, MaxContFaults \in Nat,
         NEW c \in Commands,
         \/ \E p \in Tasks : BeginContinue(c, p) \/ DispatchAgain(c, p)
         \/ Resolve(c) \/ Claim(c) \/ CommandStops(c)
  PROVE  ContInv'
  <1>1. /\ UNCHANGED <<records, claims, releases, runners, turn>>
        /\ contFaults' \in 0..MaxContFaults
    BY DEF ContInv, ContTypeOK, BeginContinue, DispatchAgain, Resolve, Claim, CommandStops
  <1>2. /\ ContTypeOK /\ CommandAgrees(c) /\ commands[c] \in Command
        /\ \A t \in Tasks : RecordAgrees(t)
    BY DEF ContInv, ContTypeOK, Command
  <1>3. /\ Turns(First) /\ Advances /\ RecordAgrees(First)'
        /\ Owners' = Owners /\ (Over(First) => Over(First)')
    BY <1>1, TasksRest
  <1>4. /\ Idle \in Command /\ Idle.at = "idle"
        /\ \A step \in Steps : [commands[c] EXCEPT !.at = step] \in Command
    BY <1>2 DEF Idle, Command, Steps
  <1>5. ASSUME NEW new \in Command, commands' = [commands EXCEPT ![c] = new]
        PROVE  commands'[c] = new
    BY <1>2, <1>5 DEF ContTypeOK
  <1>6. ASSUME NEW p \in Tasks, BeginContinue(c, p) PROVE ContInv'
    <2>1. PICK t \in Tasks :
             /\ ~ records[t].made /\ \A d \in Commands : commands[d].task # t
             /\ commands' = [commands EXCEPT ![c] =
                    [at |-> "resolve", task |-> t, pred |-> p, evidence |-> None]]
      BY <1>6 DEF BeginContinue
    <2> DEFINE new == [at |-> "resolve", task |-> t, pred |-> p, evidence |-> None]
    <2>2. new \in Command
      BY DEF Command, Steps
    <2>3. commands'[c] = new
      BY <1>5, <2>1, <2>2
    <2>4. CommandAgrees(c)'
      <3>1. \A d \in Commands : d # c => commands'[d] = commands[d]
        BY <1>2, <2>1 DEF ContTypeOK
      <3> QED BY <1>1, <1>6, <2>1, <2>3, <3>1 DEF CommandAgrees, BeginContinue, Prior, Early
    <2> QED BY <1>1, <1>2, <1>3, <1>6, <2>1, <2>2, <2>4, MoveKeeps DEF BeginContinue, ContTypeOK
  <1>7. ASSUME NEW t \in Tasks, DispatchAgain(c, t) PROVE ContInv'
    <2>1. PICK new \in Command : /\ commands' = [commands EXCEPT ![c] = new]
                                 /\ new.at \in {"release", "claim"} /\ new.task = t
      <3>1. /\ [at |-> "release", task |-> t, pred |-> None, evidence |-> "outcome"] \in Command
            /\ [at |-> "claim", task |-> t, pred |-> None, evidence |-> None] \in Command
        BY DEF Command, Steps, Evidence
      <3> QED BY <1>7, <3>1 DEF DispatchAgain
    <2>2. CommandAgrees(c)'
      BY <1>1, <1>5, <1>7, <2>1 DEF CommandAgrees, DispatchAgain, Early
    <2> QED BY <1>1, <1>2, <1>3, <1>7, <2>1, <2>2, MoveKeeps DEF DispatchAgain, ContTypeOK
  <1>8. CASE Resolve(c)
    <2>1. /\ commands[c].at = "resolve" /\ UNCHANGED sessionLock
          /\ commands[c].pred \in Tasks /\ records[commands[c].pred].made
      BY <1>2, <1>8 DEF Resolve, CommandAgrees
    <2> DEFINE Resolved(new) ==
                 /\ commands' = [commands EXCEPT ![c] = new]
                 /\ \/ new = Idle
                    \/ /\ new.at \in {"settle", "create"} /\ new.task = commands[c].task
                       /\ Settled(commands[c].pred)
    <2>2. PICK new \in Command : Resolved(new)
      <3>1. CASE commands' = [commands EXCEPT ![c] = Idle] BY <1>4, <3>1
      <3>2. CASE Settled(commands[c].pred) /\ Goto(c, "create")
        <4>1. commands' = [commands EXCEPT ![c] = [commands[c] EXCEPT !.at = "create"]]
          BY <3>2 DEF Goto
        <4>2. [commands[c] EXCEPT !.at = "create"].task = commands[c].task
          BY <1>2 DEF Command
        <4> QED BY <1>2, <1>4, <3>2, <4>1, <4>2 DEF Command, Steps
      <3>3. ASSUME NEW e \in Evidence, Settled(commands[c].pred),
                   commands' = [commands EXCEPT ![c].at = "settle", ![c].evidence = e]
            PROVE  \E new \in Command : Resolved(new)
        <4> DEFINE settling == [commands[c] EXCEPT !.at = "settle", !.evidence = e]
        <4>1. /\ settling \in Command /\ settling.at = "settle"
              /\ settling.task = commands[c].task
          BY <1>2, <3>3 DEF Command, Steps
        <4>2. commands' = [commands EXCEPT ![c] = settling]
          BY <1>2, <3>3 DEF ContTypeOK
        <4> QED BY <3>3, <4>1, <4>2
      <3> QED
        <4> HIDE DEF Resolved
        <4>1. \/ commands' = [commands EXCEPT ![c] = Idle]
              \/ Settled(commands[c].pred) /\ Goto(c, "create")
              \/ /\ Settled(commands[c].pred)
                 /\ \E e \in Evidence :
                       commands' = [commands EXCEPT ![c].at = "settle", ![c].evidence = e]
          BY <1>8 DEF Resolve, Done, Evidence
        <4> QED BY <3>1, <3>2, <3>3, <4>1
    <2>3. Settled(commands[c].pred) => Over(First)
      <3>1. ASSUME Settled(First) PROVE Over(First)
        BY <1>2, <3>1 DEF Settled, Terminal, Interrupted, LeaseReleased, RecordAgrees, Over
      <3> QED BY <1>2, <2>1, <3>1 DEF RecordAgrees
    <2>4. CommandAgrees(c)'
      <3>1. \A d \in Commands : d # c => commands'[d] = commands[d]
        BY <1>2, <2>2 DEF ContTypeOK
      <3>2. CASE new = Idle BY <1>4, <1>5, <2>2, <3>2 DEF CommandAgrees, Early
      <3>3. CASE new # Idle
        BY <1>1, <1>2, <1>3, <1>5, <2>1, <2>2, <2>3, <3>1, <3>3 DEF CommandAgrees, Early
      <3> QED BY <3>2, <3>3
    <2> QED BY <1>1, <1>2, <1>3, <2>1, <2>2, <2>4, MoveKeeps DEF ContTypeOK
  <1>9. CASE Claim(c)
    <2>1. commands[c].at = "claim"
      BY <1>9 DEF Claim
    <2> DEFINE t == commands[c].task
    <2>2. CASE LockSession(c) /\ Goto(c, "commit") /\ (Owners = {} \/ Owners = {t})
      <3> DEFINE new == [commands[c] EXCEPT !.at = "commit"]
      <3>1. /\ commands' = [commands EXCEPT ![c] = new] /\ new \in Command
            /\ sessionLock = None /\ sessionLock' = c
        BY <1>4, <2>2 DEF Goto, LockSession, Steps
      <3>2. commands'[c] = new /\ new.at = "commit" /\ new.task = t
        BY <1>2, <1>5, <3>1 DEF Command
      <3>3. CommandAgrees(c)'
        BY <1>1, <1>2, <1>3, <2>1, <2>2, <3>1, <3>2 DEF CommandAgrees, Early
      <3>4. \A d \in Commands : commands[d].at # "commit"
        BY <3>1 DEF ContInv, CommandAgrees
      <3> QED BY <1>1, <1>2, <1>3, <3>1, <3>3, <3>4, MoveKeeps
    <2>3. CASE Done(c) /\ UNCHANGED sessionLock
      <3>1. CommandAgrees(c)'
        BY <1>4, <1>5, <2>3 DEF Done, CommandAgrees, Early
      <3> QED BY <1>1, <1>2, <1>3, <1>4, <2>3, <3>1, MoveKeeps DEF Done, ContTypeOK
    <2> QED BY <1>9, <2>2, <2>3 DEF Claim
  <1>10. CASE CommandStops(c)
    <2>1. CommandAgrees(c)'
      BY <1>4, <1>5, <1>10 DEF CommandStops, Done, CommandAgrees, Early
    <2>2. \A d \in Commands : d # c /\ commands[d].at = "commit" => sessionLock' = sessionLock
      BY <1>10 DEF ContInv, CommandAgrees, CommandStops, Unlock
    <2>3. sessionLock' \in Commands \cup {None}
      BY <1>2, <1>10 DEF CommandStops, Unlock, ContTypeOK
    <2> QED BY <1>1, <1>3, <1>4, <1>10, <2>1, <2>2, <2>3, MoveKeeps DEF CommandStops, Done
  <1> QED BY <1>6, <1>7, <1>8, <1>9, <1>10

\* The steps that a command and its task take together.
LEMMA TaskStepKeeps ==
  ASSUME ContInv, First \in Tasks, MaxContFaults \in Nat, NEW c \in Commands,
         Submit(c) \/ \E t \in Tasks : Collect(c, t)
  PROVE  ContInv'
  <1>1. /\ ContTypeOK /\ CommandAgrees(c) /\ commands[c] \in Command
        /\ \A t \in Tasks : RecordAgrees(t) /\ records[t] \in Record /\ runners[t] \in RunnerStates
    BY DEF ContInv, ContTypeOK, Command, Record, RunnerStates
  <1>2. UNCHANGED <<claims, releases, sessionLock, turn, contFaults>>
    BY DEF Submit, Collect
  <1>3. Idle \in Command /\ Idle.at = "idle"
    BY DEF Idle, Command, Steps
  <1>4. ASSUME NEW new \in Command, commands' = [commands EXCEPT ![c] = new]
        PROVE  commands'[c] = new
    BY <1>1, <1>4 DEF ContTypeOK
  <1>5. CASE Submit(c)
    <2>1. PICK t \in Tasks : t = commands[c].task /\ t \in claims
      BY <1>1, <1>5 DEF Submit, CommandAgrees
    <2>5. commands' = [commands EXCEPT ![c] = Idle]
      BY <1>5 DEF Submit, Done
    <2>2. CommandAgrees(c)'
      BY <1>3, <1>4, <2>5 DEF CommandAgrees, Early
    <2>3. CASE UNCHANGED <<records, runners>>
      BY <1>1, <1>2, <1>3, <2>2, <2>3, <2>5, TasksRest, MoveKeeps DEF ContTypeOK
    <2>4. CASE /\ ~ records[t].submitted
               /\ records' = [records EXCEPT ![t].submitted = TRUE]
               /\ runners' = [runners EXCEPT ![t] = "queued"]
      <3> DEFINE new == [records[t] EXCEPT !.submitted = TRUE]
      <3>1. new \in Record /\ records' = [records EXCEPT ![t] = new]
        BY <1>1, <2>1, <2>4 DEF Record, ContTypeOK
      <3>2. runners[t] = "none" /\ t \notin turn /\ records[t].made
        BY <1>1, <1>5, <2>1, <2>4 DEF RecordAgrees, Submit, CommandAgrees, Active
      <3>4. records'[t] = new /\ runners'[t] = "queued"
        BY <1>1, <2>1, <2>4, <3>1 DEF ContTypeOK
      <3>6. \A s \in Tasks : s # t => records'[s] = records[s] /\ runners'[s] = runners[s]
        BY <1>1, <2>1, <2>4, <3>1 DEF ContTypeOK
      <3>7. records' \in [Tasks -> Record] /\ runners' \in [Tasks -> RunnerStates]
        BY <1>1, <2>1, <2>4, <3>1 DEF ContTypeOK, Record, RunnerStates
      <3>8. /\ new.made = records[t].made /\ new.outcome = records[t].outcome
            /\ new.closed = records[t].closed /\ new.stop = records[t].stop
        BY <1>1, <2>1 DEF ContTypeOK
      <3>9. Turns(t)
        BY <1>1, <1>2, <2>1, <3>4, <3>6, <3>7, <3>8 DEF Turns, ContTypeOK
      <3>10. Advances
        BY <1>1, <1>2, <2>1, <3>2, <3>4, <3>6, <3>8 DEF Advances, Over
      <3>3. Turns(t) /\ Advances
        BY <3>9, <3>10
      <3>5. RecordAgrees(t)'
        BY <1>1, <1>2, <2>1, <3>2, <3>3, <3>4 DEF RecordAgrees, Untouched, Over, Active, Released,
           Record, Advances
      <3> QED BY <1>1, <1>2, <1>3, <2>1, <2>2, <2>5, <3>3, <3>5, MoveKeeps DEF ContTypeOK
    <2> QED BY <1>5, <2>1, <2>3, <2>4 DEF Submit
  <1>6. ASSUME NEW t \in Tasks, Collect(c, t) PROVE ContInv'
    <2> DEFINE new == [records[t] EXCEPT !.outcome = TRUE]
               asks == [at |-> "release", task |-> t, pred |-> None, evidence |-> "outcome"]
    <2>1. /\ new \in Record /\ records' = [records EXCEPT ![t] = new] /\ UNCHANGED runners
          /\ records[t].made /\ (records[t].seal \/ records[t].outcome)
      <3>1. new \in Record
        BY <1>1 DEF Record
      <3> QED BY <1>6, <3>1 DEF Collect
    <2>2. Turns(t) /\ Advances
      BY <1>1, <1>2, <2>1 DEF Turns, Advances, ContTypeOK, Record, RunnerStates, Over
    <2>3. records'[t] = new
      BY <1>1, <2>1 DEF ContTypeOK
    <2>4. RecordAgrees(t)'
      BY <1>1, <1>2, <2>1, <2>2, <2>3 DEF RecordAgrees, Untouched, Over, Active, Released,
         Record, Advances
    <2>5. CASE UNCHANGED commands BY <1>1, <1>2, <2>2, <2>4, <2>5, TurnKeeps DEF ContTypeOK
    <2>6. CASE commands' = [commands EXCEPT ![c] = asks]
      <3>1. asks \in Command /\ asks.at = "release"
        BY DEF Command, Steps, Evidence
      <3>2. CommandAgrees(c)'
        BY <1>4, <2>6, <3>1 DEF CommandAgrees, Early
      <3> QED BY <1>1, <1>2, <2>2, <2>4, <2>6, <3>1, <3>2, MoveKeeps DEF ContTypeOK
    <2> QED BY <1>6, <2>5, <2>6 DEF Collect
  <1> QED BY <1>5, <1>6

\* A task is made, by the one command that thought it up.
LEMMA CreateKeeps ==
  ASSUME ContInv, First \in Tasks, NEW c \in Commands, Create(c)
  PROVE  ContInv'
  <1>1. /\ ContTypeOK /\ CommandAgrees(c) /\ commands[c] \in Command
        /\ \A s \in Tasks : RecordAgrees(s)
    BY DEF ContInv, ContTypeOK, Command
  <1>2. /\ UNCHANGED <<claims, releases, sessionLock, runners, turn, contFaults>>
        /\ commands[c].at = "create" /\ Over(First)
    BY <1>1 DEF Create, CommandAgrees
  <1>5. PICK t \in Tasks : t = commands[c].task /\ ~ records[t].made
    BY <1>1, <1>2 DEF CommandAgrees, Early
  <1>3. CASE UNCHANGED records /\ Done(c)
    <2>1. Idle \in Command /\ Idle.at = "idle" /\ commands' = [commands EXCEPT ![c] = Idle]
      BY <1>3 DEF Idle, Command, Steps, Done
    <2>2. CommandAgrees(c)'
      <3>1. commands'[c] = Idle
        BY <1>1, <2>1 DEF ContTypeOK
      <3> QED BY <2>1, <3>1 DEF CommandAgrees, Early
    <2> QED BY <1>1, <1>2, <1>3, <2>1, <2>2, TasksRest, MoveKeeps DEF ContTypeOK
  <1>4. CASE /\ records' = [records EXCEPT ![t] =
                   [NoRecord EXCEPT !.made = TRUE, !.pred = commands[c].pred]]
             /\ Goto(c, "claim")
    <2> DEFINE new == [NoRecord EXCEPT !.made = TRUE, !.pred = commands[c].pred]
    <2>1. /\ new \in Record /\ new.made /\ ~ new.submitted /\ ~ new.start /\ ~ new.seal
          /\ ~ new.outcome /\ ~ new.closed /\ new.stop = "none"
      <3>1. commands[c].pred \in Tasks \cup {None}
        BY <1>1 DEF Command
      <3> QED BY <3>1 DEF NoRecord, Record
    <2>2. /\ records'[t] = new /\ \A s \in Tasks : s # t => records'[s] = records[s]
          /\ commands'[c].at = "claim" /\ commands'[c].task = t
          /\ \A d \in Commands : d # c => commands'[d] = commands[d]
      BY <1>1, <1>4, <1>5 DEF ContTypeOK, Goto, Command
    <2>3. Untouched(t)
      BY <1>1, <1>5 DEF RecordAgrees
    <2> HIDE DEF new
    <2>4. Advances
      BY <1>2, <2>1, <2>2, <2>3 DEF Advances, Over, Untouched
    <2>5. ContTypeOK'
      <3>1. [commands[c] EXCEPT !.at = "claim"] \in Command
        BY <1>1 DEF Command, Steps
      <3>2. commands' \in [Commands -> Command] /\ records' \in [Tasks -> Record]
        BY <1>1, <1>4, <2>1, <3>1 DEF ContTypeOK, Goto, Command, Record, new
      <3> QED BY <1>1, <1>2, <3>2 DEF ContTypeOK, Command, Record
    <2>6. \A s \in Tasks : RecordAgrees(s)'
      <3>1. RecordAgrees(t)'
        BY <1>1, <1>2, <2>1, <2>2, <2>3 DEF RecordAgrees, Untouched, Over, Active, Released
      <3>2. ASSUME NEW s \in Tasks, s # t PROVE RecordAgrees(s)'
        BY <1>1, <1>2, <2>2, <3>2 DEF RecordAgrees, Untouched, Over, Active, Released
      <3> QED BY <3>1, <3>2
    <2>7. Owners' = Owners
      BY <1>2 DEF Owners, Released
    <2>8. ASSUME NEW d \in Commands PROVE CommandAgrees(d)'
      <3>1. CASE d = c BY <1>5, <2>1, <2>2, <3>1 DEF CommandAgrees, Early
      <3>2. CASE d # c
        <4>1. commands'[d] = commands[d] /\ CommandAgrees(d)
          BY <2>2, <3>2 DEF ContInv
        <4>2. commands[d].at \in Early => commands[d].task # t
          BY <1>1, <1>2, <1>5, <3>2 DEF CommandAgrees, Early
        <4>3. \A s \in Tasks : records[s].made => records'[s].made
          BY <2>4 DEF Advances
        <4>4. Over(First) => Over(First)'
          BY <2>4 DEF Advances
        <4>5. commands'[c].at \notin Early
          BY <2>2 DEF Early
        <4> QED BY <1>2, <1>5, <2>2, <2>7, <4>1, <4>2, <4>3, <4>4, <4>5 DEF CommandAgrees
      <3> QED BY <3>1, <3>2
    <2>9. Readable'
      <3> SUFFICES ASSUME NEW s \in claims', Released(s)' PROVE TerminalProof(s, releases[s])'
        BY <1>2 DEF Readable
      <3>1. s \in Tasks /\ TerminalProof(s, releases[s])
        BY <1>1, <1>2 DEF ContTypeOK, ContInv, Readable, Released
      <3> QED BY <1>1, <1>2, <2>4, <3>1, ProofStands
    <2>10. records'[First].made
      BY <2>4 DEF Advances, ContInv
    <2> QED BY <2>5, <2>6, <2>7, <2>8, <2>9, <2>10 DEF ContInv
  <1> QED BY <1>3, <1>4, <1>5 DEF Create

\* A claim is written under the session's lock, for which its command has found nobody else.
LEMMA CommitKeeps ==
  ASSUME ContInv, First \in Tasks, NEW c \in Commands, CommitClaim(c)
  PROVE  ContInv'
  <1> DEFINE t == commands[c].task
  <1>1. /\ ContTypeOK /\ CommandAgrees(c) /\ commands[c] \in Command
        /\ \A s \in Tasks : RecordAgrees(s)
    BY DEF ContInv, ContTypeOK, Command
  <1>2. /\ UNCHANGED <<records, releases, runners, turn, contFaults>>
        /\ commands[c].at = "commit" /\ sessionLock = c /\ sessionLock' = None
        /\ t \in Tasks /\ records[t].made /\ Owners \subseteq {t}
        /\ claims' = claims \cup {t}
    BY <1>1 DEF CommitClaim, CommandAgrees, Unlock
  <1>3. /\ commands'[c].at = "submit" /\ commands'[c].task = t
        /\ \A d \in Commands : d # c => commands'[d] = commands[d]
        /\ commands' \in [Commands -> Command]
    <2>1. [commands[c] EXCEPT !.at = "submit"] \in Command
      BY <1>1 DEF Command, Steps
    <2> QED BY <1>1, <1>2, <2>1 DEF CommitClaim, Goto, ContTypeOK, Command
  <1>4. ContTypeOK'
    BY <1>1, <1>2, <1>3 DEF ContTypeOK, Command
  <1>5. \A s \in Tasks : RecordAgrees(s)'
    BY <1>1, <1>2 DEF RecordAgrees, Untouched, Over, Released
  <1>6. Owners' \subseteq {t}
    BY <1>2 DEF Owners, Released
  <1>7. ASSUME NEW d \in Commands PROVE CommandAgrees(d)'
    <2>1. CASE d = c BY <1>2, <1>3, <2>1 DEF CommandAgrees, Early
    <2>2. CASE d # c
      <3>1. CommandAgrees(d) /\ commands'[d] = commands[d] /\ commands[d].at # "commit"
        BY <1>2, <1>3, <2>2 DEF ContInv, CommandAgrees
      <3>2. commands'[c].at \notin Early /\ (Over(First) => Over(First)')
        BY <1>2, <1>3 DEF Early, Over
      <3> QED BY <1>2, <1>3, <3>1, <3>2 DEF CommandAgrees
    <2> QED BY <2>1, <2>2
  <1>8. Readable'
    <2> SUFFICES ASSUME NEW s \in claims', Released(s)' PROVE TerminalProof(s, releases[s])'
      BY <1>2 DEF Readable
    <2>1. s \in claims /\ Released(s)
      BY <1>1, <1>2 DEF Released, RecordAgrees
    <2>2. TerminalProof(s, releases[s])
      BY <2>1 DEF ContInv, Readable
    <2> QED BY <1>2, <2>2 DEF TerminalProof, LeaseReleased, Handoff
  <1> QED BY <1>2, <1>4, <1>5, <1>6, <1>7, <1>8 DEF ContInv

\* A release is written with a proof, or one that stands already is left alone.
LEMMA ReleaseKeeps ==
  ASSUME ContInv, First \in Tasks,
         (\E c \in Commands : Release(c)) \/ (\E t \in Tasks : RunnerReleases(t))
  PROVE  ContInv'
  <1>1. /\ ContTypeOK /\ \A s \in Tasks : RecordAgrees(s)
        /\ \A c \in Commands : CommandAgrees(c) /\ commands[c] \in Command
    BY DEF ContInv, ContTypeOK, Command
  <1>2. UNCHANGED <<records, claims, sessionLock, runners, turn, contFaults>>
    BY DEF Release, RunnerReleases
  <1> DEFINE Written ==
               \/ releases' = releases
               \/ \E t \in claims, e \in Evidence :
                     releases' = [releases EXCEPT ![t] = e] /\ ~ Released(t) /\ TerminalProof(t, e)
             Follows(c) ==
               \/ commands'[c] = commands[c]
               \/ commands'[c] = Idle
               \/ /\ commands[c].at = "settle"
                  /\ commands'[c] = [commands[c] EXCEPT !.at = "create"]
  <1>3. Written
    <2>1. ASSUME NEW t \in claims, NEW e, ReleaseRecord(t, e) PROVE Written
      <3>1. TerminalProof(t, e) => e \in Evidence
        BY DEF TerminalProof, Handoff, Evidence
      <3> QED BY <2>1, <3>1 DEF ReleaseRecord
    <2> QED BY <2>1 DEF Release, RunnerReleases
  <1>4. ContTypeOK' /\ \A c \in Commands : Follows(c)
    <2>1. releases' \in [Tasks -> Evidence \cup {None}]
      BY <1>1, <1>3 DEF ContTypeOK
    <2>2. CASE UNCHANGED commands BY <1>1, <1>2, <2>1, <2>2 DEF ContTypeOK
    <2>3. ASSUME NEW c \in Commands, Release(c)
          PROVE  ContTypeOK' /\ \A d \in Commands : Follows(d)
      <3>1. PICK new \in {Idle, [commands[c] EXCEPT !.at = "create"]} :
               /\ commands' = [commands EXCEPT ![c] = new]
               /\ new = Idle \/ commands[c].at = "settle"
        BY <2>3 DEF Release, Done
      <3>2. new \in Command
        BY <1>1 DEF Idle, Command, Steps
      <3> QED BY <1>1, <1>2, <2>1, <3>1, <3>2 DEF ContTypeOK, Command
    <2> QED BY <2>2, <2>3 DEF RunnerReleases
  <1>5. \A s \in Tasks : RecordAgrees(s)'
    <2> SUFFICES ASSUME NEW s \in Tasks PROVE Released(s)' => s \in claims
      BY <1>1, <1>2 DEF RecordAgrees, Untouched, Over
    <2> QED BY <1>1, <1>3 DEF Released, RecordAgrees, ContTypeOK
  <1>6. Owners' \subseteq Owners
    BY <1>1, <1>2, <1>3 DEF Owners, Released, ContTypeOK
  <1>7. ASSUME NEW d \in Commands PROVE CommandAgrees(d)'
    <2>1. Idle.at = "idle" /\ \A c \in Commands : [commands[c] EXCEPT !.at = "create"].at = "create"
                           /\ [commands[c] EXCEPT !.at = "create"].task = commands[c].task
      BY <1>1 DEF Idle, Command
    <2>2. \A c \in Commands : commands'[c].at \in Early =>
             commands[c].at \in Early /\ commands'[c].task = commands[c].task
      BY <1>4, <2>1 DEF Early
    <2>3. Over(First) => Over(First)'
      BY <1>2 DEF Over
    <2>4. CASE commands'[d] = commands[d] BY <1>1, <1>2, <1>6, <2>2, <2>3, <2>4 DEF CommandAgrees
    <2>5. CASE commands'[d] = Idle BY <2>1, <2>5 DEF CommandAgrees, Early
    <2>6. CASE commands[d].at = "settle" /\ commands'[d] = [commands[d] EXCEPT !.at = "create"]
      BY <1>1, <1>2, <2>1, <2>2, <2>3, <2>6 DEF CommandAgrees, Early
    <2> QED BY <1>4, <2>4, <2>5, <2>6
  <1>8. Readable'
    <2> SUFFICES ASSUME NEW s \in claims, releases'[s] # None PROVE TerminalProof(s, releases'[s])
      BY <1>2 DEF Readable, Released, TerminalProof, LeaseReleased, Handoff
    <2>1. s \in Tasks
      BY <1>1 DEF ContTypeOK
    <2> QED BY <1>1, <1>3, <2>1 DEF ContInv, Readable, Released, ContTypeOK
  <1>9. \A s, t \in Owners' : s = t
    BY <1>6 DEF ContInv
  <1> QED BY <1>2, <1>4, <1>5, <1>7, <1>8, <1>9 DEF ContInv

\* Only one task has the conversation in hand, and it owns it.
LEMMA HandsOwn ==
  ASSUME ContInv
  PROVE  ConversationIsSafe
  <1> USE DEF ContInv
  <1>1. ASSUME NEW t \in Tasks, InHand(t), t # First PROVE t \in Owners /\ records[t].made
    <2>1. runners[t] # "none" /\ records[t].made
      BY <1>1 DEF InHand, RecordAgrees, Untouched, Active
    <2>2. ~ Over(t) /\ t \in claims
      BY <1>1, <2>1 DEF InHand, RecordAgrees, Over, Active
    <2>3. Released(t) => Over(t)
      BY <2>2 DEF Readable, TerminalProof, LeaseReleased, Handoff, RecordAgrees, Over
    <2> QED BY <2>1, <2>2, <2>3 DEF Owners
  <1>2. SoleTurn
    <2>1. InHand(First) => ~ Over(First)
      BY DEF InHand, Over, Active
    <2> QED BY <1>1, <2>1 DEF SoleTurn, RecordAgrees
  <1>3. OneOwner
    <2>1. CASE Owners = {} BY <2>1, FS_EmptySet DEF OneOwner
    <2>2. ASSUME NEW t \in Owners PROVE OneOwner
      <3>1. Owners = {t}
        BY <2>2
      <3>2. Cardinality({t}) = 1
        BY FS_Singleton
      <3> QED BY <3>1, <3>2 DEF OneOwner
    <2> QED BY <2>1, <2>2
  <1> QED BY <1>2, <1>3 DEF ConversationIsSafe, ReleasesStand

\* The invariant holds at first, every step keeps it, and what the runs check follows.
THEOREM ContInductive ==
  ASSUME First \in Tasks, None \notin Commands, MaxContFaults \in Nat
  PROVE  /\ ContInit => ContInv
         /\ ContInv /\ [ContNext]_contVars => ContInv'
         /\ ContInv => ContTypeOK /\ ConversationIsSafe
  <1>1. ASSUME ContInit PROVE ContInv
    <2>1. NoRecord \in Record /\ [NoRecord EXCEPT !.made = TRUE, !.submitted = TRUE] \in Record
      BY DEF NoRecord, Record
    <2>2. ContTypeOK
      BY <1>1, <2>1 DEF ContInit, ContTypeOK, Record, Idle, Steps
    <2>3. \A t \in Tasks : RecordAgrees(t)
      BY <1>1, <2>1 DEF ContInit, RecordAgrees, Untouched, Record, NoRecord, Active, Released
    <2>4. \A c \in Commands : CommandAgrees(c)
      BY <1>1 DEF ContInit, CommandAgrees, Idle, Early
    <2>5. claims = {} /\ Owners = {} /\ records[First].made
      BY <1>1 DEF ContInit, Owners, NoRecord
    <2> QED BY <2>2, <2>3, <2>4, <2>5 DEF ContInv, Readable
  <1>2. ASSUME ContInv, UNCHANGED contVars PROVE ContInv'
    <2>1. Turns(First) /\ Advances /\ RecordAgrees(First)'
      BY <1>2, TasksRest DEF contVars
    <2> QED BY <1>2, <2>1, TurnKeeps DEF contVars, ContInv, ContTypeOK
  <1>3. ContInv /\ ContNext => ContInv'
    BY RunnerKeeps, CommandKeeps, TaskStepKeeps, CreateKeeps, CommitKeeps, ReleaseKeeps
    DEF ContNext
  <1> QED BY <1>1, <1>2, <1>3, HandsOwn DEF ContInv
--------------------
(* The stream of Pi.                                                       *)

\* What an event can say, and the parsers and the truth as records.
PiTexts == AllTexts \cup {NoText}
Stages == {"none", "started", "ended"}
Cycle == [agent : Stages, turn : Stages, open : BOOLEAN, last : PiTexts,
          lastStop : Stops \cup {""}, text : PiTexts, stop : Stops \cup {""}, error : BOOLEAN,
          answer : PiTexts, fail : BOOLEAN, retry : BOOLEAN, refused : BOOLEAN]
Parser == [bad : BOOLEAN, session : BOOLEAN, sticky : BOOLEAN, settled : BOOLEAN, cycle : Cycle]
Told == [newest : PiTexts, ended : BOOLEAN, error : BOOLEAN, failure : BOOLEAN,
         outcome : BOOLEAN, malformed : BOOLEAN, waiting : BOOLEAN, info : BOOLEAN]

\* A cycle that is still read knows what the process said: t is the truth, v the revision.
CycleReads(v, sticky, c, t) ==
    /\ sticky => c.fail
    /\ t.error => sticky
    /\ t.failure => c.fail
    /\ t.waiting => c.retry
    /\ c.refused <=> (v = "outcome" /\ t.outcome)
    /\ c.agent = "ended" => t.ended /\ c.turn = "ended"
    /\ c.agent = "none" => c.turn = "none" /\ ~ c.refused
    /\ c.turn = "ended" => t.newest = c.text
    /\ c.answer # NoText => c.agent = "ended" /\ c.answer = c.text
ReadsWell(v, p, t) == ~ p.bad => CycleReads(v, p.sticky, p.cycle, t)

\* Two cycles, and two parsers, that differ at most in what Pi said of its own outcome.
CycleTwins(c, d) ==
    /\ c.agent = d.agent /\ c.turn = d.turn /\ c.open = d.open /\ c.last = d.last
    /\ c.lastStop = d.lastStop /\ c.text = d.text /\ c.stop = d.stop /\ c.error = d.error
    /\ c.answer = d.answer /\ c.fail = d.fail /\ c.retry = d.retry
Twins(p, q) ==
    /\ p.bad = q.bad
    /\ ~ p.bad => /\ p.session = q.session /\ p.sticky = q.sticky /\ p.settled = q.settled
                  /\ CycleTwins(p.cycle, q.cycle)

PiInv ==
    /\ parsers \in [Versions -> Parser] /\ told \in Told
    /\ exit \in {"open", "success", "failure"}
    /\ \A v \in Versions : ReadsWell(v, parsers[v], told)
    /\ ~ parsers["prior"].bad /\ ~ parsers["outcome"].bad =>
          Twins(parsers["prior"], parsers["outcome"])
    /\ parsers["prior"].bad /\ ~ parsers["outcome"].bad => told.info
    /\ told.malformed => parsers["outcome"].bad
    /\ ~ parsers["prior"].bad /\ parsers["outcome"].bad => told.malformed

\* A parser that refuses the stream, and a fresh cycle, are parsers.
LEMMA ParserValues ==
  /\ NewCycle \in Cycle /\ NewParser \in Parser
  /\ Broken \in Parser /\ Broken.bad
  <1>1. NewCycle \in Cycle
    BY DEF NewCycle, Cycle, Stages, PiTexts
  <1>2. NewParser \in Parser /\ NewParser.cycle = NewCycle
    BY <1>1 DEF NewParser, Parser
  <1> QED BY <1>1, <1>2 DEF Broken, Parser

\* What a broken parser reads is right.
LEMMA BrokenReads ==
  ASSUME NEW v, NEW t PROVE ReadsWell(v, Broken, t) /\ Twins(Broken, Broken)
  BY ParserValues DEF ReadsWell, Twins

\* The parser with another cycle.
LEMMA AnotherCycle ==
  ASSUME NEW p \in Parser, NEW c \in Cycle
  PROVE  /\ [p EXCEPT !.cycle = c] \in Parser /\ [p EXCEPT !.cycle = c].cycle = c
         /\ [p EXCEPT !.cycle = c].bad = p.bad /\ [p EXCEPT !.cycle = c].session = p.session
         /\ [p EXCEPT !.cycle = c].sticky = p.sticky
         /\ [p EXCEPT !.cycle = c].settled = p.settled
  BY DEF Parser

\* An event inside a cycle leaves a broken parser, or only another cycle.
LEMMA InCycleReads ==
  ASSUME NEW v, NEW t, NEW p \in Parser, NEW c \in Cycle, NEW allowed,
         ~ p.settled /\ p.cycle.agent # "ended" /\ allowed => CycleReads(v, p.sticky, c, t)
  PROVE  InCycle(p, allowed, c) \in Parser /\ ReadsWell(v, InCycle(p, allowed, c), t)
  <1>1. CASE ~ p.settled /\ p.cycle.agent # "ended" /\ allowed
    <2> DEFINE n == [p EXCEPT !.cycle = c]
    <2>1. InCycle(p, allowed, c) = n
      BY <1>1 DEF InCycle, Accept
    <2>2. n \in Parser /\ n.cycle = c /\ n.sticky = p.sticky
      BY AnotherCycle
    <2> HIDE DEF n
    <2> QED BY <1>1, <2>1, <2>2 DEF ReadsWell
  <1>2. CASE ~ (~ p.settled /\ p.cycle.agent # "ended" /\ allowed)
    <2>1. InCycle(p, allowed, c) = Broken
      BY <1>2 DEF InCycle, Accept
    <2> QED BY <2>1, ParserValues, BrokenReads
  <1> QED BY <1>1, <1>2

\* Twins stay twins in a cycle.
LEMMA InCycleTwins ==
  ASSUME NEW p \in Parser, NEW q \in Parser, ~ p.bad, Twins(p, q), NEW allowed,
         NEW c \in Cycle, NEW d \in Cycle, CycleTwins(c, d)
  PROVE  Twins(InCycle(p, allowed, c), InCycle(q, allowed, d))
  <1>1. p.settled = q.settled /\ p.cycle.agent = q.cycle.agent
    BY DEF Twins, CycleTwins
  <1>2. CASE ~ p.settled /\ p.cycle.agent # "ended" /\ allowed
    <2> DEFINE n == [p EXCEPT !.cycle = c]
               m == [q EXCEPT !.cycle = d]
    <2>1. InCycle(p, allowed, c) = n /\ InCycle(q, allowed, d) = m
      BY <1>1, <1>2 DEF InCycle, Accept
    <2>2. /\ n.cycle = c /\ n.bad = p.bad /\ n.session = p.session /\ n.sticky = p.sticky
          /\ n.settled = p.settled
          /\ m.cycle = d /\ m.bad = q.bad /\ m.session = q.session /\ m.sticky = q.sticky
          /\ m.settled = q.settled
      BY AnotherCycle
    <2> HIDE DEF n, m
    <2> QED BY <2>1, <2>2 DEF Twins
  <1>3. CASE ~ (~ p.settled /\ p.cycle.agent # "ended" /\ allowed)
    <2>1. InCycle(p, allowed, c) = Broken /\ InCycle(q, allowed, d) = Broken
      BY <1>1, <1>3 DEF InCycle, Accept
    <2> QED BY <2>1, BrokenReads
  <1> QED BY <1>2, <1>3

\* The session, a cycle and a turn begin.
LEMMA SessionKeeps ==
  ASSUME NEW v, NEW t, NEW p \in Parser, ~ p.bad, ReadsWell(v, p, t)
  PROVE  SessionRead(p) \in Parser /\ ReadsWell(v, SessionRead(p), t)
  <1> DEFINE n == [p EXCEPT !.session = TRUE]
  <1>1. n \in Parser /\ n.cycle = p.cycle /\ n.sticky = p.sticky
    BY DEF Parser
  <1>2. SessionRead(p) \in {n, Broken}
    BY DEF SessionRead, Accept
  <1> HIDE DEF n
  <1> QED BY <1>1, <1>2, ParserValues, BrokenReads DEF ReadsWell

\* A cycle begins.
LEMMA AgentStartKeeps ==
  ASSUME NEW v, NEW t \in Told, NEW p \in Parser, ~ p.bad, ReadsWell(v, p, t)
  PROVE  /\ AgentStart(p) \in Parser
         /\ ReadsWell(v, AgentStart(p), [t EXCEPT !.failure = FALSE, !.outcome = FALSE,
                           !.waiting = FALSE, !.ended = FALSE, !.newest = NoText])
  <1> DEFINE u == [t EXCEPT !.failure = FALSE, !.outcome = FALSE, !.waiting = FALSE,
                            !.ended = FALSE, !.newest = NoText]
             c == [NewCycle EXCEPT !.agent = "started", !.fail = p.sticky]
             d == [p.cycle EXCEPT !.agent = "started"]
  <1>1. ~ u.failure /\ ~ u.outcome /\ ~ u.waiting /\ u.error = t.error
    BY DEF Told
  <1>2. c \in Cycle /\ c.agent = "started" /\ c.turn = "none" /\ c.answer = NoText
        /\ c.fail = p.sticky /\ ~ c.refused
    <2>1. NewCycle \in Cycle /\ p.sticky \in BOOLEAN
      BY ParserValues DEF Parser
    <2> QED BY <2>1 DEF Cycle, Stages, NewCycle
  <1>3. /\ d \in Cycle /\ d.agent = "started" /\ d.turn = p.cycle.turn
        /\ d.answer = p.cycle.answer /\ d.fail = p.cycle.fail /\ d.refused = p.cycle.refused
    BY DEF Parser, Cycle, Stages
  <1>4. AgentStart(p) = [p EXCEPT !.cycle = c] \/ AgentStart(p) = Broken
        \/ (p.cycle.agent = "none" /\ AgentStart(p) = [p EXCEPT !.cycle = d])
    BY DEF AgentStart, Accept
  <1> HIDE DEF c, d, u
  <1>5. CycleReads(v, p.sticky, c, u)
    BY <1>1, <1>2 DEF CycleReads, ReadsWell
  <1>6. p.cycle.agent = "none" => CycleReads(v, p.sticky, d, u)
    BY <1>1, <1>3 DEF CycleReads, ReadsWell
  <1> DEFINE n == [p EXCEPT !.cycle = c]
             m == [p EXCEPT !.cycle = d]
  <1>8. /\ n \in Parser /\ n.cycle = c /\ n.sticky = p.sticky
        /\ m \in Parser /\ m.cycle = d /\ m.sticky = p.sticky
    BY <1>2, <1>3, AnotherCycle
  <1> HIDE DEF n, m
  <1>9. ReadsWell(v, n, u) /\ (p.cycle.agent = "none" => ReadsWell(v, m, u))
    BY <1>5, <1>6, <1>8 DEF ReadsWell
  <1>7. AgentStart(p) \in Parser /\ ReadsWell(v, AgentStart(p), u)
    BY <1>4, <1>8, <1>9, ParserValues, BrokenReads DEF n, m
  <1> QED BY <1>7 DEF u

\* A turn begins.
LEMMA TurnStartKeeps ==
  ASSUME NEW v, NEW t \in Told, NEW p \in Parser, ~ p.bad, ReadsWell(v, p, t)
  PROVE  /\ TurnStart(p) \in Parser
         /\ ReadsWell(v, TurnStart(p), [t EXCEPT !.newest = NoText])
  <1> DEFINE u == [t EXCEPT !.newest = NoText]
             again == [p.cycle EXCEPT !.text = NoText, !.stop = "", !.error = FALSE,
                                      !.last = NoText, !.lastStop = ""]
             base == IF p.cycle.turn = "ended" THEN again ELSE p.cycle
             c == [base EXCEPT !.turn = "started"]
  <1>1. /\ u.failure = t.failure /\ u.outcome = t.outcome /\ u.waiting = t.waiting
        /\ u.error = t.error
    BY DEF Told
  <1>2. p.cycle \in Cycle
    BY DEF Parser
  <1>3. /\ again \in Cycle /\ again.agent = p.cycle.agent /\ again.answer = p.cycle.answer
        /\ again.fail = p.cycle.fail /\ again.refused = p.cycle.refused
        /\ again.retry = p.cycle.retry
    BY <1>2 DEF Cycle, PiTexts
  <1> HIDE DEF again
  <1>4. /\ base \in Cycle /\ base.agent = p.cycle.agent /\ base.answer = p.cycle.answer
        /\ base.fail = p.cycle.fail /\ base.refused = p.cycle.refused
        /\ base.retry = p.cycle.retry
    BY <1>2, <1>3
  <1> HIDE DEF base
  <1>5. /\ c \in Cycle /\ c.agent = p.cycle.agent /\ c.answer = p.cycle.answer
        /\ c.fail = p.cycle.fail /\ c.refused = p.cycle.refused /\ c.retry = p.cycle.retry
        /\ c.turn = "started"
    BY <1>4 DEF Cycle, Stages
  <1>6. TurnStart(p) = InCycle(p, p.cycle.agent = "started" /\ p.cycle.turn # "started", c)
    BY DEF TurnStart, again, base
  <1> HIDE DEF c, u
  <1>7. p.cycle.agent # "ended" /\ p.cycle.agent = "started" => CycleReads(v, p.sticky, c, u)
    BY <1>1, <1>5 DEF CycleReads, ReadsWell
  <1>8. TurnStart(p) \in Parser /\ ReadsWell(v, TurnStart(p), u)
    BY <1>5, <1>6, <1>7, InCycleReads
  <1> QED BY <1>8 DEF u

\* Messages.
LEMMA MessageKeeps ==
  ASSUME NEW v, NEW t \in Told, NEW p \in Parser, ~ p.bad, ReadsWell(v, p, t)
  PROVE  /\ MessageStart(p) \in Parser /\ ReadsWell(v, MessageStart(p), t)
         /\ MessageUpdate(p) \in Parser /\ ReadsWell(v, MessageUpdate(p), t)
  <1> DEFINE c == [p.cycle EXCEPT !.open = TRUE]
  <1>1. p.cycle \in Cycle /\ CycleReads(v, p.sticky, p.cycle, t)
    BY DEF Parser, ReadsWell
  <1>2. /\ c \in Cycle /\ c.agent = p.cycle.agent /\ c.answer = p.cycle.answer
        /\ c.fail = p.cycle.fail /\ c.refused = p.cycle.refused /\ c.retry = p.cycle.retry
        /\ c.turn = p.cycle.turn /\ c.text = p.cycle.text
    BY <1>1 DEF Cycle
  <1>3. MessageStart(p) = InCycle(p, p.cycle.turn = "started" /\ ~ p.cycle.open, c)
    BY DEF MessageStart
  <1>4. MessageUpdate(p) = InCycle(p, p.cycle.turn = "started", p.cycle)
    BY DEF MessageUpdate
  <1> HIDE DEF c
  <1>5. CycleReads(v, p.sticky, c, t)
    BY <1>1, <1>2 DEF CycleReads
  <1> DEFINE ok == p.cycle.turn = "started" /\ ~ p.cycle.open
             turning == p.cycle.turn = "started"
  <1>6. MessageStart(p) = InCycle(p, ok, c) /\ MessageUpdate(p) = InCycle(p, turning, p.cycle)
    BY <1>3, <1>4
  <1> HIDE DEF ok, turning
  <1>7. MessageStart(p) \in Parser /\ ReadsWell(v, MessageStart(p), t)
    BY <1>2, <1>5, <1>6, InCycleReads
  <1>8. MessageUpdate(p) \in Parser /\ ReadsWell(v, MessageUpdate(p), t)
    BY <1>1, <1>6, InCycleReads
  <1> QED BY <1>7, <1>8

\* A message ends, and may carry the text of an answer.
LEMMA MessageEndKeeps ==
  ASSUME NEW v, NEW t \in Told, NEW p \in Parser, ~ p.bad, ReadsWell(v, p, t),
         NEW assistant \in BOOLEAN, NEW text \in AllTexts, NEW stop \in Stops,
         NEW error \in BOOLEAN
  PROVE  /\ MessageEnd(p, assistant, text, stop, error) \in Parser
         /\ ReadsWell(v, MessageEnd(p, assistant, text, stop, error),
              [t EXCEPT !.failure = @ \/ (assistant /\ (error \/ stop = "failed"))])
  <1> DEFINE u == [t EXCEPT !.failure = @ \/ (assistant /\ (error \/ stop = "failed"))]
             c == IF ~ assistant THEN [p.cycle EXCEPT !.open = FALSE]
                  ELSE [p.cycle EXCEPT !.open = FALSE, !.fail = @ \/ error \/ stop = "failed",
                           !.last = text, !.lastStop = stop]
  <1>1. p.cycle \in Cycle /\ CycleReads(v, p.sticky, p.cycle, t)
    BY DEF Parser, ReadsWell
  <1>2. /\ c \in Cycle /\ c.agent = p.cycle.agent /\ c.answer = p.cycle.answer
        /\ c.refused = p.cycle.refused /\ c.retry = p.cycle.retry
        /\ c.turn = p.cycle.turn /\ c.text = p.cycle.text
        /\ c.fail <=> p.cycle.fail \/ (assistant /\ (error \/ stop = "failed"))
    <2>1. CASE ~ assistant BY <1>1, <2>1 DEF Cycle
    <2>2. CASE assistant BY <1>1, <2>2 DEF Cycle, PiTexts
    <2> QED BY <2>1, <2>2
  <1>3. /\ u.outcome = t.outcome /\ u.waiting = t.waiting /\ u.error = t.error
        /\ u.newest = t.newest /\ u.ended = t.ended
        /\ u.failure <=> t.failure \/ (assistant /\ (error \/ stop = "failed"))
    BY DEF Told
  <1>4. MessageEnd(p, assistant, text, stop, error)
          = InCycle(p, p.cycle.turn = "started" /\ p.cycle.open, c)
    BY DEF MessageEnd
  <1> HIDE DEF c, u
  <1>5. CycleReads(v, p.sticky, c, u)
    BY <1>1, <1>2, <1>3 DEF CycleReads
  <1>6. /\ MessageEnd(p, assistant, text, stop, error) \in Parser
        /\ ReadsWell(v, MessageEnd(p, assistant, text, stop, error), u)
    BY <1>2, <1>4, <1>5, InCycleReads
  <1> QED BY <1>6 DEF u

\* A turn ends, and a cycle ends.
LEMMA TurnEndKeeps ==
  ASSUME NEW v, NEW t \in Told, NEW p \in Parser, ~ p.bad, ReadsWell(v, p, t),
         NEW text \in AllTexts, NEW stop \in Stops, NEW error \in BOOLEAN
  PROVE  /\ TurnEnd(p, text, stop, error) \in Parser
         /\ ReadsWell(v, TurnEnd(p, text, stop, error),
              [t EXCEPT !.newest = text, !.failure = @ \/ error \/ stop = "failed"])
  <1> DEFINE u == [t EXCEPT !.newest = text, !.failure = @ \/ error \/ stop = "failed"]
             c == [p.cycle EXCEPT !.turn = "ended", !.text = text, !.stop = stop,
                      !.error = error, !.fail = @ \/ error \/ stop = "failed"]
  <1>1. p.cycle \in Cycle /\ CycleReads(v, p.sticky, p.cycle, t)
    BY DEF Parser, ReadsWell
  <1>2. /\ c \in Cycle /\ c.agent = p.cycle.agent /\ c.answer = p.cycle.answer
        /\ c.refused = p.cycle.refused /\ c.retry = p.cycle.retry
        /\ c.turn = "ended" /\ c.text = text
        /\ c.fail <=> p.cycle.fail \/ error \/ stop = "failed"
    BY <1>1 DEF Cycle, PiTexts, Stages
  <1>3. /\ u.outcome = t.outcome /\ u.waiting = t.waiting /\ u.error = t.error
        /\ u.newest = text /\ u.ended = t.ended
        /\ u.failure <=> t.failure \/ error \/ stop = "failed"
    BY DEF Told
  <1>4. TurnEnd(p, text, stop, error)
          = InCycle(p, p.cycle.turn = "started" /\ ~ p.cycle.open
                       /\ p.cycle.last \in {NoText, text} /\ p.cycle.lastStop \in {"", stop}, c)
    BY DEF TurnEnd
  <1> HIDE DEF c, u
  <1>5. p.cycle.agent # "ended" /\ p.cycle.turn = "started" => CycleReads(v, p.sticky, c, u)
    BY <1>1, <1>2, <1>3 DEF CycleReads
  <1> DEFINE ok == /\ p.cycle.turn = "started" /\ ~ p.cycle.open
                   /\ p.cycle.last \in {NoText, text} /\ p.cycle.lastStop \in {"", stop}
  <1>7. TurnEnd(p, text, stop, error) = InCycle(p, ok, c) /\ (ok => p.cycle.turn = "started")
    BY <1>4
  <1> HIDE DEF ok
  <1>6. /\ TurnEnd(p, text, stop, error) \in Parser
        /\ ReadsWell(v, TurnEnd(p, text, stop, error), u)
    BY <1>2, <1>5, <1>7, InCycleReads
  <1> QED BY <1>6 DEF u

\* A cycle ends, and what it is worth is settled.
LEMMA AgentEndKeeps ==
  ASSUME NEW v, NEW t \in Told, NEW p \in Parser, ~ p.bad, ReadsWell(v, p, t),
         NEW text \in AllTexts, NEW stop \in Stops, NEW error \in BOOLEAN
  PROVE  /\ AgentEnd(p, text, stop, error) \in Parser
         /\ ReadsWell(v, AgentEnd(p, text, stop, error),
              [t EXCEPT !.ended = TRUE, !.failure = @ \/ error \/ stop = "failed",
                        !.newest = IF @ = text THEN @ ELSE NoText])
  <1> DEFINE u == [t EXCEPT !.ended = TRUE, !.failure = @ \/ error \/ stop = "failed",
                            !.newest = IF @ = text THEN @ ELSE NoText]
             answer == IF stop = "stop" THEN text ELSE p.cycle.answer
             c == [p.cycle EXCEPT !.agent = "ended", !.fail = @ \/ error \/ stop = "failed",
                      !.answer = answer]
  <1>1. p.cycle \in Cycle /\ CycleReads(v, p.sticky, p.cycle, t)
    BY DEF Parser, ReadsWell
  <1>2. /\ c \in Cycle /\ c.agent = "ended"
        /\ c.answer = IF stop = "stop" THEN text ELSE p.cycle.answer
        /\ c.refused = p.cycle.refused /\ c.retry = p.cycle.retry
        /\ c.turn = p.cycle.turn /\ c.text = p.cycle.text
        /\ c.fail <=> p.cycle.fail \/ error \/ stop = "failed"
    <2>1. answer \in PiTexts
      BY <1>1 DEF Cycle, PiTexts
    <2>2. answer = IF stop = "stop" THEN text ELSE p.cycle.answer
      OBVIOUS
    <2> HIDE DEF answer
    <2> QED BY <1>1, <2>1, <2>2 DEF Cycle, Stages
  <1>3. /\ u.outcome = t.outcome /\ u.waiting = t.waiting /\ u.error = t.error
        /\ t.newest = text => u.newest = text
        /\ u.ended
        /\ u.failure <=> t.failure \/ error \/ stop = "failed"
    BY DEF Told
  <1>4. AgentEnd(p, text, stop, error)
          = InCycle(p, p.cycle.turn = "ended" /\ stop = p.cycle.stop /\ text = p.cycle.text
                       /\ error = p.cycle.error /\ stop # "toolUse", c)
    BY DEF AgentEnd
  <1> HIDE DEF c, u
  <1>5. p.cycle.agent # "ended" /\ p.cycle.turn = "ended" /\ text = p.cycle.text
          => CycleReads(v, p.sticky, c, u)
    BY <1>1, <1>2, <1>3 DEF CycleReads
  <1> DEFINE ok == /\ p.cycle.turn = "ended" /\ stop = p.cycle.stop /\ text = p.cycle.text
                   /\ error = p.cycle.error /\ stop # "toolUse"
  <1>7. /\ AgentEnd(p, text, stop, error) = InCycle(p, ok, c)
        /\ ok => p.cycle.turn = "ended" /\ text = p.cycle.text
    BY <1>4
  <1> HIDE DEF ok
  <1>6. /\ AgentEnd(p, text, stop, error) \in Parser
        /\ ReadsWell(v, AgentEnd(p, text, stop, error), u)
    BY <1>2, <1>5, <1>7, InCycleReads
  <1> QED BY <1>6 DEF u

\* What Pi says of its own outcome.
Heard(t, said) == [t EXCEPT !.outcome = @ \/ said = "failed", !.malformed = @ \/ said = "malformed"]
LEMMA OutcomeReads ==
  ASSUME NEW v, NEW t \in Told, NEW p \in Parser, ~ p.bad, ReadsWell(v, p, t),
         NEW said, p.cycle.agent # "none"
  PROVE  /\ Outcome(v, p, said) \in Parser
         /\ ReadsWell(v, Outcome(v, p, said), Heard(t, said))
  <1>0. CASE v = "outcome" /\ said = "malformed"
    BY <1>0, ParserValues, BrokenReads DEF Outcome
  <1>a. CASE ~ (v = "outcome" /\ said = "malformed")
    <2> DEFINE u == Heard(t, said)
               c == [p.cycle EXCEPT !.refused = @ \/ (v = "outcome" /\ said = "failed")]
    <2>1. p.cycle \in Cycle /\ CycleReads(v, p.sticky, p.cycle, t)
      BY DEF Parser, ReadsWell
    <2>2. /\ c \in Cycle /\ c.agent = p.cycle.agent /\ c.answer = p.cycle.answer
          /\ c.fail = p.cycle.fail /\ c.retry = p.cycle.retry
          /\ c.turn = p.cycle.turn /\ c.text = p.cycle.text
          /\ c.refused <=> p.cycle.refused \/ (v = "outcome" /\ said = "failed")
      BY <2>1 DEF Cycle
    <2>3. /\ u.failure = t.failure /\ u.waiting = t.waiting /\ u.error = t.error
          /\ u.newest = t.newest /\ u.ended = t.ended
          /\ u.outcome <=> t.outcome \/ said = "failed"
      BY DEF Told, Heard
    <2>4. Outcome(v, p, said) = [p EXCEPT !.cycle = c]
      BY <1>a DEF Outcome
    <2> HIDE DEF c, u
    <2>5. CycleReads(v, p.sticky, c, u)
      BY <2>1, <2>2, <2>3 DEF CycleReads
    <2>6. Outcome(v, p, said) \in Parser /\ ReadsWell(v, Outcome(v, p, said), u)
      BY <2>2, <2>4, <2>5, AnotherCycle DEF ReadsWell
    <2> QED BY <2>6 DEF u
  <1> QED BY <1>0, <1>a

\* An outcome that Pi states is read by both revisions.
LEMMA OutcomesKeep ==
  ASSUME NEW v, NEW t \in Told, NEW p \in Parser, ~ p.bad, ReadsWell(v, p, t), NEW said
  PROVE  /\ RetryEnd(v, p, said) \in Parser
         /\ ReadsWell(v, RetryEnd(v, p, said), Heard(t, said))
         /\ SettledRead(v, p, said) \in Parser
         /\ ReadsWell(v, SettledRead(v, p, said), Heard(t, said))
  <1> DEFINE s == [p EXCEPT !.settled = TRUE]
  <1>1. CASE p.cycle.agent = "none"
    <2>1. RetryEnd(v, p, said) = Broken /\ SettledRead(v, p, said) = Broken
      BY <1>1 DEF RetryEnd, SettledRead, Accept
    <2> QED BY <2>1, ParserValues, BrokenReads
  <1>2. CASE p.cycle.agent # "none"
    <2>1. s \in Parser /\ ~ s.bad /\ s.cycle = p.cycle /\ s.sticky = p.sticky
      BY DEF Parser
    <2>2. /\ RetryEnd(v, p, said) \in {Outcome(v, p, said), Broken}
          /\ SettledRead(v, p, said) \in {Outcome(v, s, said), Broken}
      BY DEF RetryEnd, SettledRead, Accept
    <2> HIDE DEF s
    <2>3. ReadsWell(v, s, t)
      BY <2>1 DEF ReadsWell
    <2>4. Outcome(v, s, said) \in Parser /\ ReadsWell(v, Outcome(v, s, said), Heard(t, said))
      BY <1>2, <2>1, <2>3, OutcomeReads
    <2>5. Outcome(v, p, said) \in Parser /\ ReadsWell(v, Outcome(v, p, said), Heard(t, said))
      BY <1>2, OutcomeReads
    <2> QED BY <2>2, <2>4, <2>5, ParserValues, BrokenReads
  <1> QED BY <1>1, <1>2

\* A retry is announced, the process reports an error, or says who it is.
LEMMA SaysKeep ==
  ASSUME NEW v, NEW t \in Told, NEW p \in Parser, ~ p.bad, ReadsWell(v, p, t)
  PROVE  /\ RetryStart(p) \in Parser /\ ReadsWell(v, RetryStart(p), [t EXCEPT !.waiting = TRUE])
         /\ ErrorRead(p) \in Parser /\ ReadsWell(v, ErrorRead(p), [t EXCEPT !.error = TRUE])
         /\ SessionInfo(v, p) \in Parser
         /\ ReadsWell(v, SessionInfo(v, p), [t EXCEPT !.info = TRUE])
  <1> DEFINE w == [t EXCEPT !.waiting = TRUE]
             e == [t EXCEPT !.error = TRUE]
             i == [t EXCEPT !.info = TRUE]
             c == [p.cycle EXCEPT !.retry = TRUE]
             d == [p.cycle EXCEPT !.fail = TRUE]
             m == [p EXCEPT !.cycle = c]
             n == [p EXCEPT !.cycle.fail = TRUE, !.sticky = TRUE]
  <1>1. p.cycle \in Cycle /\ CycleReads(v, p.sticky, p.cycle, t)
    BY DEF Parser, ReadsWell
  <1>2. /\ c \in Cycle /\ c.agent = p.cycle.agent /\ c.answer = p.cycle.answer
        /\ c.fail = p.cycle.fail /\ c.refused = p.cycle.refused
        /\ c.turn = p.cycle.turn /\ c.text = p.cycle.text /\ c.retry
    BY <1>1 DEF Cycle
  <1>3. /\ d \in Cycle /\ d.agent = p.cycle.agent /\ d.answer = p.cycle.answer
        /\ d.retry = p.cycle.retry /\ d.refused = p.cycle.refused
        /\ d.turn = p.cycle.turn /\ d.text = p.cycle.text /\ d.fail
    BY <1>1 DEF Cycle
  <1>4. /\ w.failure = t.failure /\ w.error = t.error /\ w.outcome = t.outcome
        /\ w.newest = t.newest /\ w.ended = t.ended
        /\ e.failure = t.failure /\ e.waiting = t.waiting /\ e.outcome = t.outcome
        /\ e.newest = t.newest /\ e.ended = t.ended
        /\ i.failure = t.failure /\ i.waiting = t.waiting /\ i.outcome = t.outcome
        /\ i.newest = t.newest /\ i.ended = t.ended /\ i.error = t.error
    BY DEF Told
  <1>5. RetryStart(p) \in {m, Broken} /\ ErrorRead(p) \in {n, Broken}
        /\ SessionInfo(v, p) \in {p, Broken}
    BY DEF RetryStart, ErrorRead, SessionInfo, Accept
  <1>6. n \in Parser /\ n.cycle = d /\ n.sticky
    BY <1>3 DEF Parser
  <1> HIDE DEF c, d, n, w, e, i
  <1>7. /\ CycleReads(v, p.sticky, c, w) /\ CycleReads(v, TRUE, d, e)
        /\ CycleReads(v, p.sticky, p.cycle, i)
    BY <1>1, <1>2, <1>3, <1>4 DEF CycleReads
  <1>8. m \in Parser /\ m.cycle = c /\ m.sticky = p.sticky
    BY <1>2, AnotherCycle
  <1> HIDE DEF m
  <1>9. /\ RetryStart(p) \in Parser /\ ReadsWell(v, RetryStart(p), w)
        /\ ErrorRead(p) \in Parser /\ ReadsWell(v, ErrorRead(p), e)
        /\ SessionInfo(v, p) \in Parser /\ ReadsWell(v, SessionInfo(v, p), i)
    BY <1>5, <1>6, <1>7, <1>8, ParserValues, BrokenReads DEF ReadsWell
  <1> QED BY <1>9 DEF w, e, i

\* Twins whose cycles change alike stay twins.
LEMMA AnotherTwins ==
  ASSUME NEW p \in Parser, NEW q \in Parser, ~ p.bad, Twins(p, q),
         NEW c \in Cycle, NEW d \in Cycle, CycleTwins(c, d)
  PROVE  Twins([p EXCEPT !.cycle = c], [q EXCEPT !.cycle = d])
  <1> DEFINE n == [p EXCEPT !.cycle = c]
             m == [q EXCEPT !.cycle = d]
  <1>1. /\ n.cycle = c /\ n.bad = p.bad /\ n.session = p.session /\ n.sticky = p.sticky
        /\ n.settled = p.settled
        /\ m.cycle = d /\ m.bad = q.bad /\ m.session = q.session /\ m.sticky = q.sticky
        /\ m.settled = q.settled
    BY AnotherCycle
  <1> HIDE DEF n, m
  <1>2. Twins(n, m)
    BY <1>1 DEF Twins
  <1> QED BY <1>2 DEF n, m

\* No event that both revisions know tells their parsers apart: the starts,
LEMMA StartTwins ==
  ASSUME NEW p \in Parser, NEW q \in Parser, ~ p.bad, Twins(p, q)
  PROVE  /\ Twins(SessionRead(p), SessionRead(q)) /\ Twins(AgentStart(p), AgentStart(q))
         /\ Twins(TurnStart(p), TurnStart(q))
  <1>1. /\ p.cycle \in Cycle /\ q.cycle \in Cycle /\ CycleTwins(p.cycle, q.cycle)
        /\ p.session = q.session /\ p.sticky = q.sticky /\ p.settled = q.settled /\ ~ q.bad
    BY DEF Parser, Twins
  <1>0. p.cycle \in Cycle /\ q.cycle \in Cycle
    BY DEF Parser
  <1>2. Twins(SessionRead(p), SessionRead(q))
    <2> DEFINE n == [p EXCEPT !.session = TRUE]
               m == [q EXCEPT !.session = TRUE]
    <2>1. /\ n.cycle = p.cycle /\ n.bad = p.bad /\ n.sticky = p.sticky /\ n.settled = p.settled
          /\ m.cycle = q.cycle /\ m.bad = q.bad /\ m.sticky = q.sticky /\ m.settled = q.settled
          /\ n.session = m.session
      BY DEF Parser
    <2> HIDE DEF n, m
    <2>2. Twins(n, m)
      BY <1>1, <2>1 DEF Twins
    <2>3. p.cycle.agent = q.cycle.agent
      BY <1>1 DEF CycleTwins
    <2> QED BY <1>1, <2>2, <2>3, BrokenReads DEF SessionRead, Accept, n, m
  <1>3. Twins(AgentStart(p), AgentStart(q))
    <2> DEFINE b == [NewCycle EXCEPT !.agent = "started", !.fail = p.sticky]
               c == [p.cycle EXCEPT !.agent = "started"]
               d == [q.cycle EXCEPT !.agent = "started"]
    <2>1. b \in Cycle
      <3>1. NewCycle \in Cycle /\ p.sticky \in BOOLEAN
        BY ParserValues DEF Parser
      <3> QED BY <3>1 DEF Cycle, Stages
    <2>2. c \in Cycle /\ d \in Cycle /\ CycleTwins(c, d)
      BY <1>1 DEF CycleTwins, Cycle, Stages
    <2>3. p.cycle.agent = q.cycle.agent
      BY <1>1 DEF CycleTwins
    <2>4. b = [NewCycle EXCEPT !.agent = "started", !.fail = q.sticky] /\ CycleTwins(b, b)
      BY <1>1 DEF CycleTwins
    <2>5. /\ AgentStart(p) = Accept(p, [p EXCEPT !.cycle = b],
                IF ~ p.session \/ p.cycle.agent # "none" THEN Broken ELSE [p EXCEPT !.cycle = c])
          /\ AgentStart(q) = Accept(q, [q EXCEPT !.cycle = b],
                IF ~ q.session \/ q.cycle.agent # "none" THEN Broken ELSE [q EXCEPT !.cycle = d])
      BY <2>4 DEF AgentStart
    <2> HIDE DEF b, c, d
    <2>6. Twins([p EXCEPT !.cycle = b], [q EXCEPT !.cycle = b])
      BY <2>1, <2>4, AnotherTwins
    <2>7. Twins([p EXCEPT !.cycle = c], [q EXCEPT !.cycle = d])
      BY <2>2, AnotherTwins
    <2> QED BY <1>1, <2>3, <2>5, <2>6, <2>7, BrokenReads DEF Accept
  <1>4. Twins(TurnStart(p), TurnStart(q))
    <2> DEFINE a(x) == IF x.cycle.turn = "ended"
                       THEN [x.cycle EXCEPT !.text = NoText, !.stop = "", !.error = FALSE,
                                            !.last = NoText, !.lastStop = ""]
                       ELSE x.cycle
    <2>1. a(p) \in Cycle /\ a(q) \in Cycle /\ CycleTwins(a(p), a(q))
      <3>1. p.cycle.turn = q.cycle.turn
        BY <1>1 DEF CycleTwins
      <3>2. CASE p.cycle.turn = "ended"
        <4>1. a(p) \in Cycle
          BY <1>0, <3>2 DEF Cycle, PiTexts
        <4>2. a(q) \in Cycle
          <5>1. q.cycle.turn = "ended"
            BY <3>1, <3>2
          <5> QED BY <1>0, <5>1 DEF Cycle, PiTexts
        <4>3. CycleTwins(a(p), a(q))
          BY <1>1, <3>1, <3>2 DEF CycleTwins, Cycle
        <4> QED BY <4>1, <4>2, <4>3
      <3> QED BY <1>1, <3>1, <3>2
    <2> HIDE DEF a
    <2> DEFINE c == [a(p) EXCEPT !.turn = "started"]
               d == [a(q) EXCEPT !.turn = "started"]
               ok == p.cycle.agent = "started" /\ p.cycle.turn # "started"
    <2>2. c \in Cycle /\ d \in Cycle /\ CycleTwins(c, d)
      BY <2>1 DEF CycleTwins, Cycle, Stages
    <2>3. TurnStart(p) = InCycle(p, ok, c) /\ TurnStart(q) = InCycle(q, ok, d)
      <3>1. p.cycle.agent = q.cycle.agent /\ p.cycle.turn = q.cycle.turn
        BY <1>1 DEF CycleTwins
      <3>2. TurnStart(p) = InCycle(p, ok, c)
        BY DEF TurnStart, a
      <3>3. TurnStart(q) = InCycle(q, q.cycle.agent = "started" /\ q.cycle.turn # "started", d)
        BY DEF TurnStart, a
      <3> QED BY <3>1, <3>2, <3>3
    <2> HIDE DEF c, d, ok
    <2> QED BY <2>2, <2>3, InCycleTwins
  <1> QED BY <1>2, <1>3, <1>4

\* What the ends of messages and turns make of a cycle.
LEMMA EndedCycles ==
  ASSUME NEW c \in Cycle, NEW text \in AllTexts, NEW stop \in Stops, NEW error \in BOOLEAN
  PROVE  /\ [c EXCEPT !.open = FALSE, !.fail = @ \/ error \/ stop = "failed", !.last = text,
                      !.lastStop = stop] \in Cycle
         /\ [c EXCEPT !.turn = "ended", !.text = text, !.stop = stop, !.error = error,
                      !.fail = @ \/ error \/ stop = "failed"] \in Cycle
  <1>1. text \in PiTexts /\ stop \in Stops \cup {""} /\ "ended" \in Stages
    BY DEF PiTexts, Stages
  <1>2. (c.fail \/ error \/ (stop = "failed")) \in BOOLEAN
    OBVIOUS
  <1>3. [c EXCEPT !.open = FALSE, !.fail = @ \/ error \/ stop = "failed", !.last = text,
                      !.lastStop = stop] \in Cycle
    BY <1>1, <1>2 DEF Cycle
  <1>4. [c EXCEPT !.turn = "ended", !.text = text, !.stop = stop, !.error = error,
                      !.fail = @ \/ error \/ stop = "failed"] \in Cycle
    BY <1>1, <1>2 DEF Cycle
  <1> QED BY <1>3, <1>4

\* the messages and ends,
LEMMA EndTwins ==
  ASSUME NEW p \in Parser, NEW q \in Parser, ~ p.bad, Twins(p, q), NEW assistant \in BOOLEAN,
         NEW text \in AllTexts, NEW stop \in Stops, NEW error \in BOOLEAN
  PROVE  /\ Twins(MessageStart(p), MessageStart(q)) /\ Twins(MessageUpdate(p), MessageUpdate(q))
         /\ Twins(MessageEnd(p, assistant, text, stop, error),
                  MessageEnd(q, assistant, text, stop, error))
         /\ Twins(TurnEnd(p, text, stop, error), TurnEnd(q, text, stop, error))
         /\ Twins(AgentEnd(p, text, stop, error), AgentEnd(q, text, stop, error))
  <1>0. p.cycle \in Cycle /\ q.cycle \in Cycle
    BY DEF Parser
  <1>1. /\ p.cycle \in Cycle /\ q.cycle \in Cycle /\ CycleTwins(p.cycle, q.cycle)
    BY DEF Parser, Twins
  <1>2. Twins(MessageStart(p), MessageStart(q))
    <2> DEFINE c == [p.cycle EXCEPT !.open = TRUE]
               d == [q.cycle EXCEPT !.open = TRUE]
               ok == p.cycle.turn = "started" /\ ~ p.cycle.open
    <2>1. c \in Cycle /\ d \in Cycle /\ CycleTwins(c, d)
      BY <1>1 DEF CycleTwins, Cycle
    <2>2. MessageStart(p) = InCycle(p, ok, c) /\ MessageStart(q) = InCycle(q, ok, d)
      BY <1>1 DEF MessageStart, CycleTwins
    <2> HIDE DEF c, d, ok
    <2> QED BY <2>1, <2>2, InCycleTwins
  <1>3. Twins(MessageUpdate(p), MessageUpdate(q))
    <2> DEFINE ok == p.cycle.turn = "started"
    <2>1. MessageUpdate(p) = InCycle(p, ok, p.cycle) /\ MessageUpdate(q) = InCycle(q, ok, q.cycle)
      BY <1>1 DEF MessageUpdate, CycleTwins
    <2> HIDE DEF ok
    <2> QED BY <1>1, <2>1, InCycleTwins
  <1>4. Twins(MessageEnd(p, assistant, text, stop, error),
              MessageEnd(q, assistant, text, stop, error))
    <2> DEFINE c(x) == IF ~ assistant THEN [x.cycle EXCEPT !.open = FALSE]
                       ELSE [x.cycle EXCEPT !.open = FALSE,
                               !.fail = @ \/ error \/ stop = "failed",
                               !.last = text, !.lastStop = stop]
               ok == p.cycle.turn = "started" /\ p.cycle.open
    <2>1. c(p) \in Cycle /\ c(q) \in Cycle /\ CycleTwins(c(p), c(q))
      <3>1. CASE assistant
        <4>1. c(p) \in Cycle
          BY <1>0, <3>1, EndedCycles
        <4>2. c(q) \in Cycle
          BY <1>0, <3>1, EndedCycles
        <4>3. CycleTwins(c(p), c(q))
          BY <1>1, <3>1 DEF CycleTwins, Cycle
        <4> QED BY <4>1, <4>2, <4>3
      <3>2. CASE ~ assistant BY <1>1, <3>2 DEF CycleTwins, Cycle
      <3> QED BY <3>1, <3>2
    <2>2. /\ MessageEnd(p, assistant, text, stop, error) = InCycle(p, ok, c(p))
          /\ MessageEnd(q, assistant, text, stop, error) = InCycle(q, ok, c(q))
      BY <1>1 DEF MessageEnd, CycleTwins
    <2> HIDE DEF c, ok
    <2> QED BY <2>1, <2>2, InCycleTwins
  <1>5. Twins(TurnEnd(p, text, stop, error), TurnEnd(q, text, stop, error))
    <2> DEFINE c == [p.cycle EXCEPT !.turn = "ended", !.text = text, !.stop = stop,
                        !.error = error, !.fail = @ \/ error \/ stop = "failed"]
               d == [q.cycle EXCEPT !.turn = "ended", !.text = text, !.stop = stop,
                        !.error = error, !.fail = @ \/ error \/ stop = "failed"]
               ok == p.cycle.turn = "started" /\ ~ p.cycle.open
                     /\ p.cycle.last \in {NoText, text} /\ p.cycle.lastStop \in {"", stop}
    <2>1. c \in Cycle /\ d \in Cycle /\ CycleTwins(c, d)
      <3>1. c \in Cycle
        BY <1>0, EndedCycles
      <3>2. d \in Cycle
        BY <1>0, EndedCycles
      <3>3. CycleTwins(c, d)
        BY <1>1 DEF CycleTwins, Cycle
      <3> QED BY <3>1, <3>2, <3>3
    <2>2. TurnEnd(p, text, stop, error) = InCycle(p, ok, c)
          /\ TurnEnd(q, text, stop, error) = InCycle(q, ok, d)
      BY <1>1 DEF TurnEnd, CycleTwins
    <2> HIDE DEF c, d, ok
    <2> QED BY <2>1, <2>2, InCycleTwins
  <1>6. Twins(AgentEnd(p, text, stop, error), AgentEnd(q, text, stop, error))
    <2> DEFINE a(x) == IF stop = "stop" THEN text ELSE x.cycle.answer
               c(x) == [x.cycle EXCEPT !.agent = "ended", !.fail = @ \/ error \/ stop = "failed",
                                       !.answer = a(x)]
               ok == p.cycle.turn = "ended" /\ stop = p.cycle.stop /\ text = p.cycle.text
                     /\ error = p.cycle.error /\ stop # "toolUse"
    <2>1. /\ AgentEnd(p, text, stop, error) = InCycle(p, ok, c(p))
          /\ AgentEnd(q, text, stop, error) = InCycle(q, ok, c(q))
      BY <1>1 DEF AgentEnd, CycleTwins
    <2>2. a(p) \in PiTexts /\ a(q) = a(p)
      BY <1>1 DEF Cycle, PiTexts, CycleTwins
    <2> HIDE DEF a, ok
    <2>3. c(p) \in Cycle /\ c(q) \in Cycle /\ CycleTwins(c(p), c(q))
      <3>1. c(p) \in Cycle
        BY <1>1, <2>2 DEF Cycle, Stages
      <3>2. c(q) \in Cycle
        BY <1>1, <2>2 DEF Cycle, Stages
      <3>3. CycleTwins(c(p), c(q))
        BY <1>1, <2>2 DEF CycleTwins, Cycle
      <3> QED BY <3>1, <3>2, <3>3
    <2> HIDE DEF c
    <2> QED BY <2>1, <2>3, InCycleTwins
  <1> QED BY <1>2, <1>3, <1>4, <1>5, <1>6

\* and what Pi says of itself, if it can be read.
LEMMA OutcomeAlike ==
  ASSUME NEW p \in Parser, NEW q \in Parser, ~ p.bad, Twins(p, q), NEW said
  PROVE  \/ Twins(Outcome("prior", p, said), Outcome("outcome", q, said))
         \/ said = "malformed" /\ Outcome("outcome", q, said) = Broken
  <1>1. CASE said = "malformed" BY <1>1 DEF Outcome
  <1>2. CASE said # "malformed"
    <2> DEFINE c == [p.cycle EXCEPT !.refused = @ \/ ("prior" = "outcome" /\ said = "failed")]
               d == [q.cycle EXCEPT !.refused = @ \/ ("outcome" = "outcome" /\ said = "failed")]
    <2>1. p.cycle \in Cycle /\ q.cycle \in Cycle /\ CycleTwins(p.cycle, q.cycle)
      BY DEF Parser, Twins
    <2>2. c \in Cycle /\ d \in Cycle /\ CycleTwins(c, d)
      BY <2>1 DEF CycleTwins, Cycle
    <2>3. /\ Outcome("prior", p, said) = [p EXCEPT !.cycle = c]
          /\ Outcome("outcome", q, said) = [q EXCEPT !.cycle = d]
      BY <1>2 DEF Outcome
    <2> HIDE DEF c, d
    <2> QED BY <2>2, <2>3, AnotherTwins
  <1> QED BY <1>1, <1>2

LEMMA OutcomeTwins ==
  ASSUME NEW p \in Parser, NEW q \in Parser, ~ p.bad, Twins(p, q), NEW said
  PROVE  /\ Twins(RetryStart(p), RetryStart(q)) /\ Twins(ErrorRead(p), ErrorRead(q))
         /\ \/ Twins(RetryEnd("prior", p, said), RetryEnd("outcome", q, said))
            \/ said = "malformed" /\ RetryEnd("outcome", q, said) = Broken
         /\ \/ Twins(SettledRead("prior", p, said), SettledRead("outcome", q, said))
            \/ said = "malformed" /\ SettledRead("outcome", q, said) = Broken
  <1>1. /\ p.cycle \in Cycle /\ q.cycle \in Cycle /\ CycleTwins(p.cycle, q.cycle)
        /\ p.session = q.session /\ p.sticky = q.sticky /\ p.settled = q.settled
        /\ ~ q.bad /\ p.cycle.agent = q.cycle.agent /\ p.cycle.fail = q.cycle.fail
        /\ p.cycle.retry = q.cycle.retry
    BY DEF Parser, Twins, CycleTwins
  <1>2. Twins(RetryStart(p), RetryStart(q))
    <2> DEFINE c == [p.cycle EXCEPT !.retry = TRUE]
               d == [q.cycle EXCEPT !.retry = TRUE]
    <2>1. c \in Cycle /\ d \in Cycle /\ CycleTwins(c, d)
      BY <1>1 DEF CycleTwins, Cycle
    <2>2. /\ RetryStart(p) = Accept(p, IF p.cycle.retry THEN Broken ELSE [p EXCEPT !.cycle = c],
                                    Broken)
          /\ RetryStart(q) = Accept(q, IF q.cycle.retry THEN Broken ELSE [q EXCEPT !.cycle = d],
                                    Broken)
      BY DEF RetryStart
    <2> HIDE DEF c, d
    <2>3. Twins([p EXCEPT !.cycle = c], [q EXCEPT !.cycle = d])
      BY <2>1, AnotherTwins
    <2> QED BY <1>1, <2>2, <2>3, BrokenReads DEF Accept
  <1>3. Twins(ErrorRead(p), ErrorRead(q))
    <2> DEFINE c == [p.cycle EXCEPT !.fail = TRUE]
               d == [q.cycle EXCEPT !.fail = TRUE]
               n == [p EXCEPT !.cycle.fail = TRUE, !.sticky = TRUE]
               m == [q EXCEPT !.cycle.fail = TRUE, !.sticky = TRUE]
    <2>1. CycleTwins(c, d)
      BY <1>1 DEF CycleTwins, Cycle
    <2>2. /\ n.cycle = c /\ n.bad = p.bad /\ n.session = p.session /\ n.settled = p.settled
          /\ m.cycle = d /\ m.bad = q.bad /\ m.session = q.session /\ m.settled = q.settled
          /\ n.sticky = m.sticky
      BY DEF Parser
    <2> HIDE DEF c, d, n, m
    <2>3. Twins(n, m)
      BY <1>1, <2>1, <2>2 DEF Twins
    <2> QED BY <1>1, <2>3, BrokenReads DEF ErrorRead, n, m
  <1>5. \/ Twins(RetryEnd("prior", p, said), RetryEnd("outcome", q, said))
        \/ said = "malformed" /\ RetryEnd("outcome", q, said) = Broken
    BY <1>1, OutcomeAlike, BrokenReads DEF RetryEnd, Accept
  <1>6. \/ Twins(SettledRead("prior", p, said), SettledRead("outcome", q, said))
        \/ said = "malformed" /\ SettledRead("outcome", q, said) = Broken
    <2> DEFINE n == [p EXCEPT !.settled = TRUE]
               m == [q EXCEPT !.settled = TRUE]
    <2>1. /\ SettledRead("prior", p, said) = Accept(p, Outcome("prior", n, said), Broken)
          /\ SettledRead("outcome", q, said) = Accept(q, Outcome("outcome", m, said), Broken)
      BY DEF SettledRead
    <2>2. /\ n.cycle = p.cycle /\ n.bad = p.bad /\ n.session = p.session /\ n.sticky = p.sticky
          /\ m.cycle = q.cycle /\ m.bad = q.bad /\ m.session = q.session /\ m.sticky = q.sticky
          /\ n.settled = m.settled /\ n \in Parser /\ m \in Parser
      BY DEF Parser
    <2> HIDE DEF n, m
    <2>3. Twins(n, m) /\ ~ n.bad
      BY <1>1, <2>2 DEF Twins
    <2>4. \/ Twins(Outcome("prior", n, said), Outcome("outcome", m, said))
          \/ said = "malformed" /\ Outcome("outcome", m, said) = Broken
      BY <2>2, <2>3, OutcomeAlike
    <2> QED BY <1>1, <2>1, <2>4, BrokenReads DEF Accept
  <1> QED BY <1>2, <1>3, <1>5, <1>6

\* An event that leaves both parsers right leaves the whole stream right.
LEMMA EventKeeps ==
  ASSUME PiInv, NEW p, NEW q,
         ~ parsers["prior"].bad => p \in Parser /\ ReadsWell("prior", p, told'),
         ~ parsers["outcome"].bad => q \in Parser /\ ReadsWell("outcome", q, told'),
         ~ parsers["prior"].bad /\ ~ parsers["outcome"].bad =>
            Twins(p, q) \/ (p.bad /\ told'.info) \/ (q.bad /\ told'.malformed),
         told.malformed => told'.malformed,
         ~ parsers["outcome"].bad => told'.malformed = told.malformed \/ q.bad,
         parsers' = [v \in Versions |-> IF parsers[v].bad THEN parsers[v]
                                        ELSE IF v = "prior" THEN p ELSE q],
         told' \in Told, told.info => told'.info, UNCHANGED exit
  PROVE  PiInv'
  <1> USE DEF PiInv, Versions
  <1> DEFINE P == parsers'["prior"]
             Q == parsers'["outcome"]
  <1>1. /\ P = IF parsers["prior"].bad THEN parsers["prior"] ELSE p
        /\ Q = IF parsers["outcome"].bad THEN parsers["outcome"] ELSE q
    OBVIOUS
  <1>2. P \in Parser /\ Q \in Parser
    BY <1>1
  <1>3. parsers' \in [Versions -> Parser]
    BY <1>1, <1>2
  <1>4. ReadsWell("prior", P, told') /\ ReadsWell("outcome", Q, told')
    BY <1>1 DEF ReadsWell
  <1>5. ~ P.bad /\ ~ Q.bad => Twins(P, Q)
    BY <1>1
  <1>6. P.bad /\ ~ Q.bad => told'.info
    BY <1>1 DEF Twins
  <1>7. told'.malformed => Q.bad
    BY <1>1
  <1>8. ~ P.bad /\ Q.bad => told'.malformed
    BY <1>1 DEF Twins
  <1> QED BY <1>3, <1>4, <1>5, <1>6, <1>7, <1>8

\* Every line of the stream keeps the invariant.
LEMMA StreamKeeps ==
  ASSUME PiInv, PiNext
  PROVE  PiInv'
  <1> DEFINE p == parsers["prior"]
             q == parsers["outcome"]
  <1>1. /\ "prior" \in Versions /\ "outcome" \in Versions /\ told \in Told
        /\ p \in Parser /\ q \in Parser
        /\ ReadsWell("prior", p, told) /\ ReadsWell("outcome", q, told)
        /\ ~ p.bad /\ ~ q.bad => Twins(p, q)
    BY DEF PiInv, Versions, Twins
  <1>2. \E x \in AllTexts, s \in Stops, b \in BOOLEAN : TRUE
    BY DEF AllTexts, Stops
  <1>3. ASSUME NEW a, NEW b,
               parsers' = [v \in Versions |-> IF parsers[v].bad THEN parsers[v]
                                              ELSE IF v = "prior" THEN a ELSE b],
               told' \in Told, told.info => told'.info, UNCHANGED exit,
               ~ p.bad => a \in Parser /\ ReadsWell("prior", a, told'),
               ~ q.bad => b \in Parser /\ ReadsWell("outcome", b, told'),
               told.malformed => told'.malformed,
               ~ q.bad => told'.malformed = told.malformed \/ b.bad,
               ~ p.bad /\ ~ q.bad =>
                  Twins(a, b) \/ (a.bad /\ told'.info) \/ (b.bad /\ told'.malformed)
        PROVE  PiInv'
    BY <1>3, EventKeeps
  <1>4. CASE ReadSession
    <2> DEFINE a == SessionRead(p)
               b == SessionRead(q)
    <2>1. parsers' = [v \in Versions |-> IF parsers[v].bad THEN parsers[v]
                                             ELSE IF v = "prior" THEN a ELSE b]
      BY <1>4 DEF ReadSession, ReadAll, Versions
    <2>2. /\ told' \in Told /\ told'.info = told.info /\ UNCHANGED exit
          /\ told'.malformed = told.malformed
      BY <1>1, <1>4 DEF ReadSession, ReadAll
    <2>3. ~ p.bad => a \in Parser /\ ReadsWell("prior", a, told')
      BY <1>1, <1>4, SessionKeeps DEF ReadSession
    <2>4. ~ q.bad => b \in Parser /\ ReadsWell("outcome", b, told')
      BY <1>1, <1>4, SessionKeeps DEF ReadSession
    <2>5. ~ p.bad /\ ~ q.bad => Twins(a, b)
      BY <1>1, <1>2, <1>4, StartTwins
    <2> HIDE DEF a, b, p, q
    <2> QED BY <1>3, <2>1, <2>2, <2>3, <2>4, <2>5
  <1>5. CASE ReadAgentStart
    <2> DEFINE a == AgentStart(p)
               b == AgentStart(q)
    <2>1. parsers' = [v \in Versions |-> IF parsers[v].bad THEN parsers[v]
                                             ELSE IF v = "prior" THEN a ELSE b]
      BY <1>5 DEF ReadAgentStart, ReadAll, Versions
    <2>2. /\ told' \in Told /\ told'.info = told.info /\ UNCHANGED exit
          /\ told'.malformed = told.malformed
      BY <1>1, <1>5 DEF ReadAgentStart, ReadAll, Told, PiTexts
    <2>3. ~ p.bad => a \in Parser /\ ReadsWell("prior", a, told')
      BY <1>1, <1>5, AgentStartKeeps DEF ReadAgentStart
    <2>4. ~ q.bad => b \in Parser /\ ReadsWell("outcome", b, told')
      BY <1>1, <1>5, AgentStartKeeps DEF ReadAgentStart
    <2>5. ~ p.bad /\ ~ q.bad => Twins(a, b)
      BY <1>1, <1>2, <1>5, StartTwins
    <2> HIDE DEF a, b, p, q
    <2> QED BY <1>3, <2>1, <2>2, <2>3, <2>4, <2>5
  <1>6. CASE ReadTurnStart
    <2> DEFINE a == TurnStart(p)
               b == TurnStart(q)
    <2>1. parsers' = [v \in Versions |-> IF parsers[v].bad THEN parsers[v]
                                             ELSE IF v = "prior" THEN a ELSE b]
      BY <1>6 DEF ReadTurnStart, ReadAll, Versions
    <2>2. /\ told' \in Told /\ told'.info = told.info /\ UNCHANGED exit
          /\ told'.malformed = told.malformed
      BY <1>1, <1>6 DEF ReadTurnStart, ReadAll, Told, PiTexts
    <2>3. ~ p.bad => a \in Parser /\ ReadsWell("prior", a, told')
      BY <1>1, <1>6, TurnStartKeeps DEF ReadTurnStart
    <2>4. ~ q.bad => b \in Parser /\ ReadsWell("outcome", b, told')
      BY <1>1, <1>6, TurnStartKeeps DEF ReadTurnStart
    <2>5. ~ p.bad /\ ~ q.bad => Twins(a, b)
      BY <1>1, <1>2, <1>6, StartTwins
    <2> HIDE DEF a, b, p, q
    <2> QED BY <1>3, <2>1, <2>2, <2>3, <2>4, <2>5
  <1>7. CASE ReadMessageStart
    <2> DEFINE a == MessageStart(p)
               b == MessageStart(q)
    <2>1. parsers' = [v \in Versions |-> IF parsers[v].bad THEN parsers[v]
                                             ELSE IF v = "prior" THEN a ELSE b]
      BY <1>7 DEF ReadMessageStart, ReadAll, Versions
    <2>2. /\ told' \in Told /\ told'.info = told.info /\ UNCHANGED exit
          /\ told'.malformed = told.malformed
      BY <1>1, <1>7 DEF ReadMessageStart, ReadAll
    <2>3. ~ p.bad => a \in Parser /\ ReadsWell("prior", a, told')
      BY <1>1, <1>7, MessageKeeps DEF ReadMessageStart
    <2>4. ~ q.bad => b \in Parser /\ ReadsWell("outcome", b, told')
      BY <1>1, <1>7, MessageKeeps DEF ReadMessageStart
    <2>5. ~ p.bad /\ ~ q.bad => Twins(a, b)
      BY <1>1, <1>2, <1>7, EndTwins
    <2> HIDE DEF a, b, p, q
    <2> QED BY <1>3, <2>1, <2>2, <2>3, <2>4, <2>5
  <1>8. CASE ReadMessageUpdate
    <2> DEFINE a == MessageUpdate(p)
               b == MessageUpdate(q)
    <2>1. parsers' = [v \in Versions |-> IF parsers[v].bad THEN parsers[v]
                                             ELSE IF v = "prior" THEN a ELSE b]
      BY <1>8 DEF ReadMessageUpdate, ReadAll, Versions
    <2>2. /\ told' \in Told /\ told'.info = told.info /\ UNCHANGED exit
          /\ told'.malformed = told.malformed
      BY <1>1, <1>8 DEF ReadMessageUpdate, ReadAll
    <2>3. ~ p.bad => a \in Parser /\ ReadsWell("prior", a, told')
      BY <1>1, <1>8, MessageKeeps DEF ReadMessageUpdate
    <2>4. ~ q.bad => b \in Parser /\ ReadsWell("outcome", b, told')
      BY <1>1, <1>8, MessageKeeps DEF ReadMessageUpdate
    <2>5. ~ p.bad /\ ~ q.bad => Twins(a, b)
      BY <1>1, <1>2, <1>8, EndTwins
    <2> HIDE DEF a, b, p, q
    <2> QED BY <1>3, <2>1, <2>2, <2>3, <2>4, <2>5
  <1>9. ASSUME NEW assistant \in BOOLEAN, NEW text \in AllTexts, NEW stop \in Stops,
         NEW error \in BOOLEAN, ReadMessageEnd(assistant, text, stop, error)
         PROVE  PiInv'
    <2> DEFINE a == MessageEnd(p, assistant, text, stop, error)
               b == MessageEnd(q, assistant, text, stop, error)
    <2>1. parsers' = [v \in Versions |-> IF parsers[v].bad THEN parsers[v]
                                             ELSE IF v = "prior" THEN a ELSE b]
      BY <1>9 DEF ReadMessageEnd, ReadAll, Versions
    <2>2. /\ told' \in Told /\ told'.info = told.info /\ UNCHANGED exit
          /\ told'.malformed = told.malformed
      BY <1>1, <1>9 DEF ReadMessageEnd, ReadAll, Told
    <2>3. ~ p.bad => a \in Parser /\ ReadsWell("prior", a, told')
      BY <1>1, <1>9, MessageEndKeeps DEF ReadMessageEnd
    <2>4. ~ q.bad => b \in Parser /\ ReadsWell("outcome", b, told')
      BY <1>1, <1>9, MessageEndKeeps DEF ReadMessageEnd
    <2>5. ~ p.bad /\ ~ q.bad => Twins(a, b)
      BY <1>1, <1>2, <1>9, EndTwins
    <2> HIDE DEF a, b, p, q
    <2> QED BY <1>3, <2>1, <2>2, <2>3, <2>4, <2>5
  <1>10. ASSUME NEW text \in AllTexts, NEW stop \in Stops, NEW error \in BOOLEAN,
                ReadTurnEnd(text, stop, error)
         PROVE  PiInv'
    <2> DEFINE a == TurnEnd(p, text, stop, error)
               b == TurnEnd(q, text, stop, error)
    <2>1. parsers' = [v \in Versions |-> IF parsers[v].bad THEN parsers[v]
                                             ELSE IF v = "prior" THEN a ELSE b]
      BY <1>10 DEF ReadTurnEnd, ReadAll, Versions
    <2>2. /\ told' \in Told /\ told'.info = told.info /\ UNCHANGED exit
          /\ told'.malformed = told.malformed
      BY <1>1, <1>10 DEF ReadTurnEnd, ReadAll, Told, PiTexts
    <2>3. ~ p.bad => a \in Parser /\ ReadsWell("prior", a, told')
      BY <1>1, <1>10, TurnEndKeeps DEF ReadTurnEnd
    <2>4. ~ q.bad => b \in Parser /\ ReadsWell("outcome", b, told')
      BY <1>1, <1>10, TurnEndKeeps DEF ReadTurnEnd
    <2>5. ~ p.bad /\ ~ q.bad => Twins(a, b)
      BY <1>1, <1>2, <1>10, EndTwins
    <2> HIDE DEF a, b, p, q
    <2> QED BY <1>3, <2>1, <2>2, <2>3, <2>4, <2>5
  <1>11. ASSUME NEW text \in AllTexts, NEW stop \in Stops, NEW error \in BOOLEAN,
                ReadAgentEnd(text, stop, error)
         PROVE  PiInv'
    <2> DEFINE a == AgentEnd(p, text, stop, error)
               b == AgentEnd(q, text, stop, error)
    <2>1. parsers' = [v \in Versions |-> IF parsers[v].bad THEN parsers[v]
                                             ELSE IF v = "prior" THEN a ELSE b]
      BY <1>11 DEF ReadAgentEnd, ReadAll, Versions
    <2>2. /\ told' \in Told /\ told'.info = told.info /\ UNCHANGED exit
          /\ told'.malformed = told.malformed
      BY <1>1, <1>11 DEF ReadAgentEnd, ReadAll, Told, PiTexts
    <2>3. ~ p.bad => a \in Parser /\ ReadsWell("prior", a, told')
      BY <1>1, <1>11, AgentEndKeeps DEF ReadAgentEnd
    <2>4. ~ q.bad => b \in Parser /\ ReadsWell("outcome", b, told')
      BY <1>1, <1>11, AgentEndKeeps DEF ReadAgentEnd
    <2>5. ~ p.bad /\ ~ q.bad => Twins(a, b)
      BY <1>1, <1>2, <1>11, EndTwins
    <2> HIDE DEF a, b, p, q
    <2> QED BY <1>3, <2>1, <2>2, <2>3, <2>4, <2>5
  <1>12. CASE ReadRetryStart
    <2> DEFINE a == RetryStart(p)
               b == RetryStart(q)
    <2>1. parsers' = [v \in Versions |-> IF parsers[v].bad THEN parsers[v]
                                             ELSE IF v = "prior" THEN a ELSE b]
      BY <1>12 DEF ReadRetryStart, ReadAll, Versions
    <2>2. /\ told' \in Told /\ told'.info = told.info /\ UNCHANGED exit
          /\ told'.malformed = told.malformed
      BY <1>1, <1>12 DEF ReadRetryStart, ReadAll, Told
    <2>3. ~ p.bad => a \in Parser /\ ReadsWell("prior", a, told')
      BY <1>1, <1>12, SaysKeep DEF ReadRetryStart
    <2>4. ~ q.bad => b \in Parser /\ ReadsWell("outcome", b, told')
      BY <1>1, <1>12, SaysKeep DEF ReadRetryStart
    <2>5. ~ p.bad /\ ~ q.bad => Twins(a, b)
      BY <1>1, <1>2, <1>12, OutcomeTwins
    <2> HIDE DEF a, b, p, q
    <2> QED BY <1>3, <2>1, <2>2, <2>3, <2>4, <2>5
  <1>13. ASSUME NEW said \in Says, ReadRetryEnd(said)
         PROVE  PiInv'
    <2> DEFINE a == RetryEnd("prior", p, said)
               b == RetryEnd("outcome", q, said)
    <2>1. parsers' = [v \in Versions |-> IF parsers[v].bad THEN parsers[v]
                                             ELSE IF v = "prior" THEN a ELSE b]
      BY <1>13 DEF ReadRetryEnd, ReadAll, Versions
    <2>2. /\ told' \in Told /\ told'.info = told.info /\ UNCHANGED exit
          /\ told'.malformed <=> told.malformed \/ said = "malformed"
      BY <1>1, <1>13 DEF ReadRetryEnd, Say, ReadAll, Told
    <2>6. told' = Heard(told, said)
      BY <1>13 DEF ReadRetryEnd, Say, Heard
    <2>3. ~ p.bad => a \in Parser /\ ReadsWell("prior", a, told')
      BY <1>1, <2>6, OutcomesKeep
    <2>4. ~ q.bad => b \in Parser /\ ReadsWell("outcome", b, told')
      BY <1>1, <2>6, OutcomesKeep
    <2>5. ~ p.bad /\ ~ q.bad => Twins(a, b) \/ (b.bad /\ said = "malformed")
      BY <1>1, <1>2, OutcomeTwins, ParserValues
    <2>7. said = "malformed" => b.bad
      BY ParserValues DEF RetryEnd, Accept, Outcome
    <2> HIDE DEF a, b, p, q
    <2>8. ~ q.bad => told'.malformed = told.malformed \/ b.bad
      BY <2>2, <2>7, <1>1 DEF Told
    <2> QED BY <1>3, <2>1, <2>2, <2>3, <2>4, <2>5, <2>8
  <1>14. ASSUME NEW said \in Says, ReadSettled(said)
         PROVE  PiInv'
    <2> DEFINE a == SettledRead("prior", p, said)
               b == SettledRead("outcome", q, said)
    <2>1. parsers' = [v \in Versions |-> IF parsers[v].bad THEN parsers[v]
                                             ELSE IF v = "prior" THEN a ELSE b]
      BY <1>14 DEF ReadSettled, ReadAll, Versions
    <2>2. /\ told' \in Told /\ told'.info = told.info /\ UNCHANGED exit
          /\ told'.malformed <=> told.malformed \/ said = "malformed"
      BY <1>1, <1>14 DEF ReadSettled, Say, ReadAll, Told
    <2>6. told' = Heard(told, said)
      BY <1>14 DEF ReadSettled, Say, Heard
    <2>3. ~ p.bad => a \in Parser /\ ReadsWell("prior", a, told')
      BY <1>1, <2>6, OutcomesKeep
    <2>4. ~ q.bad => b \in Parser /\ ReadsWell("outcome", b, told')
      BY <1>1, <2>6, OutcomesKeep
    <2>5. ~ p.bad /\ ~ q.bad => Twins(a, b) \/ (b.bad /\ said = "malformed")
      BY <1>1, <1>2, OutcomeTwins, ParserValues
    <2>7. said = "malformed" => b.bad
      BY ParserValues DEF SettledRead, Accept, Outcome
    <2> HIDE DEF a, b, p, q
    <2>8. ~ q.bad => told'.malformed = told.malformed \/ b.bad
      BY <2>2, <2>7, <1>1 DEF Told
    <2> QED BY <1>3, <2>1, <2>2, <2>3, <2>4, <2>5, <2>8
  <1>15. CASE ReadError
    <2> DEFINE a == ErrorRead(p)
               b == ErrorRead(q)
    <2>1. parsers' = [v \in Versions |-> IF parsers[v].bad THEN parsers[v]
                                             ELSE IF v = "prior" THEN a ELSE b]
      BY <1>15 DEF ReadError, ReadAll, Versions
    <2>2. /\ told' \in Told /\ told'.info = told.info /\ UNCHANGED exit
          /\ told'.malformed = told.malformed
      BY <1>1, <1>15 DEF ReadError, ReadAll, Told
    <2>3. ~ p.bad => a \in Parser /\ ReadsWell("prior", a, told')
      BY <1>1, <1>15, SaysKeep DEF ReadError
    <2>4. ~ q.bad => b \in Parser /\ ReadsWell("outcome", b, told')
      BY <1>1, <1>15, SaysKeep DEF ReadError
    <2>5. ~ p.bad /\ ~ q.bad => Twins(a, b)
      BY <1>1, <1>2, <1>15, OutcomeTwins
    <2> HIDE DEF a, b, p, q
    <2> QED BY <1>3, <2>1, <2>2, <2>3, <2>4, <2>5
  <1>16. CASE ReadSessionInfo
    <2> DEFINE a == SessionInfo("prior", p)
               b == SessionInfo("outcome", q)
    <2>1. parsers' = [v \in Versions |-> IF parsers[v].bad THEN parsers[v]
                                             ELSE IF v = "prior" THEN a ELSE b]
      BY <1>16 DEF ReadSessionInfo, ReadAll, Versions
    <2>2. told' \in Told /\ told'.info /\ told'.malformed = told.malformed /\ UNCHANGED exit
      BY <1>1, <1>16 DEF ReadSessionInfo, ReadAll, Told
    <2>3. ~ p.bad => a \in Parser /\ ReadsWell("prior", a, told')
      BY <1>1, <1>16, SaysKeep DEF ReadSessionInfo
    <2>4. ~ q.bad => b \in Parser /\ ReadsWell("outcome", b, told')
      BY <1>1, <1>16, SaysKeep DEF ReadSessionInfo
    <2>5. a.bad
      BY ParserValues DEF SessionInfo
    <2> HIDE DEF a, b, p, q
    <2> QED BY <1>3, <2>1, <2>2, <2>3, <2>4, <2>5
  <1>17. CASE ReadUnknown
    <2>1. parsers' = [v \in Versions |-> IF parsers[v].bad THEN parsers[v]
                        ELSE IF v = "prior" THEN Broken ELSE Broken]
      BY <1>17 DEF ReadUnknown, ReadAll, Versions
    <2>2. /\ told' \in Told /\ told'.info = told.info /\ UNCHANGED exit
          /\ told'.malformed = told.malformed
      BY <1>1, <1>17 DEF ReadUnknown, ReadAll
    <2>3. ReadsWell("prior", Broken, told') /\ ReadsWell("outcome", Broken, told')
      BY BrokenReads
    <2> HIDE DEF p, q
    <2> QED BY <1>3, <2>1, <2>2, <2>3, ParserValues, BrokenReads
  <1>18. ASSUME NEW success \in BOOLEAN, PiSeal(success) PROVE PiInv'
    BY <1>18 DEF PiSeal, PiInv
  <1> QED BY <1>4, <1>5, <1>6, <1>7, <1>8, <1>9, <1>10, <1>11, <1>12, <1>13, <1>14, <1>15, <1>16,
       <1>17, <1>18 DEF PiNext

\* PiInv is inductive, and it says that a committed answer is the last one and that the
\* revisions agree, for every set of texts (pi/current_parser.go, pi/predicate.go).
THEOREM PiInductive ==
  ASSUME NoText \notin Texts
  PROVE  /\ PiInit => PiInv
         /\ PiInv /\ [PiNext]_piVars => PiInv'
         /\ PiInv => PiTypeOK /\ PiIsTrue
  <1>1. PiInit => PiInv
    <2> SUFFICES ASSUME PiInit PROVE PiInv
      OBVIOUS
    <2>1. \A v \in Versions : parsers[v] = NewParser
      BY DEF PiInit
    <2>2. parsers \in [Versions -> Parser] /\ told \in Told /\ exit = "open"
      BY ParserValues DEF PiInit, Told, PiTexts
    <2>3. \A v \in Versions : ReadsWell(v, NewParser, told)
      BY DEF PiInit, ReadsWell, CycleReads, NewParser, NewCycle
    <2>4. ~ told.malformed
      BY DEF PiInit
    <2> QED BY <2>1, <2>2, <2>3, <2>4 DEF PiInv, Twins, CycleTwins, Versions, NewParser
  <1>2. PiInv /\ [PiNext]_piVars => PiInv'
    <2> SUFFICES ASSUME PiInv, [PiNext]_piVars PROVE PiInv'
      OBVIOUS
    <2>1. CASE UNCHANGED piVars BY <2>1 DEF PiInv, piVars
    <2> QED BY <2>1, StreamKeeps
  <1>3. PiInv => PiTypeOK /\ PiIsTrue
    <2> SUFFICES ASSUME PiInv PROVE PiTypeOK /\ PiIsTrue
      OBVIOUS
    <2> DEFINE p == parsers["prior"]
               q == parsers["outcome"]
    <2>1. /\ p \in Parser /\ q \in Parser /\ told \in Told
          /\ p.cycle \in Cycle /\ q.cycle \in Cycle
          /\ ReadsWell("prior", p, told) /\ ReadsWell("outcome", q, told)
          /\ ~ p.bad /\ ~ q.bad => Twins(p, q)
          /\ p.bad /\ ~ q.bad => told.info
          /\ told.malformed => q.bad
          /\ ~ p.bad /\ q.bad => told.malformed
      BY DEF PiInv, Versions, Parser
    <2>2. PiTypeOK
      BY DEF PiTypeOK, PiInv, Parser, Cycle, Stages, PiTexts
    <2> HIDE DEF p, q
    <2>3. PiCommitted(q) => /\ q.cycle.answer = told.newest /\ told.ended
                            /\ ~ told.error /\ ~ told.failure /\ ~ told.outcome /\ ~ told.waiting
                            /\ ~ told.malformed
      BY <2>1 DEF PiCommitted, ReadsWell, CycleReads
    <2>4. PiCommitted(p) /\ PiCommitted(q) => p.cycle.answer = q.cycle.answer
      BY <2>1 DEF PiCommitted, Twins, CycleTwins
    <2>5. PiCommitted(q) /\ ~ told.info => PiCommitted(p)
      BY <2>1 DEF PiCommitted, Twins, CycleTwins, ReadsWell, CycleReads
    <2>6. PiCommitted(p) /\ ~ told.outcome /\ ~ told.malformed => PiCommitted(q)
      BY <2>1 DEF PiCommitted, Twins, CycleTwins, ReadsWell, CycleReads
    <2> QED BY <2>2, <2>3, <2>4, <2>5, <2>6 DEF PiIsTrue, PiAnswerStands, PiRevisionsAgree, p, q
  <1> QED BY <1>1, <1>2, <1>3

--------------------
(* The workspace.                                                          *)

UseRecord == [kind : Subjects, task : WsTasks \cup {Nothing}, discard : BOOLEAN, owed : BOOLEAN,
              receipt : {"none", "captured", "unavailable"}, closed : Dispositions,
              baseline : BOOLEAN]
HelperRecord == [state : {"none", "opened", "queued", "running", "ended"}, done : 0..3,
                 result : {"none", "succeeded", "failed"}]
TaskRecord == [state : {"absent", "created", "submitted", "running", "ended"}, use : 0..MaxUses]
ClientRecord ==
    [goal : {"dispatch", "verify", "checkpoint", "release", "forget", Nothing},
     at : {"away", "reconcile", "act", "provision", "create", "oblige", "submit", "reserve"},
     task : WsTasks \cup {Nothing}, discard : BOOLEAN]
AllRefs == {<<"base", 0>>} \cup ({"capture", "baseline"} \X Uses)
EndRecord == [by : 0..MaxUses, discard : BOOLEAN, removed : BOOLEAN, intent : SUBSET AllRefs,
              forgetting : BOOLEAN, forgotten : BOOLEAN]

WsTypes ==
    /\ WsTypeOK /\ uses \in Seq(UseRecord) /\ tasks \in [WsTasks -> TaskRecord]
    /\ helpers \in [HelperIds -> HelperRecord]
    /\ clients \in [Clients -> ClientRecord] /\ ending \in EndRecord

Starting == {"opened", "queued", "running"}

\* The head of the journal is its only open use; what is owed, received and closed agrees.
UsesInOrder ==
    \A n \in DOMAIN uses :
        /\ n < Latest => uses[n].closed # "open"
        /\ uses[n].kind = "admission" => uses[n].task \in WsTasks
        /\ uses[n].owed => uses[n].kind # "checkpoint"
        /\ uses[n].owed /\ uses[n].kind = "admission" =>
              tasks[uses[n].task].use = n /\ tasks[uses[n].task].state # "absent"
        /\ uses[n].receipt # "none" => uses[n].owed
        /\ uses[n].closed \in {"captured", "unavailable"} => uses[n].receipt = uses[n].closed

\* A receipt says how the capture ended.
ReceiptsInOrder ==
    \A h \in HelperIds : h[1] = "capture" /\ h[2] \in DOMAIN uses =>
        /\ uses[h[2]].receipt # "none" => helpers[h].state = "ended"
        /\ uses[h[2]].receipt = "captured" => helpers[h].result = "succeeded"

\* A task is the one its use names, and runs only while that use is open.
TasksInOrder ==
    \A t \in WsTasks :
        /\ tasks[t].state # "absent" =>
              /\ tasks[t].use \in DOMAIN uses
              /\ uses[tasks[t].use].kind = "admission" /\ uses[tasks[t].use].task = t
        /\ tasks[t].state = "running" =>
              tasks[t].use = Latest /\ uses[Latest].closed = "open" /\ uses[Latest].baseline

\* What a helper in a state needs: it is at work only for the open use, at the stage that
\* needs it, and attempts at the end of the workspace follow one another.
Entitled(h, state) ==
    /\ h[1] = "provision" /\ state \in Starting =>
          /\ Reserved /\ h[2] = Latest /\ uses[Latest].kind = "admission"
          /\ ~ uses[Latest].owed /\ TaskAbsent(Latest)
    /\ h[1] = "capture" /\ state # "none" =>
          h[2] \in DOMAIN uses /\ uses[h[2]].owed /\ PredecessorClosed(h[2])
    /\ h[1] = "capture" /\ state \in Starting =>
          Reserved /\ h[2] = Latest /\ uses[Latest].receipt = "none"
    /\ h[1] \in {"verify", "checkpoint"} /\ state \in {"queued", "running"} =>
          Reserved /\ h[2] = Latest /\ uses[Latest].kind = h[1]
    /\ h[1] \in {"verify", "checkpoint"} /\ state = "ended" => h[2] \in DOMAIN uses
    /\ h[1] = "remove" /\ state # "none" => ReleaseRecorded
    /\ h[1] = "forget" /\ state # "none" => ending.forgetting
    /\ h[1] \in {"remove", "forget"} /\ state # "none" =>
          \A j \in 1..(h[2] - 1) : helpers[<<h[1], j>>].state = "ended"

HelpersInOrder == \A h \in HelperIds : Entitled(h, helpers[h].state)

Journal == UsesInOrder /\ ReceiptsInOrder /\ TasksInOrder /\ HelpersInOrder

\* What a helper that has come this far has done.
Achieved(h, r) ==
    /\ r.state \in {"none", "opened", "queued"} => r.done = 0 /\ r.result = "none"
    /\ h[1] = "provision" /\ r.done > 0 => place.source
    /\ h[1] = "capture" /\ (r.done > 0 \/ r.result = "succeeded") => snapshots[h[2]].taken
    /\ h[1] = "capture" /\ (r.done > 1 \/ r.result = "succeeded") =>
          h \in refs \/ ending.forgetting
    /\ h[1] = "forget" /\ (r.done > 0 \/ r.result = "succeeded") => refs = {}

WorkInOrder == \A h \in HelperIds : Achieved(h, helpers[h])

\* Who writes in the worktree during a use.
WriterOf(n) == IF uses[n].kind = "verify" THEN <<"verify", n>> ELSE <<"task", uses[n].task>>

\* A snapshot has the files of its use, and that of a release all files.
SnapshotsInOrder ==
    \A h \in HelperIds : h[1] = "capture" /\ snapshots[h[2]].taken =>
        /\ helpers[h].state # "none"
        /\ uses[h[2]].kind \in {"admission", "verify"} => InSnapshot(h[2], WriterOf(h[2]))
        /\ uses[h[2]].kind = "release" /\ h[2] = Latest => work \subseteq snapshots[h[2]].content

\* The workspace ends with a captured release, its removal and its forget.
EndingInOrder ==
    /\ ReleaseRecorded =>
          /\ ending.by = Latest /\ uses[Latest].kind = "release" /\ uses[Latest].closed # "open"
          /\ uses[Latest].receipt = "captured" \/ ending.discard
    /\ ending.removed => ReleaseRecorded
    /\ ending.forgetting => ending.removed /\ refs \subseteq ending.intent
    /\ ending.forgotten => ending.forgetting /\ refs = {}
    /\ place.tree = "gone" => ReleaseRecorded

Content == WorkInOrder /\ SnapshotsInOrder /\ EndingInOrder /\ refs \subseteq NamedRefs

\* What a command at a step has seen still holds.
Knows(k) ==
    /\ k.at \in {"provision", "create"} =>
          /\ Reserved /\ uses[Latest].kind = "admission" /\ uses[Latest].task = k.task
          /\ ~ uses[Latest].owed /\ k.goal = "dispatch" /\ k.task \in WsTasks
          /\ tasks[k.task].state = "absent" /\ TaskAbsent(Latest)
    /\ k.at = "create" => helpers[<<"provision", Latest>>].state \notin Starting
    /\ k.at = "act" /\ k.goal = "dispatch" =>
          k.task \in WsTasks /\ tasks[k.task].state = "absent"
    /\ k.at \in {"oblige", "submit"} /\ k.goal = "dispatch" =>
          k.task \in WsTasks /\ tasks[k.task].state # "absent"
    /\ k.at = "reserve" => k.goal \in {"verify", "checkpoint"}
    /\ k.at = "oblige" => k.goal \in {"dispatch", "verify"}
    /\ k.at = "oblige" /\ k.goal = "verify" => Reserved /\ uses[Latest].kind = "verify"
    /\ k.at = "submit" /\ k.goal \in {"verify", "checkpoint"} =>
          Reserved /\ uses[Latest].kind = k.goal

\* Only the holder of the lease is at work.
Lawful(c) == (clients[c].at # "away" <=> useOwner = c) /\ Knows(clients[c])

ClientsInOrder == \A c \in Clients : Lawful(c)

WsInv == WsTypes /\ Journal /\ Content /\ ClientsInOrder

\* The journal numbers its uses from one on.
LEMMA UsesNumbered ==
  ASSUME WsTypes, MaxUses \in Nat
  PROVE  /\ Latest \in 0..MaxUses /\ DOMAIN uses = 1..Latest
         /\ \A n \in DOMAIN uses : uses[n] \in UseRecord /\ n \in Uses
  <1>1. Latest \in Nat /\ DOMAIN uses = 1..Latest /\ Latest <= MaxUses
    BY LenProperties DEF WsTypes, WsTypeOK, Latest
  <1>2. \A n \in DOMAIN uses : uses[n] \in UseRecord
    BY ElementOfSeq, LenProperties DEF WsTypes
  <1> QED BY <1>1, <1>2 DEF Uses

\* A helper is what it is for and its number.
LEMMA HelperNames ==
  /\ \A n \in Uses : /\ <<"provision", n>> \in HelperIds /\ <<"capture", n>> \in HelperIds
                     /\ <<"verify", n>> \in HelperIds /\ <<"checkpoint", n>> \in HelperIds
  /\ \A k \in 1..MaxTries : <<"remove", k>> \in HelperIds /\ <<"forget", k>> \in HelperIds
  /\ \A h \in HelperIds :
        /\ h = <<h[1], h[2]>>
        /\ \/ h[1] \in {"provision", "capture", "verify", "checkpoint"} /\ h[2] \in Uses
           \/ h[1] \in {"remove", "forget"} /\ h[2] \in 1..MaxTries
  BY DEF HelperIds

OneMoves(h, r) ==
    /\ helpers' = [helpers EXCEPT ![h] = r] /\ r \in HelperRecord
    /\ helpers[h].state = "ended" => r = helpers[h]
    /\ r.state = "none" => helpers[h].state = "none"

\* The others stay as they are, and what has ended has.
LEMMA MovesOn ==
  ASSUME WsTypes, NEW h \in HelperIds, NEW r, OneMoves(h, r)
  PROVE  /\ helpers' \in [HelperIds -> HelperRecord]
         /\ helpers'[h] = r /\ \A g \in HelperIds : g # h => helpers'[g] = helpers[g]
         /\ \A g \in HelperIds : helpers[g].state = "ended" => helpers'[g] = helpers[g]
         /\ \A g \in HelperIds : helpers[g].state # "none" => helpers'[g].state # "none"
  BY DEF WsTypes, OneMoves

\* A use whose process is gone keeps that.
LEMMA ClosedStays ==
  ASSUME WsTypes, MaxUses \in Nat, UNCHANGED <<uses, tasks>>,
         \A g \in HelperIds : helpers[g].state = "ended" => helpers'[g] = helpers[g],
         NEW n \in DOMAIN uses, PredecessorClosed(n)
  PROVE  PredecessorClosed(n)'
  <1>1. n \in Uses
    BY UsesNumbered
  <1>2. \A kind \in {"verify", "checkpoint"} : Proven(<<kind, n>>) => Proven(<<kind, n>>)'
    BY <1>1, HelperNames DEF Proven, Closed
  <1>3. uses[n].kind \in Subjects
    BY UsesNumbered DEF UseRecord
  <1> QED BY <1>2, <1>3 DEF PredecessorClosed, Subjects

\* The journal stands when one helper moves as it may.
LEMMA JournalStands ==
  ASSUME WsInv, MaxUses \in Nat, MaxTries \in Nat, NEW h \in HelperIds, NEW r, OneMoves(h, r),
         UNCHANGED <<uses, tasks, ending>>, Entitled(h, r.state)
  PROVE  Journal'
  <1> USE DEF WsInv
  <1>1. /\ helpers'[h] = r /\ \A g \in HelperIds : g # h => helpers'[g] = helpers[g]
        /\ \A g \in HelperIds : helpers[g].state = "ended" => helpers'[g] = helpers[g]
        /\ \A g \in HelperIds : helpers[g].state # "none" => helpers'[g].state # "none"
    BY MovesOn
  <1>2. UNCHANGED <<Latest, Reserved>> /\ DOMAIN uses = 1..Latest /\ DOMAIN uses \subseteq Uses
    BY UsesNumbered DEF Latest, Reserved
  <1>3. UsesInOrder' /\ ReceiptsInOrder'
    BY <1>1, <1>2 DEF Journal, UsesInOrder, ReceiptsInOrder
  <1>4. TasksInOrder'
    BY <1>2 DEF Journal, TasksInOrder
  <1>5. ASSUME NEW g \in HelperIds PROVE Entitled(g, helpers[g].state)'
    <2>1. Entitled(g, helpers'[g].state)
      <3>1. CASE g = h BY <1>1, <3>1
      <3>2. CASE g # h BY <1>1, <3>2 DEF Journal, HelpersInOrder
      <3> QED BY <3>1, <3>2
    <2>2. \A n \in DOMAIN uses : PredecessorClosed(n) => PredecessorClosed(n)'
      BY <1>1, ClosedStays
    <2>3. UNCHANGED <<TaskAbsent(Latest), ReleaseRecorded, ending>>
      BY <1>2 DEF TaskAbsent, ReleaseRecorded
    <2>4. g[1] \in {"remove", "forget"} => \A j \in 1..(g[2] - 1) :
             helpers[<<g[1], j>>].state = "ended" => helpers'[<<g[1], j>>].state = "ended"
      <3> SUFFICES ASSUME g[1] \in {"remove", "forget"}, NEW j \in 1..(g[2] - 1)
                   PROVE  <<g[1], j>> \in HelperIds
        BY <1>1
      <3>1. g[2] \in 1..MaxTries
        BY HelperNames
      <3>2. j \in 1..MaxTries
        BY <3>1
      <3> QED BY <3>2, HelperNames
    <2> HIDE DEF WsInv
    <2> DEFINE s == helpers'[g].state
    <2> HIDE DEF s
    <2>5. Entitled(g, s)
      BY <2>1 DEF s
    <2>6. /\ g[1] \in {"verify", "checkpoint"} /\ s \in {"queued", "running"} =>
             Reserved /\ g[2] = Latest /\ uses[Latest].kind = g[1]
          /\ g[1] \in {"verify", "checkpoint"} /\ s = "ended" => g[2] \in DOMAIN uses
          /\ g[1] = "capture" /\ s \in Starting =>
                Reserved /\ g[2] = Latest /\ uses[Latest].receipt = "none"
      BY <2>5 DEF Entitled
    <2>7. /\ g[1] = "provision" /\ s \in Starting =>
                /\ Reserved /\ g[2] = Latest /\ uses[Latest].kind = "admission"
                /\ ~ uses[Latest].owed /\ TaskAbsent(Latest)
          /\ g[1] = "capture" /\ s # "none" =>
                g[2] \in DOMAIN uses /\ uses[g[2]].owed /\ PredecessorClosed(g[2])'
          /\ g[1] = "remove" /\ s # "none" => ReleaseRecorded
          /\ g[1] = "forget" /\ s # "none" => ending.forgetting
      BY <2>2, <2>5 DEF Entitled
    <2>8. g[1] \in {"remove", "forget"} /\ s # "none" =>
             \A j \in 1..(g[2] - 1) : helpers'[<<g[1], j>>].state = "ended"
      BY <2>4, <2>5 DEF Entitled
    <2> QED BY <1>2, <2>3, <2>6, <2>7, <2>8 DEF Entitled, s
  <1> QED BY <1>3, <1>4, <1>5 DEF Journal, HelpersInOrder

\* While a use is open nothing has ended.
LEMMA OpenGoesOn ==
  ASSUME WsInv, Reserved
  PROVE  /\ ~ ReleaseRecorded /\ ~ ending.removed /\ ~ ending.forgetting /\ ~ ending.forgotten
         /\ place.tree # "gone"
         /\ \A g \in HelperIds : g[1] = "forget" => helpers[g].state = "none"
  <1>1. ~ ReleaseRecorded
    BY DEF WsInv, Content, EndingInOrder, Reserved, Latest
  <1>2. ~ ending.removed /\ ~ ending.forgetting /\ ~ ending.forgotten /\ place.tree # "gone"
    BY <1>1 DEF WsInv, Content, EndingInOrder
  <1>3. ASSUME NEW g \in HelperIds, g[1] = "forget" PROVE helpers[g].state = "none"
    <2>1. Entitled(g, helpers[g].state)
      BY DEF WsInv, Journal, HelpersInOrder
    <2> QED BY <1>2, <1>3, <2>1 DEF Entitled
  <1> QED BY <1>1, <1>2, <1>3

\* Helpers other than one keep what they achieved while the records they rest on stand.
LEMMA WorkStands ==
  ASSUME WsInv, NEW h \in HelperIds, NEW r, OneMoves(h, r), Achieved(h, helpers[h])',
         UNCHANGED ending, place.source => place'.source,
         \A n \in Uses : snapshots[n].taken => snapshots'[n].taken,
         refs \subseteq refs' \/ ending.forgetting, refs' = refs \/ Reserved \/ refs' = {}
  PROVE  WorkInOrder'
  <1>1. ASSUME NEW g \in HelperIds PROVE Achieved(g, helpers[g])'
    <2>1. CASE g = h BY <2>1
    <2>2. CASE g # h
      <3>1. helpers'[g] = helpers[g] /\ Achieved(g, helpers[g])
        BY <2>2, MovesOn DEF WsInv, Content, WorkInOrder
      <3>2. g[1] = "capture" => g[2] \in Uses
        BY HelperNames
      <3>3. g[1] = "forget" /\ Reserved => helpers[g].done = 0 /\ helpers[g].result = "none"
        BY <3>1, OpenGoesOn DEF Achieved
      <3> QED BY <3>1, <3>2, <3>3 DEF Achieved
    <2> QED BY <2>1, <2>2
  <1> QED BY <1>1 DEF WorkInOrder

\* What a command knows stands while the journal's uses and tasks do and no provision begins.
LEMMA ClientsStand ==
  ASSUME WsInv, MaxUses \in Nat, UNCHANGED <<uses, tasks, useOwner, clients>>,
         \A g \in HelperIds : helpers[g].state \notin Starting => helpers'[g].state \notin Starting
  PROVE  ClientsInOrder'
  <1> SUFFICES ASSUME NEW c \in Clients PROVE Lawful(c)'
    BY DEF ClientsInOrder
  <1>1. UNCHANGED <<Latest, Reserved, TaskAbsent(Latest)>>
    BY DEF Latest, Reserved, TaskAbsent
  <1>2. Lawful(c)
    BY DEF WsInv, ClientsInOrder
  <1>3. clients[c].at = "create" => <<"provision", Latest>> \in HelperIds
    <2>1. clients[c].at = "create" => Reserved
      BY <1>2 DEF Lawful, Knows
    <2>2. Latest \in 0..MaxUses
      BY UsesNumbered DEF WsInv
    <2>3. Reserved => Latest \in Uses
      BY <2>2 DEF Reserved, Uses
    <2> QED BY <2>1, <2>3, HelperNames
  <1> QED BY <1>1, <1>2, <1>3 DEF Lawful, Knows

\* The types of the rest while one helper moves.
LEMMA TypesStand ==
  ASSUME WsInv, NEW h \in HelperIds, NEW r, OneMoves(h, r),
         UNCHANGED <<uses, tasks, ending>>, useOwner' \in Clients \cup {NoClient},
         clients' \in [Clients -> ClientRecord],
         place' \in [source : BOOLEAN, anchor : BOOLEAN, tree : {"absent", "present", "gone"},
                     registered : BOOLEAN],
         work' \subseteq Writers,
         snapshots' \in [Uses -> [taken : BOOLEAN, content : SUBSET Writers]]
  PROVE  WsTypes'
  <1>1. helpers' \in [HelperIds -> HelperRecord]
    BY MovesOn DEF WsInv
  <1> QED BY <1>1 DEF WsInv, WsTypes, WsTypeOK, HelperRecord

\* A helper at work, and one that ends, is entitled to it.
LEMMA GoesOn ==
  ASSUME WsInv, MaxUses \in Nat, NEW h \in HelperIds, NEW s \in {"running", "ended"},
         helpers[h].state \in {"queued", "running"}
  PROVE  Entitled(h, s)
  <1>1. Entitled(h, helpers[h].state)
    BY DEF WsInv, Journal, HelpersInOrder
  <1>2. Reserved => Latest \in DOMAIN uses
    BY UsesNumbered DEF Reserved, WsInv
  <1>3. helpers[h].state \in Starting /\ helpers[h].state # "none"
    BY DEF Starting
  <1> QED BY <1>1, <1>2, <1>3 DEF Entitled, Starting

\* A helper's own step, whose records agree with it.
LEMMA WorkerKeeps ==
  ASSUME WsInv, MaxUses \in Nat, MaxTries \in Nat, NEW h \in HelperIds, NEW r, OneMoves(h, r),
         helpers[h].state \in {"queued", "running"}, r.state \in {"running", "ended"},
         UNCHANGED <<uses, tasks, ending, useOwner, clients>>,
         place' \in [source : BOOLEAN, anchor : BOOLEAN, tree : {"absent", "present", "gone"},
                     registered : BOOLEAN],
         work' \subseteq Writers,
         snapshots' \in [Uses -> [taken : BOOLEAN, content : SUBSET Writers]],
         Achieved(h, helpers[h])', place.source => place'.source,
         \A n \in Uses : snapshots[n].taken => snapshots'[n].taken,
         refs \subseteq refs' \/ ending.forgetting, refs' = refs \/ Reserved \/ refs' = {},
         SnapshotsInOrder', EndingInOrder', (refs \subseteq NamedRefs)'
  PROVE  WsInv'
  <1>1. WsTypes'
    BY TypesStand DEF WsInv, WsTypes, WsTypeOK
  <1>2. Journal'
    BY GoesOn, JournalStands
  <1>3. WorkInOrder'
    BY WorkStands
  <1>4. ClientsInOrder'
    <2>1. \A g \in HelperIds : helpers[g].state \notin Starting => helpers'[g].state \notin Starting
      BY MovesOn DEF WsInv, Starting
    <2> QED BY <2>1, ClientsStand
  <1> QED BY <1>1, <1>2, <1>3, <1>4 DEF WsInv, Content

\* Snapshots keep what they have while nobody writes and none is taken.
LEMMA SnapshotsStand ==
  ASSUME WsInv, NEW h \in HelperIds, NEW r, OneMoves(h, r), UNCHANGED <<uses, work, snapshots>>
  PROVE  SnapshotsInOrder'
  <1>1. SnapshotsInOrder
    BY DEF WsInv, Content
  <1>2. \A g \in HelperIds : helpers[g].state # "none" => helpers'[g].state # "none"
    BY MovesOn DEF WsInv
  <1>3. Latest' = Latest
    BY DEF Latest
  <1>4. \A n, w : InSnapshot(n, w) = InSnapshot(n, w)'
    BY DEF InSnapshot
  <1>5. \A n : WriterOf(n)' = WriterOf(n)
    BY DEF WriterOf
  <1> QED BY <1>1, <1>2, <1>3, <1>4, <1>5 DEF SnapshotsInOrder

\* What a helper at work is and has done.
LEMMA AtWork ==
  ASSUME WsInv, NEW h \in HelperIds
  PROVE  /\ helpers[h] \in HelperRecord
         /\ Entitled(h, helpers[h].state) /\ Achieved(h, helpers[h])
         /\ place \in [source : BOOLEAN, anchor : BOOLEAN, tree : {"absent", "present", "gone"},
                       registered : BOOLEAN]
         /\ work \subseteq Writers
         /\ snapshots \in [Uses -> [taken : BOOLEAN, content : SUBSET Writers]]
  BY DEF WsInv, WsTypes, WsTypeOK, Journal, HelpersInOrder, Content, WorkInOrder

\* A helper is launched or ends, or its result is recorded.
LEMMA HelperTurns ==
  ASSUME WsInv, MaxUses \in Nat, MaxTries \in Nat, NEW h \in HelperIds,
         LaunchHelper(h) \/ Succeeds(h, LastStep(h)) \/ HelperEnds(h)
  PROVE  WsInv'
  <1> DEFINE a == helpers[h]
  <1>1. a \in HelperRecord /\ Achieved(h, a)
    BY AtWork
  <1>2. UNCHANGED <<uses, tasks, place, work, snapshots, refs, ending, useOwner, clients>>
    BY DEF LaunchHelper, Succeeds, HelperEnds
  <1>3. \E r : /\ helpers' = [helpers EXCEPT ![h] = r] /\ r \in HelperRecord
               /\ a.state \in {"queued", "running"} /\ r.state \in {"running", "ended"}
               /\ Achieved(h, r)
    <2>1. CASE LaunchHelper(h)
      <3> DEFINE r == [a EXCEPT !.state = "running"]
      <3>1. /\ helpers' = [helpers EXCEPT ![h] = r] /\ a.state = "queued"
        BY <2>1 DEF LaunchHelper
      <3>2. r \in HelperRecord /\ r.state = "running" /\ r.done = 0 /\ r.result = "none"
        BY <1>1, <3>1 DEF HelperRecord, Achieved
      <3> HIDE DEF r, a
      <3>3. Achieved(h, r)
        BY <3>2 DEF Achieved
      <3> QED BY <3>1, <3>2, <3>3
    <2>2. CASE Succeeds(h, LastStep(h))
      <3> DEFINE r == [a EXCEPT !.result = "succeeded", !.done = 0]
      <3>1. /\ helpers' = [helpers EXCEPT ![h] = r] /\ a.state = "running"
            /\ a.done = LastStep(h)
        BY <2>2 DEF Succeeds, Works
      <3>2. r \in HelperRecord /\ r.state = "running" /\ r.done = 0 /\ r.result = "succeeded"
        <4>1. ASSUME NEW b \in HelperRecord
              PROVE  /\ [b EXCEPT !.done = 0] \in HelperRecord
                     /\ [b EXCEPT !.done = 0].state = b.state
                     /\ [b EXCEPT !.done = 0].done = 0
                     /\ [b EXCEPT !.done = 0].result = b.result
          BY <4>1 DEF HelperRecord
        <4>2. ASSUME NEW b \in HelperRecord
              PROVE  /\ [b EXCEPT !.result = "succeeded"] \in HelperRecord
                     /\ [b EXCEPT !.result = "succeeded"].state = b.state
                     /\ [b EXCEPT !.result = "succeeded"].result = "succeeded"
          BY <4>2 DEF HelperRecord
        <4>3. r = [[a EXCEPT !.result = "succeeded"] EXCEPT !.done = 0]
          OBVIOUS
        <4> HIDE DEF a, r
        <4> QED BY <1>1, <3>1, <4>1, <4>2, <4>3
      <3>3. /\ h[1] = "capture" => a.done = 2
            /\ h[1] = "forget" => a.done = 1
        BY <3>1 DEF LastStep
      <3>4. /\ h[1] = "capture" => snapshots[h[2]].taken /\ (h \in refs \/ ending.forgetting)
            /\ h[1] = "forget" => refs = {}
        BY <1>1, <3>3 DEF Achieved
      <3> HIDE DEF r, a
      <3>5. Achieved(h, r)
        BY <3>2, <3>4 DEF Achieved
      <3> QED BY <3>1, <3>2, <3>5
    <2>3. CASE HelperEnds(h)
      <3> DEFINE r == [state |-> "ended", done |-> 0,
                       result |-> IF a.result = "none" THEN "failed" ELSE a.result]
      <3>1. /\ helpers' = [helpers EXCEPT ![h] = r] /\ a.state = "running"
        BY <2>3 DEF HelperEnds
      <3>2. r \in HelperRecord /\ r.state = "ended" /\ r.done = 0
            /\ (r.result = "succeeded" => a.result = "succeeded")
        BY <1>1 DEF HelperRecord
      <3> HIDE DEF r, a
      <3>3. Achieved(h, r)
        BY <1>1, <3>2 DEF Achieved
      <3> QED BY <3>1, <3>2, <3>3
    <2> QED BY <2>1, <2>2, <2>3
  <1>4. PICK r : /\ helpers' = [helpers EXCEPT ![h] = r] /\ r \in HelperRecord
                 /\ a.state \in {"queued", "running"} /\ r.state \in {"running", "ended"}
                 /\ Achieved(h, r)
    BY <1>3
  <1>5. OneMoves(h, r)
    BY <1>4 DEF OneMoves
  <1>6. Achieved(h, helpers[h])'
    <2>1. helpers'[h] = r
      BY <1>5, MovesOn DEF WsInv
    <2> QED BY <1>2, <1>4, <2>1 DEF Achieved
  <1>7. SnapshotsInOrder'
    BY <1>2, <1>5, SnapshotsStand
  <1>8. EndingInOrder' /\ (refs \subseteq NamedRefs)'
    BY <1>2 DEF WsInv, Content, EndingInOrder, NamedRefs, ReleaseRecorded, Latest
  <1> QED BY <1>2, <1>4, <1>5, <1>6, <1>7, <1>8, AtWork, WorkerKeeps

\* What a step of a helper does to its record.
LEMMA AdvanceIs ==
  ASSUME WsInv, NEW h \in HelperIds, Advance(h), helpers[h].state = "running", helpers[h].done < 3
  PROVE  \E r : /\ OneMoves(h, r) /\ r.state = "running" /\ r.done = helpers[h].done + 1
                /\ r.result = helpers[h].result /\ helpers'[h] = r
  <1> DEFINE r == [helpers[h] EXCEPT !.done = @ + 1]
  <1>1. helpers[h] \in HelperRecord
    BY AtWork
  <1>2. helpers' = [helpers EXCEPT ![h] = r]
    BY DEF Advance
  <1>3. /\ r \in HelperRecord /\ r.state = "running" /\ r.done = helpers[h].done + 1
        /\ r.result = helpers[h].result
    BY <1>1 DEF HelperRecord
  <1> HIDE DEF r
  <1>4. OneMoves(h, r)
    BY <1>2, <1>3 DEF OneMoves
  <1> QED BY <1>3, <1>4, MovesOn DEF WsInv

\* A provision records its source before it pins it.
LEMMA ProvisionKeeps ==
  ASSUME WsInv, MaxUses \in Nat, MaxTries \in Nat, NEW h \in HelperIds, Provision(h)
  PROVE  WsInv'
  <1>1. /\ helpers[h].state = "running" /\ helpers[h].result = "none" /\ helpers[h].done \in 0..2
        /\ h[1] = "provision" /\ Advance(h)
        /\ UNCHANGED <<uses, tasks, work, snapshots, ending, useOwner, clients>>
    BY DEF Provision, Works
  <1>2. PICK r : /\ OneMoves(h, r) /\ r.state = "running" /\ r.done = helpers[h].done + 1
                 /\ r.result = helpers[h].result /\ helpers'[h] = r
    BY <1>1, AdvanceIs
  <1>3. Reserved /\ Achieved(h, helpers[h])
    BY <1>1, AtWork DEF Entitled, Starting
  <1>4. /\ place' \in [source : BOOLEAN, anchor : BOOLEAN, tree : {"absent", "present", "gone"},
                       registered : BOOLEAN]
        /\ place'.source /\ place'.tree # "gone" /\ refs \subseteq refs'
        /\ refs' \subseteq refs \cup {<<"base", 0>>}
    <2>1. /\ place \in [source : BOOLEAN, anchor : BOOLEAN, tree : {"absent", "present", "gone"},
                        registered : BOOLEAN]
          /\ place.tree # "gone"
      BY <1>3, AtWork, OpenGoesOn
    <2>2. helpers[h].done > 0 => place.source
      BY <1>1, <1>3 DEF Achieved
    <2>3. CASE Works(h, 0) /\ place' = SourceRecorded /\ UNCHANGED refs
      BY <2>1, <2>3 DEF SourceRecorded
    <2>4. CASE Works(h, 1) /\ place' = WorktreeAdded /\ refs' = Pinned(<<"base", 0>>)
      BY <2>1, <2>2, <2>4 DEF WorktreeAdded, Pinned, Works
    <2>5. CASE Works(h, 2) /\ UNCHANGED refs /\ place' = [place EXCEPT !.registered = TRUE]
      <3>1. place.source
        BY <2>2, <2>5 DEF Works
      <3> QED BY <2>1, <2>5, <3>1
    <2> QED BY <2>3, <2>4, <2>5 DEF Provision
  <1>5. Achieved(h, helpers[h])'
    BY <1>1, <1>2, <1>4 DEF Achieved
  <1>6. SnapshotsInOrder'
    BY <1>1, <1>2, SnapshotsStand
  <1>7. EndingInOrder'
    <2>1. ~ ReleaseRecorded /\ ~ ending.removed /\ ~ ending.forgetting /\ ~ ending.forgotten
      BY <1>3, OpenGoesOn
    <2> QED BY <1>1, <1>4, <2>1 DEF EndingInOrder, ReleaseRecorded
  <1>8. (refs \subseteq NamedRefs)'
    <2>1. refs \subseteq NamedRefs
      BY DEF WsInv, Content
    <2>2. NamedRefs \cup {<<"base", 0>>} \subseteq NamedRefs'
      BY <1>1, <1>4 DEF NamedRefs
    <2> QED BY <1>4, <2>1, <2>2
  <1> QED BY <1>1, <1>2, <1>3, <1>4, <1>5, <1>6, <1>7, <1>8, AtWork, WorkerKeeps

\* The worktree is removed only after its release.
LEMMA RemoveKeeps ==
  ASSUME WsInv, MaxUses \in Nat, MaxTries \in Nat, NEW h \in HelperIds, RemoveCheckout(h)
  PROVE  WsInv'
  <1>1. /\ helpers[h].state = "running" /\ helpers[h].result = "none" /\ helpers[h].done = 0
        /\ h[1] = "remove" /\ Advance(h) /\ ReleaseRecorded /\ place' = WorktreeRemoved
        /\ UNCHANGED <<uses, tasks, work, snapshots, refs, ending, useOwner, clients>>
    BY DEF RemoveCheckout, Works
  <1>2. PICK r : /\ OneMoves(h, r) /\ r.state = "running" /\ r.done = helpers[h].done + 1
                 /\ r.result = helpers[h].result /\ helpers'[h] = r
    BY <1>1, AdvanceIs
  <1>3. /\ place' \in [source : BOOLEAN, anchor : BOOLEAN, tree : {"absent", "present", "gone"},
                       registered : BOOLEAN]
        /\ place'.source = place.source
    BY <1>1, AtWork DEF WorktreeRemoved
  <1>4. Achieved(h, helpers[h])'
    BY <1>1, <1>2 DEF Achieved
  <1>5. SnapshotsInOrder'
    BY <1>1, <1>2, SnapshotsStand
  <1>6. EndingInOrder' /\ (refs \subseteq NamedRefs)'
    BY <1>1, <1>3 DEF WsInv, Content, EndingInOrder, NamedRefs, ReleaseRecorded, Latest
  <1> QED BY <1>1, <1>2, <1>3, <1>4, <1>5, <1>6, AtWork, WorkerKeeps

\* A forget deletes every ref there is.
LEMMA ForgetKeeps ==
  ASSUME WsInv, MaxUses \in Nat, MaxTries \in Nat, NEW h \in HelperIds, ForgetRefs(h)
  PROVE  WsInv'
  <1>1. /\ helpers[h].state = "running" /\ helpers[h].result = "none" /\ helpers[h].done = 0
        /\ h[1] = "forget" /\ Advance(h) /\ ending.forgetting /\ refs' = refs \ ending.intent
        /\ UNCHANGED <<uses, tasks, place, work, snapshots, ending, useOwner, clients>>
    BY DEF ForgetRefs, Works, DeleteRefs
  <1>2. PICK r : /\ OneMoves(h, r) /\ r.state = "running" /\ r.done = helpers[h].done + 1
                 /\ r.result = helpers[h].result /\ helpers'[h] = r
    BY <1>1, AdvanceIs
  <1>3. refs' = {}
    BY <1>1 DEF WsInv, Content, EndingInOrder
  <1>4. Achieved(h, helpers[h])'
    BY <1>1, <1>2, <1>3 DEF Achieved
  <1>5. SnapshotsInOrder'
    BY <1>1, <1>2, SnapshotsStand
  <1>6. EndingInOrder' /\ (refs \subseteq NamedRefs)'
    BY <1>1, <1>3 DEF WsInv, Content, EndingInOrder, ReleaseRecorded, Latest
  <1> QED BY <1>1, <1>2, <1>3, <1>4, <1>5, <1>6, AtWork, WorkerKeeps

\* A checkpoint only reads.
LEMMA CheckpointCheckoutKeeps ==
  ASSUME WsInv, MaxUses \in Nat, MaxTries \in Nat, NEW h \in HelperIds, CheckpointCheckout(h)
  PROVE  WsInv'
  <1>1. /\ helpers[h].state = "running" /\ helpers[h].result = "none" /\ helpers[h].done = 0
        /\ h[1] = "checkpoint" /\ Advance(h)
        /\ UNCHANGED <<uses, tasks, place, work, snapshots, refs, ending, useOwner, clients>>
    BY DEF CheckpointCheckout, Works
  <1>2. PICK r : /\ OneMoves(h, r) /\ r.state = "running" /\ r.done = helpers[h].done + 1
                 /\ r.result = helpers[h].result /\ helpers'[h] = r
    BY <1>1, AdvanceIs
  <1>3. Achieved(h, helpers[h])'
    BY <1>1, <1>2 DEF Achieved
  <1>4. SnapshotsInOrder'
    BY <1>1, <1>2, SnapshotsStand
  <1>5. EndingInOrder' /\ (refs \subseteq NamedRefs)'
    BY <1>1 DEF WsInv, Content, EndingInOrder, NamedRefs, ReleaseRecorded, Latest
  <1> QED BY <1>1, <1>2, <1>3, <1>4, <1>5, AtWork, WorkerKeeps


\* A capture records what it sees once, and pins it then.
LEMMA CaptureKeeps ==
  ASSUME WsInv, MaxUses \in Nat, MaxTries \in Nat, NEW h \in HelperIds, CaptureCheckout(h)
  PROVE  WsInv'
  <1>1. /\ helpers[h].state = "running" /\ helpers[h].result = "none" /\ helpers[h].done \in 0..1
        /\ h[1] = "capture" /\ Advance(h)
        /\ UNCHANGED <<uses, tasks, place, work, ending, useOwner, clients>>
    BY DEF CaptureCheckout, CaptureRecordFirst, Works
  <1>2. PICK r : /\ OneMoves(h, r) /\ r.state = "running" /\ r.done = helpers[h].done + 1
                 /\ r.result = helpers[h].result /\ helpers'[h] = r
    BY <1>1, AdvanceIs
  <1>3. Reserved /\ Achieved(h, helpers[h]) /\ h[2] \in Uses /\ h = <<"capture", h[2]>>
    BY <1>1, AtWork, HelperNames DEF Entitled, Starting
  <1>4. /\ ~ ending.forgetting /\ ~ ending.forgotten /\ ~ ending.removed /\ ~ ReleaseRecorded
        /\ refs \subseteq NamedRefs /\ SnapshotsInOrder /\ place.tree # "gone"
    BY <1>3, OpenGoesOn DEF WsInv, Content
  <1>5. /\ snapshots \in [Uses -> [taken : BOOLEAN, content : SUBSET Writers]]
        /\ work \subseteq Writers
    BY AtWork
  <1>6. /\ snapshots' \in [Uses -> [taken : BOOLEAN, content : SUBSET Writers]]
        /\ \A n \in Uses : snapshots[n].taken => snapshots'[n] = snapshots[n]
        /\ \A n \in Uses : n # h[2] => snapshots'[n] = snapshots[n]
        /\ snapshots'[h[2]].taken
        /\ ~ snapshots[h[2]].taken => snapshots'[h[2]].content = work
        /\ refs \subseteq refs' /\ refs' \subseteq refs \cup {h}
        /\ helpers[h].done = 1 => h \in refs'
    <2>1. CASE helpers[h].done = 0
      <3>1. UNCHANGED refs /\ snapshots' = [snapshots EXCEPT ![h[2]] =
                IF @.taken THEN @ ELSE [taken |-> TRUE, content |-> work]]
        BY <2>1 DEF CaptureCheckout, CaptureRecordFirst, Works, Observed
      <3> QED BY <1>3, <1>5, <2>1, <3>1
    <2>2. CASE helpers[h].done = 1
      <3>1. UNCHANGED snapshots /\ refs' = refs \cup {h}
        BY <2>2 DEF CaptureCheckout, CaptureRecordFirst, Works, Pinned
      <3>2. snapshots[h[2]].taken
        BY <1>1, <1>3, <2>2 DEF Achieved
      <3> QED BY <1>3, <1>5, <3>1, <3>2
    <2> QED BY <1>1, <2>1, <2>2
  <1>7. Achieved(h, helpers[h])'
    BY <1>1, <1>2, <1>6 DEF Achieved
  <1>8. SnapshotsInOrder'
    <2> SUFFICES ASSUME NEW g \in HelperIds, g[1] = "capture", snapshots'[g[2]].taken
                 PROVE  /\ helpers'[g].state # "none"
                        /\ uses[g[2]].kind \in {"admission", "verify"} =>
                              InSnapshot(g[2], WriterOf(g[2]))'
                        /\ uses[g[2]].kind = "release" /\ g[2] = Latest =>
                              work \subseteq snapshots'[g[2]].content
      BY <1>1 DEF SnapshotsInOrder, Latest
    <2>1. g[2] \in Uses /\ g = <<"capture", g[2]>>
      BY HelperNames
    <2>2. WriterOf(g[2])' = WriterOf(g[2])
      BY <1>1 DEF WriterOf
    <2>3. CASE snapshots[g[2]].taken
      <3>1. snapshots'[g[2]] = snapshots[g[2]]
        BY <1>6, <2>1, <2>3
      <3>2. helpers[g].state # "none" => helpers'[g].state # "none"
        BY <1>2, MovesOn DEF WsInv
      <3> QED BY <1>1, <1>4, <2>2, <2>3, <3>1, <3>2 DEF SnapshotsInOrder, InSnapshot
    <2>4. CASE ~ snapshots[g[2]].taken
      <3>1. g = h
        BY <1>3, <1>6, <2>1, <2>4
      <3>2. snapshots'[g[2]].content = work
        BY <1>6, <2>4, <3>1
      <3> QED BY <1>1, <1>2, <3>1, <3>2 DEF InSnapshot
    <2> QED BY <2>3, <2>4
  <1>9. EndingInOrder'
    BY <1>1, <1>4 DEF EndingInOrder, ReleaseRecorded
  <1>10. (refs \subseteq NamedRefs)'
    <2>1. NamedRefs \cup {h} \subseteq NamedRefs'
      BY <1>1, <1>3, <1>6 DEF NamedRefs
    <2> QED BY <1>4, <1>6, <2>1
  <1>11. \A n \in Uses : snapshots[n].taken => snapshots'[n].taken
    BY <1>6
  <1> QED BY <1>1, <1>2, <1>3, <1>5, <1>6, <1>7, <1>8, <1>9, <1>10, <1>11, AtWork, WorkerKeeps

\* A command writes only under its own verification, whose capture has not begun.
LEMMA VerifyKeeps ==
  ASSUME WsInv, MaxUses \in Nat, MaxTries \in Nat, NEW h \in HelperIds, VerifyCheckout(h)
  PROVE  WsInv'
  <1>1. /\ helpers[h].state = "running" /\ helpers[h].result = "none" /\ helpers[h].done = 0
        /\ h[1] = "verify" /\ Advance(h) /\ work' = work \cup {h}
        /\ UNCHANGED <<uses, tasks, place, snapshots, refs, ending, useOwner, clients>>
    BY DEF VerifyCheckout, Works
  <1>2. PICK r : /\ OneMoves(h, r) /\ r.state = "running" /\ r.done = helpers[h].done + 1
                 /\ r.result = helpers[h].result /\ helpers'[h] = r
    BY <1>1, AdvanceIs
  <1>3. /\ Reserved /\ h[2] = Latest /\ uses[Latest].kind = "verify"
        /\ h = <<"verify", h[2]>> /\ h[2] \in Uses
    BY <1>1, AtWork, HelperNames DEF Entitled
  <1>4. work' \subseteq Writers
    BY <1>1, <1>3, AtWork DEF Writers
  <1>5. Achieved(h, helpers[h])'
    BY <1>1, <1>2 DEF Achieved
  <1>6. SnapshotsInOrder'
    <2> SUFFICES ASSUME NEW g \in HelperIds, g[1] = "capture", snapshots[g[2]].taken
                 PROVE  /\ helpers'[g].state # "none"
                        /\ uses[g[2]].kind \in {"admission", "verify"} =>
                              InSnapshot(g[2], WriterOf(g[2]))'
                        /\ uses[g[2]].kind = "release" /\ g[2] = Latest =>
                              work' \subseteq snapshots[g[2]].content
      BY <1>1 DEF SnapshotsInOrder, Latest
    <2>1. /\ helpers[g].state # "none"
          /\ uses[g[2]].kind \in {"admission", "verify"} => InSnapshot(g[2], WriterOf(g[2]))
      BY DEF WsInv, Content, SnapshotsInOrder
    <2>2. helpers'[g].state # "none"
      BY <1>2, <2>1, MovesOn DEF WsInv
    <2>3. PredecessorClosed(g[2])
      BY <2>1, AtWork DEF Entitled
    <2>4. WriterOf(g[2]) # h
      <3>1. CASE uses[g[2]].kind = "verify"
        <4>1. Proven(<<"verify", g[2]>>)
          BY <2>3, <3>1 DEF PredecessorClosed
        <4>2. <<"verify", g[2]>> # h
          BY <1>1, <4>1 DEF Proven, Closed
        <4> QED BY <3>1, <4>2 DEF WriterOf
      <3>2. CASE uses[g[2]].kind # "verify" BY <1>3, <3>2 DEF WriterOf
      <3> QED BY <3>1, <3>2
    <2>5. WriterOf(g[2])' = WriterOf(g[2])
      BY <1>1 DEF WriterOf
    <2> QED BY <1>1, <1>3, <2>1, <2>2, <2>4, <2>5 DEF InSnapshot
  <1>7. EndingInOrder' /\ (refs \subseteq NamedRefs)'
    BY <1>1 DEF WsInv, Content, EndingInOrder, NamedRefs, ReleaseRecorded, Latest
  <1> QED BY <1>1, <1>2, <1>4, <1>5, <1>6, <1>7, AtWork, WorkerKeeps

\* Every step of a helper keeps the workspace in order.
LEMMA HelperKeeps ==
  ASSUME WsInv, MaxUses \in Nat, MaxTries \in Nat, NEW h \in HelperIds, HelperStep(h)
  PROVE  WsInv'
  BY HelperTurns, ProvisionKeeps, CaptureKeeps, VerifyKeeps, RemoveKeeps, ForgetKeeps,
     CheckpointCheckoutKeeps DEF HelperStep

\* Tasks that are there stay, with the use they were given, and those that ended have.
TasksStay ==
    /\ tasks' \in [WsTasks -> TaskRecord]
    /\ \A t \in WsTasks : /\ tasks'[t].state = "absent" <=> tasks[t].state = "absent"
                          /\ tasks[t].state # "absent" => tasks'[t].use = tasks[t].use
                          /\ tasks[t].state = "ended" => tasks'[t].state = "ended"

\* The head of the journal as it is rewritten: it keeps what it is for and what it owes.
HeadBecomes(r) ==
    /\ uses' = [uses EXCEPT ![Latest] = r] /\ r \in UseRecord
    /\ r.kind = uses[Latest].kind /\ r.task = uses[Latest].task
    /\ uses[Latest].owed => r.owed
    /\ uses[Latest].baseline => r.baseline
    /\ r.owed => r.kind # "checkpoint"
    /\ r.owed /\ r.kind = "admission" =>
          tasks[r.task].use = Latest /\ tasks[r.task].state # "absent"
    /\ r.receipt # "none" => r.owed
    /\ r.closed \in {"captured", "unavailable"} => r.receipt = r.closed

\* What the helpers and the tasks allow of the head.
HeadAgrees(r) ==
    /\ \A h \in HelperIds : h[1] = "capture" /\ h[2] = Latest /\ r.receipt # "none" =>
          helpers[h].state = "ended" /\ (r.receipt = "captured" => helpers[h].result = "succeeded")
    /\ \A h \in HelperIds : r.closed # "open" =>
          /\ h[1] \in {"provision", "capture"} => helpers[h].state \notin Starting
          /\ h[1] \in {"verify", "checkpoint"} => helpers[h].state \notin {"queued", "running"}
    /\ \A h \in HelperIds : h[1] = "provision" /\ r.owed => helpers[h].state \notin Starting
    /\ \A t \in WsTasks : tasks'[t].state = "running" =>
          tasks'[t].use = Latest /\ r.closed = "open" /\ r.baseline

\* The journal after its head was rewritten.
LEMMA HeadIs ==
  ASSUME WsInv, MaxUses \in Nat, Reserved, NEW r, HeadBecomes(r)
  PROVE  /\ Latest' = Latest /\ Latest \in DOMAIN uses /\ uses' \in Seq(UseRecord)
         /\ DOMAIN uses = 1..Latest /\ DOMAIN uses' = DOMAIN uses /\ DOMAIN uses \subseteq Uses
         /\ uses'[Latest] = r /\ \A n \in DOMAIN uses : n # Latest => uses'[n] = uses[n]
         /\ \A n \in DOMAIN uses : /\ uses'[n].kind = uses[n].kind /\ uses'[n].task = uses[n].task
                                   /\ uses[n].owed => uses'[n].owed
                                   /\ uses[n].baseline => uses'[n].baseline
         /\ Latest <= MaxUses
  <1>1. uses \in Seq(UseRecord) /\ Latest \in 0..MaxUses /\ DOMAIN uses = 1..Latest
        /\ DOMAIN uses \subseteq Uses
    BY UsesNumbered DEF WsInv, WsTypes
  <1>2. Latest \in DOMAIN uses
    BY <1>1 DEF Reserved
  <1>3. uses' \in Seq(UseRecord) /\ Len(uses') = Len(uses)
    BY <1>1, <1>2, ExceptSeq DEF HeadBecomes
  <1>4. /\ DOMAIN uses' = DOMAIN uses /\ uses'[Latest] = r
        /\ \A n \in DOMAIN uses : n # Latest => uses'[n] = uses[n]
    BY <1>2 DEF HeadBecomes
  <1>5. \A n \in DOMAIN uses : /\ uses'[n].kind = uses[n].kind /\ uses'[n].task = uses[n].task
                               /\ uses[n].owed => uses'[n].owed
                               /\ uses[n].baseline => uses'[n].baseline
    BY <1>4 DEF HeadBecomes
  <1> QED BY <1>1, <1>2, <1>3, <1>4, <1>5 DEF Latest

\* A use whose process is gone keeps that while tasks stay and uses keep what they are for.
LEMMA ClosedAlways ==
  ASSUME TasksStay, UNCHANGED helpers, NEW n, uses'[n].kind = uses[n].kind,
         uses'[n].task = uses[n].task, uses[n].kind \in Subjects,
         uses[n].kind = "admission" => uses[n].task \in WsTasks, PredecessorClosed(n)
  PROVE  PredecessorClosed(n)'
  <1>1. \A h : Proven(h)' = Proven(h)
    BY DEF Proven
  <1> QED BY <1>1 DEF PredecessorClosed, TasksStay, Closed, Subjects

\* The journal keeps its order when its head is rewritten so.
LEMMA JournalGoesOn ==
  ASSUME WsInv, MaxUses \in Nat, Reserved, NEW r, HeadBecomes(r), HeadAgrees(r), TasksStay,
         UNCHANGED <<helpers, ending>>
  PROVE  Journal'
  <1>1. /\ Latest' = Latest /\ Latest \in DOMAIN uses
        /\ DOMAIN uses = 1..Latest /\ DOMAIN uses' = DOMAIN uses
        /\ uses'[Latest] = r /\ \A n \in DOMAIN uses : n # Latest => uses'[n] = uses[n]
        /\ \A n \in DOMAIN uses : /\ uses'[n].kind = uses[n].kind /\ uses'[n].task = uses[n].task
                                  /\ uses[n].owed => uses'[n].owed
    BY HeadIs
  <1>2. Journal
    BY DEF WsInv
  <1>3. UsesInOrder'
    <2> SUFFICES ASSUME NEW n \in DOMAIN uses
                 PROVE  /\ n < Latest => uses'[n].closed # "open"
                        /\ uses'[n].kind = "admission" => uses'[n].task \in WsTasks
                        /\ uses'[n].owed => uses'[n].kind # "checkpoint"
                        /\ uses'[n].owed /\ uses'[n].kind = "admission" =>
                              /\ tasks'[uses'[n].task].use = n
                              /\ tasks'[uses'[n].task].state # "absent"
                        /\ uses'[n].receipt # "none" => uses'[n].owed
                        /\ uses'[n].closed \in {"captured", "unavailable"} =>
                              uses'[n].receipt = uses'[n].closed
      BY <1>1 DEF UsesInOrder
    <2>1. /\ n < Latest => uses[n].closed # "open"
          /\ uses[n].kind = "admission" => uses[n].task \in WsTasks
          /\ uses[n].owed => uses[n].kind # "checkpoint"
          /\ uses[n].owed /\ uses[n].kind = "admission" =>
                tasks[uses[n].task].use = n /\ tasks[uses[n].task].state # "absent"
          /\ uses[n].receipt # "none" => uses[n].owed
          /\ uses[n].closed \in {"captured", "unavailable"} => uses[n].receipt = uses[n].closed
      BY <1>2 DEF Journal, UsesInOrder
    <2>2. CASE n # Latest BY <1>1, <2>1, <2>2 DEF TasksStay
    <2>3. CASE n = Latest
      <3>1. uses'[n] = r /\ ~ (n < Latest)
        BY <1>1, <2>3
      <3> QED BY <2>1, <2>3, <3>1 DEF TasksStay, HeadBecomes
    <2> QED BY <2>2, <2>3
  <1>4. ReceiptsInOrder'
    <2> SUFFICES ASSUME NEW h \in HelperIds, h[1] = "capture", h[2] \in DOMAIN uses
                 PROVE  /\ uses'[h[2]].receipt # "none" => helpers[h].state = "ended"
                        /\ uses'[h[2]].receipt = "captured" => helpers[h].result = "succeeded"
      BY <1>1 DEF ReceiptsInOrder
    <2>1. CASE h[2] # Latest BY <1>1, <1>2, <2>1 DEF Journal, ReceiptsInOrder
    <2>2. CASE h[2] = Latest BY <1>1, <2>2 DEF HeadAgrees
    <2> QED BY <2>1, <2>2
  <1>5. TasksInOrder'
    <2> SUFFICES ASSUME NEW t \in WsTasks
                 PROVE  /\ tasks'[t].state # "absent" =>
                              /\ tasks'[t].use \in DOMAIN uses
                              /\ uses'[tasks'[t].use].kind = "admission"
                              /\ uses'[tasks'[t].use].task = t
                        /\ tasks'[t].state = "running" =>
                              /\ tasks'[t].use = Latest /\ uses'[Latest].closed = "open"
                              /\ uses'[Latest].baseline
      BY <1>1 DEF TasksInOrder
    <2>1. tasks[t].state # "absent" =>
             /\ tasks[t].use \in DOMAIN uses
             /\ uses[tasks[t].use].kind = "admission" /\ uses[tasks[t].use].task = t
      BY <1>2 DEF Journal, TasksInOrder
    <2> QED BY <1>1, <2>1 DEF TasksStay, HeadAgrees
  <1>6. ASSUME NEW h \in HelperIds PROVE Entitled(h, helpers[h].state)'
    <2> DEFINE s == helpers[h].state
    <2>1. Entitled(h, s)
      BY <1>2 DEF Journal, HelpersInOrder
    <2>2. \A n \in DOMAIN uses : PredecessorClosed(n) => PredecessorClosed(n)'
      <3> SUFFICES ASSUME NEW n \in DOMAIN uses, PredecessorClosed(n) PROVE PredecessorClosed(n)'
        OBVIOUS
      <3>1. uses[n].kind \in Subjects /\ (uses[n].kind = "admission" => uses[n].task \in WsTasks)
        BY <1>2, UsesNumbered DEF WsInv, UseRecord, Journal, UsesInOrder
      <3>2. uses'[n].kind = uses[n].kind /\ uses'[n].task = uses[n].task
        BY <1>1
      <3> QED BY <3>1, <3>2, ClosedAlways
    <2>3. TaskAbsent(Latest) => TaskAbsent(Latest)'
      BY <1>1 DEF TaskAbsent, TasksStay
    <2>4. UNCHANGED <<s, ending, ReleaseRecorded>>
      BY DEF ReleaseRecorded
    <2>5. Reserved' <=> r.closed = "open"
      BY <1>1 DEF Reserved
    <2> HIDE DEF s
    <2>6. h[1] = "provision" /\ s \in Starting =>
             /\ r.closed = "open" /\ h[2] = Latest /\ r.kind = "admission"
             /\ ~ r.owed /\ TaskAbsent(Latest)'
      BY <2>1, <2>3 DEF Entitled, HeadAgrees, HeadBecomes, s
    <2>7. h[1] = "capture" /\ s # "none" =>
             h[2] \in DOMAIN uses /\ uses'[h[2]].owed /\ PredecessorClosed(h[2])'
      BY <1>1, <2>1, <2>2 DEF Entitled
    <2>8. h[1] = "capture" /\ s \in Starting =>
             r.closed = "open" /\ h[2] = Latest /\ r.receipt = "none"
      <3> SUFFICES ASSUME h[1] = "capture", s \in Starting
                   PROVE  r.closed = "open" /\ h[2] = Latest /\ r.receipt = "none"
        OBVIOUS
      <3>1. h[2] = Latest
        BY <2>1 DEF Entitled
      <3>2. s # "ended"
        BY DEF Starting
      <3> QED BY <3>1, <3>2 DEF HeadAgrees, s
    <2>9. h[1] \in {"verify", "checkpoint"} /\ s \in {"queued", "running"} =>
             r.closed = "open" /\ h[2] = Latest /\ r.kind = h[1]
      BY <2>1 DEF Entitled, HeadAgrees, HeadBecomes, s
    <2>10. /\ h[1] \in {"verify", "checkpoint"} /\ s = "ended" => h[2] \in DOMAIN uses
           /\ h[1] = "remove" /\ s # "none" => ReleaseRecorded
           /\ h[1] = "forget" /\ s # "none" => ending.forgetting
           /\ h[1] \in {"remove", "forget"} /\ s # "none" =>
                \A j \in 1..(h[2] - 1) : helpers[<<h[1], j>>].state = "ended"
      BY <2>1 DEF Entitled
    <2>11. uses'[Latest'] = r
      BY <1>1
    <2> QED BY <1>1, <2>4, <2>5, <2>6, <2>7, <2>8, <2>9, <2>10, <2>11 DEF Entitled, s
  <1> QED BY <1>3, <1>4, <1>5, <1>6 DEF Journal, HelpersInOrder

\* The worktree, its snapshots and its refs agree with a journal whose head was rewritten.
LEMMA ContentGoesOn ==
  ASSUME WsInv, MaxUses \in Nat, Reserved, NEW r, HeadBecomes(r),
         UNCHANGED <<helpers, place, work, snapshots, refs, ending>>
  PROVE  Content'
  <1>1. /\ Latest' = Latest /\ DOMAIN uses' = DOMAIN uses
        /\ \A n \in DOMAIN uses : /\ uses'[n].kind = uses[n].kind /\ uses'[n].task = uses[n].task
                                  /\ uses[n].baseline => uses'[n].baseline
    BY HeadIs
  <1>2. Content
    BY DEF WsInv
  <1>3. WorkInOrder'
    BY <1>2 DEF Content, WorkInOrder, Achieved
  <1>4. SnapshotsInOrder'
    <2> SUFFICES ASSUME NEW h \in HelperIds, h[1] = "capture", snapshots[h[2]].taken
                 PROVE  /\ helpers[h].state # "none"
                        /\ uses'[h[2]].kind \in {"admission", "verify"} =>
                              InSnapshot(h[2], WriterOf(h[2]))'
                        /\ uses'[h[2]].kind = "release" /\ h[2] = Latest =>
                              work \subseteq snapshots[h[2]].content
      BY <1>1 DEF SnapshotsInOrder
    <2>1. /\ helpers[h].state # "none"
          /\ uses[h[2]].kind \in {"admission", "verify"} => InSnapshot(h[2], WriterOf(h[2]))
          /\ uses[h[2]].kind = "release" /\ h[2] = Latest => work \subseteq snapshots[h[2]].content
      BY <1>2 DEF Content, SnapshotsInOrder
    <2>2. h[2] \in DOMAIN uses
      BY <2>1, AtWork DEF Entitled
    <2>3. WriterOf(h[2])' = WriterOf(h[2])
      BY <1>1, <2>2 DEF WriterOf
    <2> QED BY <1>1, <2>1, <2>2, <2>3 DEF InSnapshot
  <1>5. EndingInOrder'
    BY <1>2, OpenGoesOn DEF Content, EndingInOrder, ReleaseRecorded
  <1>6. (refs \subseteq NamedRefs)'
    <2>1. NamedRefs \subseteq NamedRefs'
      BY <1>1 DEF NamedRefs
    <2> QED BY <1>2, <2>1 DEF Content
  <1> QED BY <1>3, <1>4, <1>5, <1>6 DEF Content

\* The types after the head was rewritten.
LEMMA TypesGoOn ==
  ASSUME WsInv, MaxUses \in Nat, Reserved, NEW r, HeadBecomes(r), TasksStay,
         UNCHANGED <<helpers, place, work, snapshots, ending>>,
         clients' \in [Clients -> ClientRecord], useOwner' \in Clients \cup {NoClient}
  PROVE  WsTypes'
  <1>1. /\ uses' \in Seq(UseRecord) /\ Latest' = Latest /\ Latest <= MaxUses
        /\ DOMAIN uses' = DOMAIN uses /\ DOMAIN uses = 1..Latest
    BY HeadIs
  <1>2. \A n \in DOMAIN uses' : uses'[n] \in UseRecord
    BY <1>1, ElementOfSeq, LenProperties DEF Latest
  <1>3. Len(uses') <= MaxUses
    BY <1>1 DEF Latest
  <1> QED BY <1>1, <1>2, <1>3 DEF WsInv, WsTypes, WsTypeOK, TasksStay, UseRecord, TaskRecord

\* What commands know stands while tasks stay and the head is only rewritten for a task.
LEMMA ClientsGoOn ==
  ASSUME WsInv, MaxUses \in Nat, TasksStay, UNCHANGED <<helpers, useOwner, clients>>,
         \/ UNCHANGED uses
         \/ Reserved /\ \E r : HeadBecomes(r) /\ r.owed = uses[Latest].owed /\ r.closed = "open"
  PROVE  ClientsInOrder'
  <1>1. /\ Latest' = Latest /\ Reserved' = Reserved
        /\ Reserved => /\ uses'[Latest].kind = uses[Latest].kind
                       /\ uses'[Latest].task = uses[Latest].task
                       /\ uses'[Latest].owed = uses[Latest].owed
    <2>1. CASE UNCHANGED uses BY <2>1 DEF Latest, Reserved
    <2>2. CASE Reserved /\ \E r : /\ HeadBecomes(r) /\ r.owed = uses[Latest].owed
                                  /\ r.closed = "open"
      <3>1. PICK r : HeadBecomes(r) /\ r.owed = uses[Latest].owed /\ r.closed = "open"
        BY <2>2
      <3>2. Latest' = Latest /\ uses'[Latest] = r
        BY <2>2, <3>1, HeadIs
      <3> QED BY <2>2, <3>1, <3>2 DEF Reserved, HeadBecomes
    <2> QED BY <2>1, <2>2
  <1>2. TaskAbsent(Latest) => TaskAbsent(Latest)'
    BY <1>1 DEF TaskAbsent, TasksStay
  <1> SUFFICES ASSUME NEW c \in Clients PROVE Lawful(c)'
    BY DEF ClientsInOrder
  <1>3. Lawful(c)
    BY DEF WsInv, ClientsInOrder
  <1> QED BY <1>1, <1>2, <1>3 DEF Lawful, Knows, TasksStay

\* A provider starts once its baseline is recorded, in the use that is open for it.
LEMMA LaunchKeeps ==
  ASSUME WsInv, MaxUses \in Nat, NEW t \in WsTasks, LaunchTask(t)
  PROVE  WsInv'
  <1> DEFINE n == tasks[t].use
             r == [uses[n] EXCEPT !.baseline = TRUE]
  <1>1. /\ tasks[t].state = "submitted" /\ uses[n].closed = "open"
        /\ uses' = [uses EXCEPT ![n] = r]
        /\ tasks' = [tasks EXCEPT ![t].state = "running"]
        /\ UNCHANGED <<helpers, place, work, snapshots, refs, ending, useOwner, clients>>
    BY DEF LaunchTask
  <1>2. n \in DOMAIN uses /\ uses[n].kind = "admission" /\ uses[n].task = t
    BY <1>1 DEF WsInv, Journal, TasksInOrder
  <1>3. Latest \in 0..MaxUses /\ DOMAIN uses = 1..Latest /\ uses[n] \in UseRecord
    BY <1>2, UsesNumbered DEF WsInv
  <1>4. ~ (n < Latest)
    BY <1>1, <1>2 DEF WsInv, Journal, UsesInOrder
  <1>5. n = Latest /\ Reserved
    BY <1>1, <1>2, <1>3, <1>4 DEF Reserved
  <1>6. /\ r \in UseRecord /\ r.kind = uses[n].kind /\ r.task = uses[n].task
        /\ r.owed = uses[n].owed /\ r.receipt = uses[n].receipt /\ r.closed = uses[n].closed
        /\ r.baseline
    BY <1>3 DEF UseRecord
  <1>7. TasksStay /\ \A u \in WsTasks : tasks'[u].state = "running" =>
                        u = t \/ tasks[u].state = "running"
    BY <1>1 DEF WsInv, WsTypes, TaskRecord, TasksStay
  <1> HIDE DEF r, n
  <1>8. HeadBecomes(r)
    BY <1>1, <1>2, <1>5, <1>6 DEF HeadBecomes, WsInv, Journal, UsesInOrder
  <1>9. HeadAgrees(r)
    <2>1. \A h \in HelperIds : h[1] = "capture" /\ h[2] = Latest /\ r.receipt # "none" =>
             /\ helpers[h].state = "ended"
             /\ r.receipt = "captured" => helpers[h].result = "succeeded"
      BY <1>2, <1>5, <1>6 DEF WsInv, Journal, ReceiptsInOrder
    <2>2. \A h \in HelperIds : h[1] = "provision" => helpers[h].state \notin Starting
      BY <1>1, <1>5, AtWork DEF Entitled, TaskAbsent, n
    <2>3. \A u \in WsTasks : tasks'[u].state = "running" => tasks'[u].use = Latest
      BY <1>1, <1>5, <1>7 DEF WsInv, Journal, TasksInOrder, TasksStay, n
    <2> QED BY <1>1, <1>6, <2>1, <2>2, <2>3 DEF HeadAgrees
  <1>10. Journal' /\ Content'
    BY <1>1, <1>5, <1>7, <1>8, <1>9, JournalGoesOn, ContentGoesOn
  <1>11. WsTypes'
    BY <1>1, <1>5, <1>7, <1>8, TypesGoOn DEF WsInv, WsTypes, WsTypeOK
  <1>12. ClientsInOrder'
    BY <1>1, <1>5, <1>6, <1>7, <1>8, ClientsGoOn
  <1> QED BY <1>10, <1>11, <1>12 DEF WsInv

\* Tasks that are there stay, and a new one is for the open use, which is provisioned.
TasksMove ==
    /\ tasks' \in [WsTasks -> TaskRecord]
    /\ \A t \in WsTasks :
          /\ tasks[t].state # "absent" =>
                tasks'[t].use = tasks[t].use /\ tasks'[t].state # "absent"
          /\ tasks[t].state = "ended" => tasks'[t].state = "ended"
          /\ tasks'[t].state = "running" => tasks[t].state = "running"
          /\ tasks[t].state = "absent" /\ tasks'[t].state # "absent" =>
                /\ tasks'[t].use = Latest /\ Latest \in DOMAIN uses
                /\ uses[Latest].kind = "admission" /\ uses[Latest].task = t
                /\ \A h \in HelperIds : h[1] = "provision" => helpers[h].state \notin Starting

\* The journal agrees with tasks that moved so.
LEMMA TasksJournal ==
  ASSUME WsInv, MaxUses \in Nat, TasksMove, UNCHANGED <<uses, helpers, ending>>
  PROVE  Journal'
  <1>1. UNCHANGED <<Latest, Reserved, ReleaseRecorded>> /\ Journal
    BY DEF Latest, Reserved, ReleaseRecorded, WsInv
  <1>2. UsesInOrder'
    BY <1>1 DEF Journal, UsesInOrder, TasksMove
  <1>3. ReceiptsInOrder'
    BY <1>1 DEF Journal, ReceiptsInOrder
  <1>4. TasksInOrder'
    <2> SUFFICES ASSUME NEW t \in WsTasks
                 PROVE  /\ tasks'[t].state # "absent" =>
                              /\ tasks'[t].use \in DOMAIN uses
                              /\ uses[tasks'[t].use].kind = "admission"
                              /\ uses[tasks'[t].use].task = t
                        /\ tasks'[t].state = "running" =>
                              /\ tasks'[t].use = Latest /\ uses[Latest].closed = "open"
                              /\ uses[Latest].baseline
      BY <1>1 DEF TasksInOrder
    <2>1. /\ tasks[t].state # "absent" =>
                /\ tasks[t].use \in DOMAIN uses
                /\ uses[tasks[t].use].kind = "admission" /\ uses[tasks[t].use].task = t
          /\ tasks[t].state = "running" =>
                tasks[t].use = Latest /\ uses[Latest].closed = "open" /\ uses[Latest].baseline
      BY <1>1 DEF Journal, TasksInOrder
    <2>2. CASE tasks[t].state = "absent" BY <2>2 DEF TasksMove
    <2>3. CASE tasks[t].state # "absent" BY <2>1, <2>3 DEF TasksMove
    <2> QED BY <2>2, <2>3
  <1>5. ASSUME NEW h \in HelperIds PROVE Entitled(h, helpers[h].state)'
    <2> DEFINE s == helpers[h].state
    <2>1. Entitled(h, s)
      BY <1>1 DEF Journal, HelpersInOrder
    <2>2. \A n \in DOMAIN uses : PredecessorClosed(n) => PredecessorClosed(n)'
      <3> SUFFICES ASSUME NEW n \in DOMAIN uses, PredecessorClosed(n) PROVE PredecessorClosed(n)'
        OBVIOUS
      <3>1. uses[n].kind \in Subjects /\ (uses[n].kind = "admission" => uses[n].task \in WsTasks)
        BY <1>1, UsesNumbered DEF WsInv, UseRecord, Journal, UsesInOrder
      <3>2. \A g : Proven(g)' = Proven(g)
        BY DEF Proven
      <3> QED BY <3>1, <3>2 DEF PredecessorClosed, TasksMove, Closed, Subjects
    <2>3. h[1] = "provision" /\ s \in Starting /\ TaskAbsent(Latest) => TaskAbsent(Latest)'
      BY <1>1 DEF TaskAbsent, TasksMove
    <2>4. UNCHANGED s
      OBVIOUS
    <2> HIDE DEF s
    <2>5. h[1] = "provision" /\ s \in Starting =>
             /\ Reserved /\ h[2] = Latest /\ uses[Latest].kind = "admission"
             /\ ~ uses[Latest].owed /\ TaskAbsent(Latest)'
      BY <2>1, <2>3 DEF Entitled
    <2>6. h[1] = "capture" /\ s # "none" =>
             h[2] \in DOMAIN uses /\ uses[h[2]].owed /\ PredecessorClosed(h[2])'
      BY <2>1, <2>2 DEF Entitled
    <2>7. /\ h[1] = "capture" /\ s \in Starting =>
                Reserved /\ h[2] = Latest /\ uses[Latest].receipt = "none"
          /\ h[1] \in {"verify", "checkpoint"} /\ s \in {"queued", "running"} =>
                Reserved /\ h[2] = Latest /\ uses[Latest].kind = h[1]
          /\ h[1] \in {"verify", "checkpoint"} /\ s = "ended" => h[2] \in DOMAIN uses
          /\ h[1] = "remove" /\ s # "none" => ReleaseRecorded
          /\ h[1] = "forget" /\ s # "none" => ending.forgetting
          /\ h[1] \in {"remove", "forget"} /\ s # "none" =>
                \A j \in 1..(h[2] - 1) : helpers[<<h[1], j>>].state = "ended"
      BY <2>1 DEF Entitled
    <2> QED BY <1>1, <2>4, <2>5, <2>6, <2>7 DEF Entitled, s
  <1> QED BY <1>2, <1>3, <1>4, <1>5 DEF Journal, HelpersInOrder

\* The records agree with tasks that moved so.
LEMMA TasksGoOn ==
  ASSUME WsInv, MaxUses \in Nat, TasksMove,
         UNCHANGED <<uses, helpers, place, work, snapshots, refs, ending>>,
         clients' \in [Clients -> ClientRecord], useOwner' \in Clients \cup {NoClient}
  PROVE  WsTypes' /\ Journal' /\ Content'
  <1>1. UNCHANGED <<Latest, Reserved, ReleaseRecorded>>
    BY DEF Latest, Reserved, ReleaseRecorded
  <1>2. WsTypes'
    BY DEF WsInv, WsTypes, WsTypeOK, TasksMove, TaskRecord
  <1>3. Content'
    BY <1>1 DEF WsInv, Content, WorkInOrder, Achieved, SnapshotsInOrder, InSnapshot, WriterOf,
                EndingInOrder, NamedRefs
  <1> QED BY <1>2, <1>3, TasksJournal

\* A task may end whenever it is there.
LEMMA TaskEndKeeps ==
  ASSUME WsInv, MaxUses \in Nat, NEW t \in WsTasks, TaskEnds(t)
  PROVE  WsInv'
  <1>1. /\ tasks[t].state # "absent" /\ tasks' = [tasks EXCEPT ![t].state = "ended"]
        /\ UNCHANGED <<uses, helpers, place, work, snapshots, refs, ending, useOwner, clients>>
    BY DEF TaskEnds
  <1>2. tasks \in [WsTasks -> TaskRecord] /\ useOwner \in Clients \cup {NoClient}
        /\ clients \in [Clients -> ClientRecord]
    BY DEF WsInv, WsTypes, WsTypeOK
  <1>3. TasksStay /\ TasksMove
    BY <1>1, <1>2 DEF TaskRecord, TasksStay, TasksMove
  <1>4. WsTypes' /\ Journal' /\ Content'
    BY <1>1, <1>2, <1>3, TasksGoOn
  <1>5. ClientsInOrder'
    BY <1>1, <1>3, ClientsGoOn
  <1> QED BY <1>4, <1>5 DEF WsInv

\* A task at work owns the open use.
LEMMA AtWorkOpen ==
  ASSUME WsInv, MaxUses \in Nat, NEW t \in WsTasks, tasks[t].state = "running"
  PROVE  /\ tasks[t].use = Latest /\ Latest \in DOMAIN uses /\ Latest \in Uses
         /\ uses[Latest].kind = "admission" /\ uses[Latest].task = t
         /\ uses[Latest].baseline /\ Reserved
  <1>1. /\ tasks[t].use \in DOMAIN uses /\ uses[tasks[t].use].kind = "admission"
        /\ uses[tasks[t].use].task = t /\ tasks[t].use = Latest
        /\ uses[Latest].closed = "open" /\ uses[Latest].baseline
    BY DEF WsInv, Journal, TasksInOrder
  <1> QED BY <1>1, UsesNumbered DEF WsInv, Reserved

\* A baseline is pinned only when the journal has it.
LEMMA PinKeeps ==
  ASSUME WsInv, MaxUses \in Nat, NEW t \in WsTasks, PinTurnBaseline(t)
  PROVE  WsInv'
  <1>1. /\ tasks[t].state = "running" /\ refs' = refs \cup {<<"baseline", tasks[t].use>>}
        /\ UNCHANGED <<uses, tasks, helpers, place, work, snapshots, ending, useOwner, clients>>
    BY DEF PinTurnBaseline, Pinned
  <1>2. /\ Reserved /\ <<"baseline", tasks[t].use>> \in NamedRefs
    BY <1>1, AtWorkOpen DEF NamedRefs
  <1>3. /\ ~ ending.forgetting /\ ~ ending.forgotten /\ UNCHANGED <<Latest, Reserved>>
        /\ \A g \in HelperIds : g[1] = "forget" => helpers[g].state = "none"
    BY <1>1, <1>2, OpenGoesOn DEF Latest, Reserved
  <1>4. WorkInOrder'
    <2> SUFFICES ASSUME NEW g \in HelperIds PROVE Achieved(g, helpers[g])'
      BY DEF WorkInOrder
    <2>1. Achieved(g, helpers[g])
      BY AtWork
    <2>2. g[1] = "forget" => helpers[g].done = 0 /\ helpers[g].result = "none"
      BY <1>3, <2>1 DEF Achieved
    <2> QED BY <1>1, <1>3, <2>1, <2>2 DEF Achieved
  <1>5. SnapshotsInOrder' /\ EndingInOrder' /\ (refs \subseteq NamedRefs)'
    BY <1>1, <1>2, <1>3 DEF WsInv, Content, SnapshotsInOrder, InSnapshot, WriterOf, EndingInOrder,
                            NamedRefs, ReleaseRecorded
  <1>6. Journal'
    <2>1. TasksMove
      BY <1>1 DEF WsInv, WsTypes, TasksMove
    <2> QED BY <1>1, <2>1, TasksJournal
  <1>7. WsTypes'
    BY <1>1 DEF WsInv, WsTypes, WsTypeOK
  <1>8. ClientsInOrder'
    BY <1>1, ClientsStand
  <1> QED BY <1>4, <1>5, <1>6, <1>7, <1>8 DEF WsInv, Content

\* A provider writes only in its own use, whose capture has not begun.
LEMMA WriteKeeps ==
  ASSUME WsInv, MaxUses \in Nat, NEW t \in WsTasks, ProviderWrites(t)
  PROVE  WsInv'
  <1>1. /\ tasks[t].state = "running" /\ work' = work \cup {<<"task", t>>}
        /\ UNCHANGED <<uses, tasks, helpers, place, snapshots, refs, ending, useOwner, clients>>
    BY DEF ProviderWrites
  <1>2. uses[Latest].kind = "admission" /\ UNCHANGED <<Latest, Reserved>>
    BY <1>1, AtWorkOpen DEF Latest, Reserved
  <1>3. SnapshotsInOrder'
    <2> SUFFICES ASSUME NEW g \in HelperIds, g[1] = "capture", snapshots[g[2]].taken
                 PROVE  /\ helpers[g].state # "none"
                        /\ uses[g[2]].kind \in {"admission", "verify"} =>
                              InSnapshot(g[2], WriterOf(g[2]))'
                        /\ uses[g[2]].kind = "release" /\ g[2] = Latest =>
                              work' \subseteq snapshots[g[2]].content
      BY <1>1, <1>2 DEF SnapshotsInOrder
    <2>1. /\ helpers[g].state # "none"
          /\ uses[g[2]].kind \in {"admission", "verify"} => InSnapshot(g[2], WriterOf(g[2]))
      BY DEF WsInv, Content, SnapshotsInOrder
    <2>2. PredecessorClosed(g[2])
      BY <2>1, AtWork DEF Entitled
    <2>3. uses[g[2]].kind \in {"admission", "verify"} => WriterOf(g[2]) # <<"task", t>>
      BY <1>1, <2>2 DEF WriterOf, PredecessorClosed, Closed
    <2>4. WriterOf(g[2])' = WriterOf(g[2])
      BY <1>1 DEF WriterOf
    <2> QED BY <1>1, <1>2, <2>1, <2>3, <2>4 DEF InSnapshot
  <1>4. WorkInOrder' /\ EndingInOrder' /\ (refs \subseteq NamedRefs)'
    BY <1>1, <1>2 DEF WsInv, Content, WorkInOrder, Achieved, EndingInOrder, NamedRefs,
                      ReleaseRecorded
  <1>5. Journal'
    <2>1. TasksMove
      BY <1>1 DEF WsInv, WsTypes, TasksMove
    <2> QED BY <1>1, <2>1, TasksJournal
  <1>6. WsTypes'
    BY <1>1 DEF WsInv, WsTypes, WsTypeOK, Writers
  <1>7. ClientsInOrder'
    BY <1>1, ClientsStand
  <1> QED BY <1>3, <1>4, <1>5, <1>6, <1>7 DEF WsInv, Content

\* Every step of a task keeps the workspace in order.
LEMMA TaskKeeps ==
  ASSUME WsInv, MaxUses \in Nat, NEW t \in WsTasks, TaskStep(t)
  PROVE  WsInv'
  BY LaunchKeeps, PinKeeps, WriteKeeps, TaskEndKeeps DEF TaskStep

\* A command at work holds the lease: the others are away.
LEMMA CommandKnows ==
  ASSUME WsInv, NoClient \notin Clients, NEW c \in Clients, NEW k \in ClientRecord,
         clients' = [clients EXCEPT ![c] = k], useOwner \in {c, NoClient},
         useOwner' = IF k.at = "away" THEN NoClient ELSE c, Knows(k)'
  PROVE  ClientsInOrder'
  <1> SUFFICES ASSUME NEW d \in Clients PROVE Lawful(d)'
    BY DEF ClientsInOrder
  <1>1. clients \in [Clients -> ClientRecord]
    BY DEF WsInv, WsTypes
  <1>2. CASE d = c
    <2>1. clients'[d] = k
      BY <1>1, <1>2
    <2>2. k.at # "away" <=> useOwner' = c
      OBVIOUS
    <2>3. Knows(clients[d])'
      BY <2>1 DEF Knows
    <2> QED BY <1>2, <2>1, <2>2, <2>3 DEF Lawful
  <1>3. CASE d # c
    <2>1. clients'[d] = clients[d] /\ clients[d].at = "away"
      BY <1>1, <1>3 DEF WsInv, ClientsInOrder, Lawful
    <2>2. Knows(clients[d])'
      BY <2>1 DEF Knows
    <2> QED BY <1>3, <2>1, <2>2 DEF Lawful
  <1> QED BY <1>2, <1>3

\* The lease and the commands after one of them went on.
GoesTo(c, k) ==
    /\ clients' = [clients EXCEPT ![c] = k] /\ k \in ClientRecord
    /\ useOwner \in {c, NoClient} /\ useOwner' = IF k.at = "away" THEN NoClient ELSE c

LEMMA CommandTypes ==
  ASSUME WsInv, NEW c \in Clients, NEW k, GoesTo(c, k)
  PROVE  clients' \in [Clients -> ClientRecord] /\ useOwner' \in Clients \cup {NoClient}
  BY DEF WsInv, WsTypes, GoesTo

\* A command that leaves the records alone.
LEMMA RecordsStand ==
  ASSUME WsInv, MaxUses \in Nat, UNCHANGED <<uses, helpers, ending, World>>,
         clients' \in [Clients -> ClientRecord], useOwner' \in Clients \cup {NoClient}
  PROVE  WsTypes' /\ Journal' /\ Content'
  <1>1. TasksMove
    BY DEF WsInv, WsTypes, TasksMove, World
  <1> QED BY <1>1, TasksGoOn DEF World

\* What a command that holds the lease knows.
LEMMA HolderKnows ==
  ASSUME WsInv, NEW c \in Clients, useOwner = c
  PROVE  clients[c] \in ClientRecord /\ Knows(clients[c]) /\ clients[c].at # "away"
  BY DEF WsInv, WsTypes, ClientsInOrder, Lawful

\* A command moves on to its next step.
LEMMA StepsOn ==
  ASSUME WsInv, NEW c \in Clients, useOwner = c, UNCHANGED useOwner,
         NEW step \in {"reconcile", "act", "provision", "create", "oblige", "submit", "reserve"},
         At(c, step)
  PROVE  \E k : /\ GoesTo(c, k) /\ k.at = step /\ k.goal = clients[c].goal
                /\ k.task = clients[c].task /\ k.discard = clients[c].discard
  <1> DEFINE k == [clients[c] EXCEPT !.at = step]
  <1>1. clients[c] \in ClientRecord
    BY HolderKnows
  <1>2. clients' = [clients EXCEPT ![c] = k]
    BY DEF At
  <1>3. /\ k \in ClientRecord /\ k.at = step /\ k.goal = clients[c].goal
        /\ k.task = clients[c].task /\ k.discard = clients[c].discard
    BY <1>1 DEF ClientRecord
  <1> HIDE DEF k
  <1> QED BY <1>2, <1>3 DEF GoesTo

\* A command goes away, or is where it was.
LEMMA Leaves ==
  ASSUME WsInv, NEW c \in Clients, useOwner = c, Leave(c)
  PROVE  GoesTo(c, Away)
  <1>1. Away \in ClientRecord /\ Away.at = "away"
    BY DEF Away, ClientRecord, Nothing
  <1> QED BY <1>1 DEF GoesTo, Leave

LEMMA Stays ==
  ASSUME WsInv, NEW c \in Clients, useOwner = c, UNCHANGED <<useOwner, clients>>
  PROVE  GoesTo(c, clients[c])
  <1>1. clients \in [Clients -> ClientRecord] /\ clients[c].at # "away"
    BY HolderKnows DEF WsInv, WsTypes
  <1>2. clients = [clients EXCEPT ![c] = clients[c]]
    BY <1>1
  <1> QED BY <1>1, <1>2 DEF GoesTo

\* A command starts, stops, or has nothing left to reconcile.
LEMMA BeginKeeps ==
  ASSUME WsInv, MaxUses \in Nat, NoClient \notin Clients, NEW c \in Clients, Begin(c)
  PROVE  WsInv'
  <1>1. useOwner = NoClient /\ useOwner' = c /\ UNCHANGED <<uses, helpers, ending, World>>
    BY DEF Begin
  <1>2. PICK k : /\ clients' = [clients EXCEPT ![c] = k]
                 /\ \/ \E t \in WsTasks : tasks[t].state # "absent"
                                            /\ k = Errand("dispatch", t, FALSE, "oblige")
                    \/ k = Errand("forget", Nothing, FALSE, "act")
                    \/ k = Errand(Nothing, Nothing, FALSE, "reconcile")
    BY DEF Begin
  <1>3. k \in ClientRecord /\ k.at # "away" /\ Knows(k)'
    <2>1. CASE \E t \in WsTasks : tasks[t].state # "absent"
                                    /\ k = Errand("dispatch", t, FALSE, "oblige")
      <3>1. PICK t \in WsTasks : tasks[t].state # "absent"
                                    /\ k = Errand("dispatch", t, FALSE, "oblige")
        BY <2>1
      <3>2. /\ k \in ClientRecord /\ k.at = "oblige" /\ k.goal = "dispatch" /\ k.task = t
        BY <3>1 DEF Errand, ClientRecord, Nothing
      <3>3. tasks' = tasks
        BY <1>1 DEF World
      <3> QED BY <3>1, <3>2, <3>3 DEF Knows
    <2>2. CASE k = Errand("forget", Nothing, FALSE, "act")
      BY <2>2 DEF Errand, ClientRecord, Nothing, Knows
    <2>3. CASE k = Errand(Nothing, Nothing, FALSE, "reconcile")
      BY <2>3 DEF Errand, ClientRecord, Nothing, Knows
    <2> QED BY <1>2, <2>1, <2>2, <2>3
  <1>4. GoesTo(c, k)
    BY <1>1, <1>2, <1>3 DEF GoesTo
  <1>5. WsTypes' /\ Journal' /\ Content'
    BY <1>1, <1>4, CommandTypes, RecordsStand
  <1>6. ClientsInOrder'
    BY <1>3, <1>4, CommandKnows DEF GoesTo
  <1> QED BY <1>5, <1>6 DEF WsInv

LEMMA StopKeeps ==
  ASSUME WsInv, MaxUses \in Nat, NoClient \notin Clients, NEW c \in Clients, Stop(c)
  PROVE  WsInv'
  <1>1. /\ clients[c].at # "away" /\ Leave(c) /\ UNCHANGED <<uses, helpers, ending, World>>
    BY DEF Stop
  <1>2. useOwner = c
    BY <1>1 DEF WsInv, ClientsInOrder, Lawful
  <1>3. GoesTo(c, Away)
    BY <1>1, <1>2, Leaves
  <1>4. Knows(Away)'
    BY DEF Knows, Away
  <1>5. WsTypes' /\ Journal' /\ Content'
    BY <1>1, <1>3, CommandTypes, RecordsStand
  <1>6. ClientsInOrder'
    BY <1>3, <1>4, CommandKnows DEF GoesTo
  <1> QED BY <1>5, <1>6 DEF WsInv

LEMMA ReconciledKeeps ==
  ASSUME WsInv, MaxUses \in Nat, NoClient \notin Clients, NEW c \in Clients, Reconciled(c)
  PROVE  WsInv'
  <1>1. useOwner = c /\ UNCHANGED <<uses, helpers, ending, useOwner, World>>
    BY DEF Reconciled, Holding
  <1>2. PICK k : /\ clients' = [clients EXCEPT ![c] = k]
                 /\ \/ \E t \in WsTasks : tasks[t].state = "absent"
                                            /\ k = Errand("dispatch", t, FALSE, "act")
                    \/ \E goal \in {"verify", "checkpoint"} :
                          k = Errand(goal, Nothing, FALSE, "act")
                    \/ \E d \in BOOLEAN : k = Errand("release", Nothing, d, "act")
    BY DEF Reconciled
  <1>3. k \in ClientRecord /\ k.at # "away" /\ Knows(k)'
    <2>1. CASE \E t \in WsTasks : tasks[t].state = "absent"
                                    /\ k = Errand("dispatch", t, FALSE, "act")
      <3>1. PICK t \in WsTasks : tasks[t].state = "absent"
                                    /\ k = Errand("dispatch", t, FALSE, "act")
        BY <2>1
      <3>2. /\ k \in ClientRecord /\ k.at = "act" /\ k.goal = "dispatch" /\ k.task = t
        BY <3>1 DEF Errand, ClientRecord, Nothing
      <3>3. tasks' = tasks
        BY <1>1 DEF World
      <3> QED BY <3>1, <3>2, <3>3 DEF Knows
    <2>2. CASE \E goal \in {"verify", "checkpoint"} : k = Errand(goal, Nothing, FALSE, "act")
      BY <2>2 DEF Errand, ClientRecord, Nothing, Knows
    <2>3. CASE \E d \in BOOLEAN : k = Errand("release", Nothing, d, "act")
      BY <2>3 DEF Errand, ClientRecord, Nothing, Knows
    <2> QED BY <1>2, <2>1, <2>2, <2>3
  <1>4. GoesTo(c, k)
    BY <1>1, <1>2, <1>3 DEF GoesTo
  <1>5. WsTypes' /\ Journal' /\ Content'
    BY <1>1, <1>4, CommandTypes, RecordsStand
  <1>6. ClientsInOrder'
    BY <1>3, <1>4, CommandKnows DEF GoesTo
  <1> QED BY <1>5, <1>6 DEF WsInv

\* A command moves a helper that is entitled to it.
LEMMA HelperMoves ==
  ASSUME WsInv, MaxUses \in Nat, MaxTries \in Nat, NEW h \in HelperIds, NEW r, OneMoves(h, r),
         Entitled(h, r.state), Achieved(h, r), UNCHANGED <<uses, ending, World>>,
         clients' \in [Clients -> ClientRecord], useOwner' \in Clients \cup {NoClient}
  PROVE  WsTypes' /\ Journal' /\ Content'
  <1>1. UNCHANGED <<tasks, place, work, snapshots, refs>>
    BY DEF World
  <1>2. WsTypes'
    BY <1>1, AtWork, TypesStand
  <1>3. Journal'
    BY <1>1, JournalStands
  <1>4. Achieved(h, helpers[h])'
    <2>1. helpers'[h] = r
      BY MovesOn DEF WsInv
    <2> QED BY <1>1, <2>1 DEF Achieved
  <1>5. WorkInOrder'
    BY <1>1, <1>4, WorkStands
  <1>6. SnapshotsInOrder' /\ EndingInOrder' /\ (refs \subseteq NamedRefs)'
    BY <1>1, SnapshotsStand DEF WsInv, Content, EndingInOrder, NamedRefs, ReleaseRecorded, Latest
  <1> QED BY <1>2, <1>3, <1>5, <1>6 DEF Content

\* A helper that is brought forward has done nothing yet, and will not when it was sealed.
LEMMA BringMoves ==
  ASSUME WsInv, NEW h \in HelperIds, Bring(h) \/ SubmitOperation(h) \/ SealExpired(h)
  PROVE  \E r : /\ OneMoves(h, r) /\ Achieved(h, r)
                /\ \/ helpers[h].state = "none" /\ r.state = "opened"
                   \/ helpers[h].state = "opened" /\ r.state \in {"opened", "queued"}
                   \/ helpers[h].state \in {"opened", "queued"} /\ r.state = "ended"
  <1> DEFINE a == helpers[h]
  <1>1. a \in HelperRecord /\ Achieved(h, a)
    BY AtWork
  <1>2. CASE helpers[h].state = "none" /\ helpers' = [helpers EXCEPT ![h].state = "opened"]
    <2> DEFINE r == [a EXCEPT !.state = "opened"]
    <2>1. helpers' = [helpers EXCEPT ![h] = r] /\ a.state = "none"
      BY <1>2
    <2>2. r \in HelperRecord /\ r.state = "opened" /\ r.done = 0 /\ r.result = "none"
      BY <1>1, <2>1 DEF HelperRecord, Achieved
    <2> HIDE DEF r
    <2>8. OneMoves(h, r)
      BY <2>1, <2>2 DEF OneMoves
    <2>9. Achieved(h, r)
      BY <2>1, <2>2 DEF Achieved
    <2> QED BY <2>1, <2>2, <2>8, <2>9
  <1>3. CASE SubmitOperation(h)
    <2>1. PICK reached \in Waiting : helpers' = [helpers EXCEPT ![h].state = reached]
      BY <1>3 DEF SubmitOperation
    <2> DEFINE r == [a EXCEPT !.state = reached]
    <2>2. helpers' = [helpers EXCEPT ![h] = r] /\ a.state = "opened"
      BY <1>3, <2>1 DEF SubmitOperation
    <2>3. /\ r \in HelperRecord /\ r.state \in {"opened", "queued"} /\ r.done = 0
          /\ r.result = "none"
      BY <1>1, <2>2 DEF HelperRecord, Achieved, Waiting
    <2> HIDE DEF r
    <2>8. OneMoves(h, r)
      BY <2>2, <2>3 DEF OneMoves
    <2>9. Achieved(h, r)
      BY <2>2, <2>3 DEF Achieved
    <2> QED BY <2>2, <2>3, <2>8, <2>9
  <1>4. CASE SealExpired(h)
    <2> DEFINE r == [a EXCEPT !.state = "ended", !.result = "failed"]
    <2>1. helpers' = [helpers EXCEPT ![h] = r] /\ a.state \in {"opened", "queued"}
      BY <1>4 DEF SealExpired, Waiting
    <2>2. a.done = 0
      BY <1>1, <2>1 DEF Achieved
    <2>3. r \in HelperRecord /\ r.state = "ended" /\ r.done = 0 /\ r.result = "failed"
      <3>1. ASSUME NEW b \in HelperRecord
            PROVE  /\ [b EXCEPT !.state = "ended"] \in HelperRecord
                   /\ [b EXCEPT !.state = "ended"].state = "ended"
                   /\ [b EXCEPT !.state = "ended"].done = b.done
        BY <3>1 DEF HelperRecord
      <3>2. ASSUME NEW b \in HelperRecord
            PROVE  /\ [b EXCEPT !.result = "failed"] \in HelperRecord
                   /\ [b EXCEPT !.result = "failed"].state = b.state
                   /\ [b EXCEPT !.result = "failed"].done = b.done
                   /\ [b EXCEPT !.result = "failed"].result = "failed"
        BY <3>2 DEF HelperRecord
      <3>3. r = [[a EXCEPT !.state = "ended"] EXCEPT !.result = "failed"]
        OBVIOUS
      <3> HIDE DEF a, r
      <3> QED BY <1>1, <2>2, <3>1, <3>2, <3>3
    <2> HIDE DEF r
    <2>8. OneMoves(h, r)
      BY <2>1, <2>3 DEF OneMoves
    <2>9. Achieved(h, r)
      BY <2>1, <2>3 DEF Achieved
    <2> QED BY <2>1, <2>3, <2>8, <2>9
  <1> QED BY <1>2, <1>3, <1>4 DEF Bring

\* What bringing a helper forward may make of it.
BroughtTo(h, s) ==
    /\ SealExpired(h) => s = "ended"
    /\ \/ helpers[h].state = "none" /\ s = "opened"
       \/ helpers[h].state = "opened" /\ s \in {"opened", "queued"}
       \/ helpers[h].state \in {"opened", "queued"} /\ s = "ended"

\* A helper is brought forward when it is entitled to whatever that makes of it.
LEMMA BringKeeps ==
  ASSUME WsInv, MaxUses \in Nat, MaxTries \in Nat, NEW h \in HelperIds,
         Bring(h) \/ SubmitOperation(h) \/ SealExpired(h),
         \A s \in {"opened", "queued", "ended"} : BroughtTo(h, s) => Entitled(h, s),
         UNCHANGED <<uses, ending, World>>,
         clients' \in [Clients -> ClientRecord], useOwner' \in Clients \cup {NoClient}
  PROVE  WsTypes' /\ Journal' /\ Content'
  <1>1. PICK r : /\ OneMoves(h, r) /\ Achieved(h, r)
                 /\ \/ helpers[h].state = "none" /\ r.state = "opened"
                    \/ helpers[h].state = "opened" /\ r.state \in {"opened", "queued"}
                    \/ helpers[h].state \in {"opened", "queued"} /\ r.state = "ended"
    BY BringMoves
  <1>2. SealExpired(h) => r.state = "ended"
    <2>1. helpers'[h] = r /\ helpers[h] \in HelperRecord
      BY <1>1, MovesOn, AtWork DEF WsInv
    <2>2. SealExpired(h) => helpers'[h].state = "ended"
      BY DEF SealExpired, WsInv, WsTypes, HelperRecord
    <2> QED BY <2>1, <2>2
  <1>3. Entitled(h, r.state)
    BY <1>1, <1>2 DEF BroughtTo
  <1> QED BY <1>1, <1>3, HelperMoves

\* The lease and the command that holds it after a step on the records.
LeaseTyped == /\ clients' \in [Clients -> ClientRecord] /\ useOwner' \in Clients \cup {NoClient}
              /\ UNCHANGED World

\* A checkpoint, a verification or a capture is brought forward under the open use.
LEMMA UseBrings ==
  ASSUME WsInv, MaxUses \in Nat, MaxTries \in Nat, LeaseTyped, Reserved,
         UNCHANGED <<uses, ending>>,
         \/ uses[Latest].kind = "checkpoint" /\ Bring(<<"checkpoint", Latest>>)
         \/ AwaitVerification(Latest) \/ RunCapture(Latest)
  PROVE  WsTypes' /\ Journal' /\ Content'
  <1>1. Latest \in DOMAIN uses /\ Latest \in Uses
    BY UsesNumbered DEF WsInv, Reserved
  <1>2. PICK kind \in {"checkpoint", "verify", "capture"} :
           /\ Bring(<<kind, Latest>>)
           /\ kind = "capture" => /\ uses[Latest].owed /\ uses[Latest].receipt = "none"
                                  /\ PredecessorClosed(Latest)
           /\ kind # "capture" => uses[Latest].kind = kind
    BY DEF AwaitVerification, RunCapture
  <1> DEFINE h == <<kind, Latest>>
  <1>3. h \in HelperIds /\ h[1] = kind /\ h[2] = Latest /\ Bring(h)
    BY <1>1, <1>2, HelperNames
  <1> HIDE DEF h
  <1>4. \A s \in {"opened", "queued", "ended"} : Entitled(h, s)
    BY <1>1, <1>2, <1>3 DEF Entitled, Starting
  <1> QED BY <1>3, <1>4, BringKeeps DEF LeaseTyped

\* A provision that is no longer waited for is sealed.
LEMMA ProvisionSeals ==
  ASSUME WsInv, MaxUses \in Nat, MaxTries \in Nat, LeaseTyped, UNCHANGED <<uses, ending>>,
         NEW h \in AdmissionsProvisions(Latest), SealExpired(h)
  PROVE  /\ WsTypes' /\ Journal' /\ Content' /\ h \in HelperIds
         /\ \A g \in HelperIds :
               helpers[g].state \notin Starting => helpers'[g].state \notin Starting
  <1>1. h \in HelperIds /\ h[1] = "provision"
    <2>1. PICK m \in DOMAIN uses : h = <<"provision", m>>
      BY DEF AdmissionsProvisions
    <2>2. m \in Uses
      BY UsesNumbered DEF WsInv
    <2> QED BY <2>1, <2>2, HelperNames
  <1>2. Entitled(h, "ended")
    BY <1>1 DEF Entitled, Starting
  <1>3. \A s \in {"opened", "queued", "ended"} : BroughtTo(h, s) => Entitled(h, s)
    BY <1>2 DEF BroughtTo
  <1>4. WsTypes' /\ Journal' /\ Content'
    BY <1>1, <1>3, BringKeeps DEF LeaseTyped
  <1>5. \A g \in HelperIds : helpers[g].state \notin Starting => helpers'[g].state \notin Starting
    BY <1>1 DEF SealExpired, Starting, WsInv, WsTypes, HelperRecord
  <1> QED BY <1>1, <1>4, <1>5

\* Among some attempts there is a last one.
LEMMA LastAttempt ==
  ASSUME NEW S \in SUBSET Nat, NEW n \in Nat, \A d \in S : d <= n, S # {}
  PROVE  \E d \in S : \A e \in S : e <= d
  <1> DEFINE R == {p \in Nat \X Nat : p[1] < p[2]}
             T == {n - d : d \in S}
  <1>1. IsWellFoundedOn(R, Nat)
    BY NatLessThanWellFounded DEF OpToRel
  <1>2. T \subseteq Nat /\ \A d \in S : n - d \in T
    OBVIOUS
  <1>3. T # {}
    BY <1>2
  <1>4. \E x \in T : \A y \in T : <<y, x>> \notin R
    <2> HIDE DEF T, R
    <2> QED BY <1>1, <1>2, <1>3, WFMin
  <1>5. PICK d \in S : \A y \in T : <<y, n - d>> \notin R
    BY <1>4
  <1>6. ASSUME NEW e \in S PROVE e <= d
    <2>1. <<n - e, n - d>> \notin R
      BY <1>2, <1>5
    <2>2. n - e \in Nat /\ n - d \in Nat /\ e \in Nat /\ d \in Nat
      OBVIOUS
    <2>3. ~ (n - e < n - d)
      BY <2>1, <2>2
    <2> QED BY <2>2, <2>3
  <1> QED BY <1>6

LEMMA CurrentIsLast ==
  ASSUME MaxTries \in Nat, NEW kind, Attempts(kind) # {}
  PROVE  /\ Current(kind) \in Attempts(kind) /\ Current(kind) \in 1..MaxTries
         /\ helpers[<<kind, Current(kind)>>].state # "none"
  <1>1. Attempts(kind) \in SUBSET Nat /\ \A k \in Attempts(kind) : k <= MaxTries
    BY DEF Attempts
  <1>2. \E k \in Attempts(kind) : \A j \in Attempts(kind) : j <= k
    BY <1>1, LastAttempt
  <1>3. Current(kind) \in Attempts(kind)
    BY <1>2 DEF Current
  <1> QED BY <1>3 DEF Attempts

\* An attempt to remove or to forget follows those before it.
LEMMA AttemptBrings ==
  ASSUME WsInv, MaxUses \in Nat, MaxTries \in Nat \ {0}, LeaseTyped, UNCHANGED <<uses, ending>>,
         NEW kind \in {"remove", "forget"}, BringAttempt(kind),
         kind = "remove" => ReleaseRecorded, kind = "forget" => ending.forgetting
  PROVE  WsTypes' /\ Journal' /\ Content'
  <1>1. ASSUME NEW k \in 1..MaxTries, Bring(<<kind, k>>),
               \A j \in 1..(k - 1) : helpers[<<kind, j>>].state = "ended"
        PROVE  WsTypes' /\ Journal' /\ Content'
    <2> DEFINE h == <<kind, k>>
    <2>1. h \in HelperIds /\ h[1] = kind /\ h[2] = k /\ Bring(h)
      BY <1>1, HelperNames
    <2> HIDE DEF h
    <2>2. \A s \in {"opened", "queued", "ended"} : Entitled(h, s)
      BY <1>1, <2>1 DEF Entitled
    <2> QED BY <2>1, <2>2, BringKeeps DEF LeaseTyped
  <1>2. ASSUME NEW k \in 1..MaxTries, helpers[<<kind, k>>].state # "none"
        PROVE  \A j \in 1..(k - 1) : helpers[<<kind, j>>].state = "ended"
    <2> DEFINE h == <<kind, k>>
    <2>1. h \in HelperIds /\ h[1] = kind /\ h[2] = k /\ helpers[h].state # "none"
      BY <1>2, HelperNames
    <2> HIDE DEF h
    <2> QED BY <2>1, AtWork DEF Entitled
  <1>3. CASE /\ Attempts(kind) = {}
             /\ helpers' = [helpers EXCEPT ![<<kind, 1>>].state = "opened"]
    <2>1. 1 \in 1..MaxTries /\ helpers[<<kind, 1>>].state = "none"
      BY <1>3 DEF Attempts
    <2>2. Bring(<<kind, 1>>)
      BY <1>3, <2>1 DEF Bring
    <2> QED BY <1>1, <2>1, <2>2
  <1>4. CASE Attempts(kind) # {} /\ Bring(<<kind, Current(kind)>>)
    BY <1>1, <1>2, <1>4, CurrentIsLast
  <1>5. CASE /\ Attempts(kind) # {} /\ Current(kind) < MaxTries
             /\ Proven(<<kind, Current(kind)>>)
             /\ helpers' = [helpers EXCEPT ![<<kind, Current(kind) + 1>>].state = "opened"]
    <2> DEFINE k == Current(kind)
    <2>1. /\ k \in 1..MaxTries /\ k + 1 \in 1..MaxTries /\ helpers[<<kind, k>>].state = "ended"
          /\ \A j \in 1..(k - 1) : helpers[<<kind, j>>].state = "ended"
      BY <1>2, <1>5, CurrentIsLast DEF Proven, Closed
    <2>2. k + 1 \notin Attempts(kind)
      <3>1. \E i \in Attempts(kind) : \A j \in Attempts(kind) : j <= i
        <4>1. Attempts(kind) \in SUBSET Nat /\ \A i \in Attempts(kind) : i <= MaxTries
          BY DEF Attempts
        <4> QED BY <1>5, <4>1, LastAttempt
      <3>2. \A j \in Attempts(kind) : j <= k
        BY <3>1 DEF Current
      <3> QED BY <2>1, <3>2
    <2> HIDE DEF k
    <2>3. helpers[<<kind, k + 1>>].state = "none"
      BY <2>1, <2>2 DEF Attempts
    <2>4. Bring(<<kind, k + 1>>)
      BY <1>5, <2>3 DEF Bring, k
    <2>5. \A j \in 1..(k + 1 - 1) : helpers[<<kind, j>>].state = "ended"
      BY <2>1
    <2> QED BY <1>1, <2>1, <2>4, <2>5
  <1> QED BY <1>3, <1>4, <1>5 DEF BringAttempt

\* What has been accomplished was done by a helper that succeeded.
LEMMA AccomplishedIs ==
  ASSUME WsInv, MaxTries \in Nat, Accomplished("forget")
  PROVE  refs = {}
  <1> DEFINE h == <<"forget", Current("forget")>>
  <1>1. h \in HelperIds /\ h[1] = "forget" /\ helpers[h].result = "succeeded"
    BY CurrentIsLast, HelperNames DEF Accomplished, Succeeded
  <1> HIDE DEF h
  <1> QED BY <1>1, AtWork DEF Achieved

\* What the open use lets helpers and tasks be.
LEMMA OpenUse ==
  ASSUME WsInv, MaxUses \in Nat, Reserved
  PROVE  /\ uses[Latest] \in UseRecord /\ Latest \in DOMAIN uses /\ Latest \in Uses
         /\ uses[Latest].closed = "open"
         /\ \A h \in HelperIds : h[1] = "provision" /\ helpers[h].state \in Starting =>
               /\ h = <<"provision", Latest>> /\ uses[Latest].kind = "admission"
               /\ ~ uses[Latest].owed /\ TaskAbsent(Latest)
         /\ \A h \in HelperIds : h[1] = "capture" /\ helpers[h].state \in Starting =>
               uses[Latest].owed /\ uses[Latest].receipt = "none"
         /\ \A h \in HelperIds :
               h[1] \in {"verify", "checkpoint"} /\ helpers[h].state \in {"queued", "running"} =>
                  h = <<uses[Latest].kind, Latest>> /\ h[1] = uses[Latest].kind
         /\ \A t \in WsTasks : tasks[t].state = "running" =>
               /\ tasks[t].use = Latest /\ uses[Latest].baseline
               /\ uses[Latest].kind = "admission" /\ uses[Latest].task = t
         /\ uses[Latest].receipt # "none" =>
               /\ uses[Latest].owed /\ PredecessorClosed(Latest)
               /\ \A h \in HelperIds : h[1] = "capture" /\ h[2] = Latest =>
                     /\ helpers[h].state = "ended"
                     /\ uses[Latest].receipt = "captured" => helpers[h].result = "succeeded"
         /\ uses[Latest].owed => uses[Latest].kind # "checkpoint"
         /\ uses[Latest].owed /\ uses[Latest].kind = "admission" =>
               /\ tasks[uses[Latest].task].use = Latest
               /\ tasks[uses[Latest].task].state # "absent"
         /\ uses[Latest].kind = "admission" => uses[Latest].task \in WsTasks
  <1>1. /\ uses[Latest] \in UseRecord /\ Latest \in DOMAIN uses /\ Latest \in Uses
        /\ uses[Latest].closed = "open"
    BY UsesNumbered DEF WsInv, Reserved
  <1>2. ASSUME NEW h \in HelperIds
        PROVE  /\ h = <<h[1], h[2]>>
               /\ h[1] = "provision" /\ helpers[h].state \in Starting =>
                     /\ h[2] = Latest /\ uses[Latest].kind = "admission"
                     /\ ~ uses[Latest].owed /\ TaskAbsent(Latest)
               /\ h[1] = "capture" /\ helpers[h].state \in Starting =>
                     /\ h[2] = Latest /\ uses[Latest].receipt = "none"
               /\ h[1] = "capture" /\ helpers[h].state # "none" =>
                     uses[h[2]].owed /\ PredecessorClosed(h[2])
               /\ h[1] \in {"verify", "checkpoint"} /\ helpers[h].state \in {"queued", "running"} =>
                     h[2] = Latest /\ h[1] = uses[Latest].kind
    BY AtWork, HelperNames DEF Entitled
  <1>3. \A t \in WsTasks : tasks[t].state = "running" =>
           /\ tasks[t].use = Latest /\ uses[Latest].baseline
           /\ uses[Latest].kind = "admission" /\ uses[Latest].task = t
    BY AtWorkOpen
  <1>4. /\ uses[Latest].receipt # "none" => uses[Latest].owed
        /\ uses[Latest].owed => uses[Latest].kind # "checkpoint"
        /\ uses[Latest].owed /\ uses[Latest].kind = "admission" =>
               /\ tasks[uses[Latest].task].use = Latest
               /\ tasks[uses[Latest].task].state # "absent"
        /\ uses[Latest].kind = "admission" => uses[Latest].task \in WsTasks
    BY <1>1 DEF WsInv, Journal, UsesInOrder
  <1>5. uses[Latest].receipt # "none" =>
           \A h \in HelperIds : h[1] = "capture" /\ h[2] = Latest =>
              /\ helpers[h].state = "ended"
              /\ uses[Latest].receipt = "captured" => helpers[h].result = "succeeded"
    BY <1>1 DEF WsInv, Journal, ReceiptsInOrder
  <1>6. uses[Latest].receipt # "none" => PredecessorClosed(Latest)
    <2> DEFINE h == <<"capture", Latest>>
    <2>1. h \in HelperIds /\ h[1] = "capture" /\ h[2] = Latest
      BY <1>1, HelperNames
    <2> HIDE DEF h
    <2> QED BY <1>2, <1>5, <2>1
  <1>7. \A h \in HelperIds : h[1] = "capture" /\ helpers[h].state \in Starting =>
           uses[Latest].owed /\ uses[Latest].receipt = "none"
    BY <1>2 DEF Starting
  <1>8. \A h \in HelperIds : h[1] = "provision" /\ helpers[h].state \in Starting =>
           /\ h = <<"provision", Latest>> /\ uses[Latest].kind = "admission"
           /\ ~ uses[Latest].owed /\ TaskAbsent(Latest)
    BY <1>2
  <1>9. \A h \in HelperIds :
           h[1] \in {"verify", "checkpoint"} /\ helpers[h].state \in {"queued", "running"} =>
              h = <<uses[Latest].kind, Latest>> /\ h[1] = uses[Latest].kind
    BY <1>2
  <1> QED BY <1>1, <1>3, <1>4, <1>5, <1>6, <1>7, <1>8, <1>9

\* A command rewrites the head of the journal and nothing else.
LEMMA HeadKeeps ==
  ASSUME WsInv, MaxUses \in Nat, LeaseTyped, Reserved, NEW r, HeadBecomes(r), HeadAgrees(r),
         UNCHANGED <<helpers, ending>>
  PROVE  /\ WsTypes' /\ Journal' /\ Content' /\ Latest' = Latest /\ uses'[Latest] = r
         /\ UNCHANGED tasks
  <1>1. UNCHANGED <<tasks, place, work, snapshots, refs>>
    BY DEF LeaseTyped, World
  <1>2. TasksStay
    BY <1>1 DEF WsInv, WsTypes, TasksStay
  <1> QED BY <1>1, <1>2, HeadIs, JournalGoesOn, ContentGoesOn, TypesGoOn DEF LeaseTyped

\* A use is closed once nothing of it can be at work.
LEMMA HeadCloses ==
  ASSUME WsInv, MaxUses \in Nat, LeaseTyped, Reserved, NEW d \in Dispositions \ {"open"},
         uses' = [uses EXCEPT ![Latest].closed = d], UNCHANGED <<helpers, ending>>,
         d \in {"captured", "unavailable"} => uses[Latest].receipt = d,
         uses[Latest].owed => uses[Latest].receipt # "none",
         \A h \in HelperIds : h = <<"provision", Latest>> => helpers[h].state \notin Starting,
         \A h \in HelperIds : h = <<uses[Latest].kind, Latest>> => helpers[h].state # "running",
         \A h \in HelperIds : h = <<uses[Latest].kind, Latest>> /\ h[1] \in {"verify", "checkpoint"}
                                 => helpers[h].state # "queued",
         uses[Latest].kind = "admission" =>
            \A t \in WsTasks : tasks[t].use = Latest => tasks[t].state # "running"
  PROVE  WsTypes' /\ Journal' /\ Content'
  <1> DEFINE a == uses[Latest]
             r == [a EXCEPT !.closed = d]
  <1>1. a \in UseRecord /\ uses' = [uses EXCEPT ![Latest] = r]
    BY OpenUse
  <1>2. /\ r \in UseRecord /\ r.kind = a.kind /\ r.task = a.task /\ r.owed = a.owed
        /\ r.receipt = a.receipt /\ r.closed = d /\ r.baseline = a.baseline
    BY <1>1 DEF UseRecord
  <1>3. HeadBecomes(r)
    <2> HIDE DEF r
    <2> QED BY <1>1, <1>2, OpenUse DEF HeadBecomes
  <1>4. HeadAgrees(r)
    <2>1. UNCHANGED tasks
      BY DEF LeaseTyped, World
    <2>2. \A h \in HelperIds : h[1] = "provision" => helpers[h].state \notin Starting
      BY OpenUse
    <2>3. \A h \in HelperIds : h[1] = "capture" => helpers[h].state \notin Starting
      BY OpenUse
    <2>4. \A h \in HelperIds : h[1] \in {"verify", "checkpoint"} =>
             helpers[h].state \notin {"queued", "running"}
      BY OpenUse
    <2>5. \A t \in WsTasks : tasks[t].state # "running"
      BY OpenUse
    <2>6. \A h \in HelperIds : h[1] = "capture" /\ h[2] = Latest /\ r.receipt # "none" =>
             /\ helpers[h].state = "ended"
             /\ r.receipt = "captured" => helpers[h].result = "succeeded"
      BY <1>2, OpenUse
    <2> HIDE DEF r, a
    <2> QED BY <2>1, <2>2, <2>3, <2>4, <2>5, <2>6 DEF HeadAgrees
  <1> HIDE DEF r
  <1> QED BY <1>3, <1>4, HeadKeeps

\* An admission that no task came of is aborted, once its provision is over.
LEMMA AbortKeeps ==
  ASSUME WsInv, MaxUses \in Nat, MaxTries \in Nat, LeaseTyped, Reserved, AbortAdmission(Latest)
  PROVE  /\ WsTypes' /\ Journal' /\ Content'
         /\ \/ uses' # uses
            \/ /\ UNCHANGED uses
               /\ \A g \in HelperIds :
                     helpers[g].state \notin Starting => helpers'[g].state \notin Starting
  <1>1. /\ uses[Latest].kind = "admission" /\ ~ uses[Latest].owed /\ TaskAbsent(Latest)
        /\ UNCHANGED ending /\ Latest \in DOMAIN uses /\ uses[Latest] \in UseRecord
        /\ uses[Latest].closed = "open"
    BY OpenUse DEF AbortAdmission
  <1>2. CASE /\ \A h \in AdmissionsProvisions(Latest) : helpers[h].state \in Closed \cup {"none"}
             /\ uses' = [uses EXCEPT ![Latest].closed = "aborted"] /\ UNCHANGED helpers
    <2>1. <<"provision", Latest>> \in AdmissionsProvisions(Latest)
      BY <1>1 DEF AdmissionsProvisions
    <2>2. helpers[<<"provision", Latest>>].state \notin Starting
      BY <1>2, <2>1 DEF Starting, Closed
    <2>3. \A h \in HelperIds : h # <<uses[Latest].kind, Latest>>
      BY <1>1, HelperNames
    <2>4. \A t \in WsTasks : tasks[t].use = Latest => tasks[t].state # "running"
      BY <1>1 DEF TaskAbsent
    <2>5. uses'[Latest].closed = "aborted"
      BY <1>1, <1>2 DEF UseRecord
    <2>6. "aborted" \in Dispositions \ {"open"}
      BY DEF Dispositions
    <2> QED BY <1>1, <1>2, <2>2, <2>3, <2>4, <2>5, <2>6, HeadCloses
  <1>3. CASE (\E h \in AdmissionsProvisions(Latest) : SealExpired(h)) /\ UNCHANGED uses
    BY <1>1, <1>3, ProvisionSeals
  <1> QED BY <1>2, <1>3 DEF AbortAdmission

\* What a use owes is recorded while it is open.
LEMMA HeadOwes ==
  ASSUME WsInv, MaxUses \in Nat, LeaseTyped, Reserved, UNCHANGED <<helpers, ending>>,
         uses' = [uses EXCEPT ![Latest].owed = TRUE], uses[Latest].kind # "checkpoint",
         uses[Latest].kind = "admission" => tasks[uses[Latest].task].use = Latest
                                              /\ tasks[uses[Latest].task].state # "absent"
  PROVE  /\ WsTypes' /\ Journal' /\ Content' /\ UNCHANGED <<Latest, Reserved, tasks>>
         /\ uses'[Latest].kind = uses[Latest].kind
  <1> DEFINE a == uses[Latest]
             r == [a EXCEPT !.owed = TRUE]
  <1>1. a \in UseRecord /\ uses' = [uses EXCEPT ![Latest] = r]
    BY OpenUse
  <1>2. /\ r \in UseRecord /\ r.kind = a.kind /\ r.task = a.task /\ r.owed
        /\ r.receipt = a.receipt /\ r.closed = a.closed /\ r.baseline = a.baseline
    BY <1>1 DEF UseRecord
  <1>3. HeadBecomes(r)
    <2>1. a.closed = "open"
      BY OpenUse
    <2> HIDE DEF r
    <2> QED BY <1>1, <1>2, <2>1 DEF HeadBecomes
  <1>4. HeadAgrees(r)
    <2>1. UNCHANGED tasks /\ r.closed = "open"
      BY <1>2, OpenUse DEF LeaseTyped, World
    <2>2. \A h \in HelperIds : h[1] = "provision" => helpers[h].state \notin Starting
      <3>1. TaskAbsent(Latest) => uses[Latest].kind # "admission"
        BY OpenUse DEF TaskAbsent
      <3> QED BY <3>1, OpenUse
    <2>3. \A t \in WsTasks : tasks[t].state = "running" => tasks[t].use = Latest /\ r.baseline
      BY <1>2, OpenUse
    <2>4. \A h \in HelperIds : h[1] = "capture" /\ h[2] = Latest /\ r.receipt # "none" =>
             /\ helpers[h].state = "ended"
             /\ r.receipt = "captured" => helpers[h].result = "succeeded"
      BY <1>2, OpenUse
    <2> HIDE DEF r, a
    <2> QED BY <2>1, <2>2, <2>3, <2>4 DEF HeadAgrees
  <1>5. r.closed = "open"
    BY <1>2, OpenUse
  <1> HIDE DEF r
  <1>6. /\ WsTypes' /\ Journal' /\ Content' /\ Latest' = Latest /\ uses'[Latest] = r
        /\ UNCHANGED tasks
    BY <1>3, <1>4, HeadKeeps
  <1> QED BY <1>2, <1>5, <1>6 DEF Reserved

\* A checkpoint's use is completed once its operation is proven over.
LEMMA SettleKeeps ==
  ASSUME WsInv, MaxUses \in Nat, MaxTries \in Nat, LeaseTyped, Reserved, SettleCheckpoint(Latest)
  PROVE  WsTypes' /\ Journal' /\ Content'
  <1>1. uses[Latest].kind = "checkpoint" /\ UNCHANGED ending
    BY DEF SettleCheckpoint
  <1>2. CASE /\ Proven(<<"checkpoint", Latest>>) /\ UNCHANGED helpers
             /\ uses' = [uses EXCEPT ![Latest].closed = "completed"]
    <2>1. helpers[<<"checkpoint", Latest>>].state = "ended"
      BY <1>2 DEF Proven, Closed
    <2>2. "completed" \in Dispositions \ {"open"}
      BY DEF Dispositions
    <2>3. ~ uses[Latest].owed
      BY <1>1, OpenUse
    <2>4. \A h \in HelperIds : h = <<"provision", Latest>> => helpers[h].state \notin Starting
      BY <1>1, OpenUse
    <2> QED BY <1>1, <1>2, <2>1, <2>2, <2>3, <2>4, HeadCloses
  <1>3. CASE Bring(<<"checkpoint", Latest>>) /\ UNCHANGED uses
    BY <1>1, <1>3, UseBrings
  <1> QED BY <1>2, <1>3 DEF SettleCheckpoint

\* A receipt says how the capture ended.
LEMMA ReceiptKeeps ==
  ASSUME WsInv, MaxUses \in Nat, LeaseTyped, Reserved, RecordCaptureReceipt(Latest)
  PROVE  WsTypes' /\ Journal' /\ Content'
  <1> DEFINE a == uses[Latest]
             done == IF Succeeded(<<"capture", Latest>>) /\ snapshots[Latest].taken
                     THEN "captured" ELSE "unavailable"
             r == [a EXCEPT !.receipt = done]
  <1>1. /\ a \in UseRecord /\ uses' = [uses EXCEPT ![Latest] = r] /\ a.closed = "open"
        /\ a.owed /\ helpers[<<"capture", Latest>>].state = "ended"
        /\ UNCHANGED <<helpers, ending>>
    BY OpenUse DEF RecordCaptureReceipt, Proven, Closed
  <1>2. /\ r \in UseRecord /\ r.kind = a.kind /\ r.task = a.task /\ r.owed = a.owed
        /\ r.receipt = done /\ r.closed = a.closed /\ r.baseline = a.baseline
    BY <1>1 DEF UseRecord
  <1>3. done = "captured" => helpers[<<"capture", Latest>>].result = "succeeded"
    BY DEF Succeeded
  <1>4. HeadBecomes(r)
    <2> HIDE DEF r, done
    <2> QED BY <1>1, <1>2, OpenUse DEF HeadBecomes
  <1>5. HeadAgrees(r)
    <2>1. UNCHANGED tasks
      BY DEF LeaseTyped, World
    <2>2. \A h \in HelperIds : h[1] = "provision" => helpers[h].state \notin Starting
      BY <1>1, OpenUse
    <2>3. \A t \in WsTasks : tasks[t].state = "running" => tasks[t].use = Latest /\ r.baseline
      BY <1>2, OpenUse
    <2>4. \A h \in HelperIds : h[1] = "capture" /\ h[2] = Latest =>
             /\ helpers[h].state = "ended"
             /\ r.receipt = "captured" => helpers[h].result = "succeeded"
      <3>1. \A h \in HelperIds : h = <<h[1], h[2]>>
        BY HelperNames
      <3> HIDE DEF r, done
      <3> QED BY <1>1, <1>2, <1>3, <3>1
    <2> HIDE DEF r, a
    <2> QED BY <1>1, <1>2, <2>1, <2>2, <2>3, <2>4 DEF HeadAgrees
  <1> HIDE DEF r
  <1> QED BY <1>1, <1>4, <1>5, HeadKeeps

\* A use with a receipt is closed by it.
LEMMA CloseKeeps ==
  ASSUME WsInv, MaxUses \in Nat, LeaseTyped, Reserved, CloseCaptured(Latest)
  PROVE  WsTypes' /\ Journal' /\ Content'
  <1> DEFINE d == uses[Latest].receipt
             kind == uses[Latest].kind
  <1>1. /\ d # "none" /\ uses' = [uses EXCEPT ![Latest].closed = d] /\ UNCHANGED <<helpers, ending>>
    BY DEF CloseCaptured
  <1>2. d \in Dispositions \ {"open"} /\ kind \in Subjects /\ kind # "checkpoint"
    BY <1>1, OpenUse DEF UseRecord, Dispositions
  <1>3. uses[Latest].owed /\ PredecessorClosed(Latest)
    BY <1>1, OpenUse
  <1>4. kind = "verify" => helpers[<<"verify", Latest>>].state = "ended"
    BY <1>3 DEF PredecessorClosed, Proven, Closed
  <1>5. kind = "admission" => tasks[uses[Latest].task].state = "ended"
    BY <1>3 DEF PredecessorClosed, Closed
  <1>6. \A h \in HelperIds : h = <<"provision", Latest>> => helpers[h].state \notin Starting
    BY <1>3, OpenUse
  <1>7. \A h \in HelperIds : h = <<kind, Latest>> => h[1] = "verify" /\ helpers[h].state = "ended"
    <2> SUFFICES ASSUME NEW h \in HelperIds, h = <<kind, Latest>>
                 PROVE  h[1] = "verify" /\ helpers[h].state = "ended"
      OBVIOUS
    <2>1. h[1] = kind
      OBVIOUS
    <2>2. kind = "verify"
      BY <1>2, <2>1, HelperNames DEF Subjects
    <2> QED BY <1>4, <2>1, <2>2
  <1>8. kind = "admission" =>
           \A t \in WsTasks : tasks[t].use = Latest => tasks[t].state # "running"
    BY <1>5, OpenUse
  <1> QED BY <1>1, <1>2, <1>3, <1>6, <1>7, <1>8, HeadCloses

\* Every step of a reconciliation of the open use.
LEMMA ReconcileOpenKeeps ==
  ASSUME WsInv, MaxUses \in Nat, MaxTries \in Nat, LeaseTyped, ReconcileOpenUse
  PROVE  WsTypes' /\ Journal' /\ Content'
  <1>1. Reserved
    BY DEF ReconcileOpenUse
  <1>2. CASE RestoreObligation(Latest) BY <1>1, <1>2, HeadOwes DEF RestoreObligation
  <1>3. CASE AwaitVerification(Latest) \/ RunCapture(Latest)
    BY <1>1, <1>3, UseBrings DEF AwaitVerification, RunCapture
  <1> QED
    BY <1>1, <1>2, <1>3, AbortKeeps, SettleKeeps, ReceiptKeeps, CloseKeeps DEF ReconcileOpenUse

\* The release, the removal and the forget are recorded, and nothing else moves.
LEMMA EndingKeeps ==
  ASSUME WsInv, MaxUses \in Nat, LeaseTyped, UNCHANGED <<uses, helpers>>, ending' \in EndRecord,
         EndingInOrder', ReleaseRecorded => ReleaseRecorded',
         ending.forgetting => ending'.forgetting
  PROVE  WsTypes' /\ Journal' /\ Content'
  <1>1. UNCHANGED <<tasks, place, work, snapshots, refs, Latest, Reserved>>
    BY DEF LeaseTyped, World, Latest, Reserved
  <1>2. WsTypes'
    BY <1>1 DEF WsInv, WsTypes, WsTypeOK, LeaseTyped
  <1>3. WorkInOrder'
    BY <1>1 DEF WsInv, Content, WorkInOrder, Achieved
  <1>4. SnapshotsInOrder' /\ (refs \subseteq NamedRefs)'
    BY <1>1 DEF WsInv, Content, SnapshotsInOrder, InSnapshot, WriterOf, NamedRefs
  <1>5. UsesInOrder' /\ ReceiptsInOrder' /\ TasksInOrder'
    BY <1>1 DEF WsInv, Journal, UsesInOrder, ReceiptsInOrder, TasksInOrder
  <1>6. ASSUME NEW h \in HelperIds PROVE Entitled(h, helpers[h].state)'
    <2>1. \A n : PredecessorClosed(n)' = PredecessorClosed(n)
      BY <1>1 DEF PredecessorClosed, Proven
    <2>2. TaskAbsent(Latest)' = TaskAbsent(Latest)
      BY <1>1 DEF TaskAbsent
    <2> DEFINE s == helpers[h].state
    <2>3. Entitled(h, s) /\ UNCHANGED s
      BY AtWork
    <2> HIDE DEF s
    <2> QED BY <1>1, <2>1, <2>2, <2>3 DEF Entitled, s
  <1> QED BY <1>2, <1>3, <1>4, <1>5, <1>6 DEF Journal, Content, HelpersInOrder

\* A release is recorded only with a captured use, or when it discards.
LEMMA RecordReleaseKeeps ==
  ASSUME WsInv, MaxUses \in Nat, LeaseTyped, RecordRelease
  PROVE  WsTypes' /\ Journal' /\ Content'
  <1>1. /\ Latest > 0 /\ ~ ReleaseRecorded /\ uses[Latest].kind = "release"
        /\ uses[Latest].closed # "open"
        /\ uses[Latest].receipt = "captured" \/ uses[Latest].discard
        /\ ending' = [ending EXCEPT !.by = Latest, !.discard = uses[Latest].discard]
        /\ UNCHANGED <<uses, helpers>>
    BY DEF RecordRelease, MayRelease
  <1>2. /\ Latest \in 0..MaxUses /\ uses[Latest].discard \in BOOLEAN /\ ending \in EndRecord
        /\ Latest \in DOMAIN uses
    BY <1>1, UsesNumbered DEF WsInv, WsTypes, UseRecord
  <1>3. /\ ~ ending.removed /\ ~ ending.forgetting /\ ~ ending.forgotten /\ place.tree # "gone"
    BY <1>1 DEF WsInv, Content, EndingInOrder
  <1>4. /\ ending' \in EndRecord /\ ending'.by = Latest /\ ending'.discard = uses[Latest].discard
        /\ ending'.removed = ending.removed /\ ending'.forgetting = ending.forgetting
        /\ ending'.forgotten = ending.forgotten
    <2>1. ASSUME NEW e \in EndRecord, NEW n \in 0..MaxUses
          PROVE  /\ [e EXCEPT !.by = n] \in EndRecord /\ [e EXCEPT !.by = n].by = n
                 /\ [e EXCEPT !.by = n].removed = e.removed
                 /\ [e EXCEPT !.by = n].forgetting = e.forgetting
                 /\ [e EXCEPT !.by = n].forgotten = e.forgotten
      BY <2>1 DEF EndRecord
    <2>2. ASSUME NEW e \in EndRecord, NEW d \in BOOLEAN
          PROVE  /\ [e EXCEPT !.discard = d] \in EndRecord /\ [e EXCEPT !.discard = d].discard = d
                 /\ [e EXCEPT !.discard = d].by = e.by
                 /\ [e EXCEPT !.discard = d].removed = e.removed
                 /\ [e EXCEPT !.discard = d].forgetting = e.forgetting
                 /\ [e EXCEPT !.discard = d].forgotten = e.forgotten
      BY <2>2 DEF EndRecord
    <2> DEFINE f == [ending EXCEPT !.by = Latest]
    <2>3. ending' = [f EXCEPT !.discard = uses[Latest].discard]
      BY <1>1
    <2>4. /\ f \in EndRecord /\ f.by = Latest /\ f.removed = ending.removed
          /\ f.forgetting = ending.forgetting /\ f.forgotten = ending.forgotten
      BY <1>2, <2>1
    <2> HIDE DEF f
    <2> QED BY <1>2, <2>2, <2>3, <2>4
  <1>5. UNCHANGED <<Latest, refs, place>>
    BY <1>1 DEF Latest, LeaseTyped, World
  <1>6. EndingInOrder' /\ ReleaseRecorded'
    BY <1>1, <1>3, <1>4, <1>5 DEF EndingInOrder, ReleaseRecorded
  <1> QED BY <1>1, <1>3, <1>4, <1>6, EndingKeeps

\* The removal comes after the release.
LEMMA ReconcileRemovalKeeps ==
  ASSUME WsInv, MaxUses \in Nat, MaxTries \in Nat \ {0}, LeaseTyped, ReconcileRemoval
  PROVE  WsTypes' /\ Journal' /\ Content'
  <1>1. ReleaseRecorded /\ UNCHANGED uses
    BY DEF ReconcileRemoval
  <1>2. CASE BringAttempt("remove") /\ UNCHANGED ending
    BY <1>1, <1>2, AttemptBrings
  <1>3. CASE UNCHANGED helpers /\ ending' = [ending EXCEPT !.removed = TRUE]
    <2>1. UNCHANGED <<Latest, refs, place>> /\ ending \in EndRecord /\ EndingInOrder
      BY <1>1 DEF Latest, LeaseTyped, World, WsInv, WsTypes, Content
    <2>2. /\ ending' \in EndRecord /\ ending'.by = ending.by /\ ending'.discard = ending.discard
          /\ ending'.removed /\ ending'.forgetting = ending.forgetting
          /\ ending'.forgotten = ending.forgotten /\ ending'.intent = ending.intent
      BY <1>3, <2>1 DEF EndRecord
    <2>3. EndingInOrder' /\ ReleaseRecorded'
      BY <1>1, <2>1, <2>2 DEF EndingInOrder, ReleaseRecorded
    <2> QED BY <1>1, <1>3, <2>2, <2>3, EndingKeeps
  <1> QED BY <1>2, <1>3 DEF ReconcileRemoval

\* The forget is recorded when no ref is left.
LEMMA ForgottenKeeps ==
  ASSUME WsInv, MaxUses \in Nat, MaxTries \in Nat \ {0}, LeaseTyped, ReconcileForget
  PROVE  WsTypes' /\ Journal' /\ Content'
  <1>1. ending.forgetting /\ UNCHANGED uses
    BY DEF ReconcileForget
  <1>2. CASE BringAttempt("forget") /\ UNCHANGED ending
    BY <1>1, <1>2, AttemptBrings
  <1>3. CASE /\ Accomplished("forget") /\ UNCHANGED helpers
             /\ ending' = [ending EXCEPT !.forgotten = TRUE]
    <2>1. UNCHANGED <<Latest, refs, place>> /\ ending \in EndRecord /\ EndingInOrder /\ refs = {}
      BY <1>1, <1>3, AccomplishedIs DEF Latest, LeaseTyped, World, WsInv, WsTypes, Content
    <2>2. /\ ending' \in EndRecord /\ ending'.by = ending.by /\ ending'.discard = ending.discard
          /\ ending'.removed = ending.removed /\ ending'.forgetting = ending.forgetting
          /\ ending'.forgotten /\ ending'.intent = ending.intent
      BY <1>3, <2>1 DEF EndRecord
    <2>3. EndingInOrder' /\ (ReleaseRecorded => ReleaseRecorded')
      BY <1>1, <2>1, <2>2 DEF EndingInOrder, ReleaseRecorded
    <2> QED BY <1>1, <1>3, <2>2, <2>3, EndingKeeps
  <1> QED BY <1>2, <1>3 DEF ReconcileForget

\* Every step of a reconciliation.
LEMMA ReconcileKeeps ==
  ASSUME WsInv, MaxUses \in Nat, MaxTries \in Nat \ {0}, NoClient \notin Clients, NEW c \in Clients,
         Reconcile(c)
  PROVE  WsInv'
  <1>1. /\ clients[c].at = "reconcile" /\ useOwner = c
        /\ UNCHANGED <<useOwner, clients>> /\ UNCHANGED World
    BY DEF Reconcile, Holding
  <1>2. GoesTo(c, clients[c])
    BY <1>1, Stays
  <1>3. LeaseTyped
    BY <1>1, <1>2, CommandTypes DEF LeaseTyped
  <1>4. WsTypes' /\ Journal' /\ Content'
    BY <1>3, ReconcileOpenKeeps, RecordReleaseKeeps, ReconcileRemovalKeeps, ForgottenKeeps
    DEF Reconcile
  <1> DEFINE k == clients[c]
  <1>5. GoesTo(c, k) /\ k.at = "reconcile"
    BY <1>1, <1>2
  <1> HIDE DEF k
  <1>6. PICK q : q = k
    OBVIOUS
  <1>7. Knows(q)'
    BY <1>5, <1>6 DEF Knows
  <1>8. ClientsInOrder'
    BY <1>5, <1>6, <1>7, CommandKnows DEF GoesTo
  <1> QED BY <1>4, <1>8 DEF WsInv

\* The journal with one more use, which is open.
Reserves(u) ==
    /\ uses' = Append(uses, u) /\ u \in UseRecord
    /\ ~ u.owed /\ u.receipt = "none" /\ u.closed = "open"
    /\ u.kind = "admission" => u.task \in WsTasks

LEMMA ReservedIs ==
  ASSUME WsInv, MaxUses \in Nat, Latest < MaxUses, NEW u, Reserves(u)
  PROVE  /\ Latest' = Latest + 1 /\ Latest \in Nat /\ uses' \in Seq(UseRecord)
         /\ DOMAIN uses = 1..Latest /\ DOMAIN uses' = 1..Latest' /\ DOMAIN uses' \subseteq Uses
         /\ uses'[Latest'] = u /\ \A n \in DOMAIN uses : uses'[n] = uses[n]
         /\ Latest' <= MaxUses /\ Reserved'
  <1>1. uses \in Seq(UseRecord) /\ Latest \in Nat /\ DOMAIN uses = 1..Latest
    BY UsesNumbered DEF WsInv, WsTypes
  <1>2. /\ uses' \in Seq(UseRecord) /\ Len(uses') = Len(uses) + 1
        /\ uses'[Len(uses) + 1] = u /\ \A n \in 1..Len(uses) : uses'[n] = uses[n]
    BY <1>1, AppendProperties DEF Reserves
  <1>3. Latest' = Latest + 1 /\ DOMAIN uses' = 1..Latest'
    BY <1>2, LenProperties DEF Latest
  <1>4. uses'[Latest'] = u /\ \A n \in DOMAIN uses : uses'[n] = uses[n]
    BY <1>1, <1>2, <1>3 DEF Latest
  <1>5. Latest' <= MaxUses /\ DOMAIN uses' \subseteq Uses
    BY <1>1, <1>3 DEF Uses
  <1>6. Reserved'
    BY <1>1, <1>3, <1>4 DEF Reserved, Reserves
  <1> QED BY <1>1, <1>2, <1>3, <1>4, <1>5, <1>6

\* A use is reserved when none is open: nobody is at work then.
LEMMA ReserveKeeps ==
  ASSUME WsInv, MaxUses \in Nat, LeaseTyped, Reservable, NEW u, Reserves(u),
         UNCHANGED <<helpers, ending>>
  PROVE  WsTypes' /\ Journal' /\ Content' /\ TaskAbsent(Latest)'
  <1>1. ~ ReleaseRecorded /\ ~ Reserved /\ Latest < MaxUses
    BY DEF Reservable
  <1>2. /\ Latest' = Latest + 1 /\ Latest \in Nat /\ uses' \in Seq(UseRecord)
        /\ DOMAIN uses = 1..Latest /\ DOMAIN uses' = 1..Latest'
        /\ uses'[Latest'] = u /\ \A n \in DOMAIN uses : uses'[n] = uses[n]
        /\ Latest' <= MaxUses
    BY <1>1, ReservedIs
  <1>3. UNCHANGED <<tasks, place, work, snapshots, refs>>
    BY DEF LeaseTyped, World
  <1>4. /\ DOMAIN uses \subseteq DOMAIN uses' /\ Latest' \notin DOMAIN uses
        /\ \A n \in DOMAIN uses' : n = Latest' \/ n \in DOMAIN uses
        /\ \A n \in DOMAIN uses : n < Latest' /\ n # Latest'
        /\ ~ (Latest' < Latest')
    BY <1>2
  <1>5. WsTypes'
    <2>1. \A n \in DOMAIN uses' : uses'[n] \in UseRecord
      BY <1>2, ElementOfSeq, LenProperties
    <2>2. Len(uses') <= MaxUses
      BY <1>2 DEF Latest
    <2> QED BY <1>2, <1>3, <2>1, <2>2 DEF WsInv, WsTypes, WsTypeOK, LeaseTyped, UseRecord
  <1>6. \A n \in DOMAIN uses : uses[n].closed # "open"
    <2>1. \A n \in DOMAIN uses : n < Latest \/ n = Latest
      BY <1>2
    <2>2. Latest \in DOMAIN uses => uses[Latest].closed # "open"
      BY <1>1, <1>2 DEF Reserved
    <2> QED BY <2>1, <2>2 DEF WsInv, Journal, UsesInOrder
  <1>7. UsesInOrder'
    <2> SUFFICES ASSUME NEW n \in DOMAIN uses'
                 PROVE  /\ n < Latest' => uses'[n].closed # "open"
                        /\ uses'[n].kind = "admission" => uses'[n].task \in WsTasks
                        /\ uses'[n].owed => uses'[n].kind # "checkpoint"
                        /\ uses'[n].owed /\ uses'[n].kind = "admission" =>
                              tasks[uses'[n].task].use = n /\ tasks[uses'[n].task].state # "absent"
                        /\ uses'[n].receipt # "none" => uses'[n].owed
                        /\ uses'[n].closed \in {"captured", "unavailable"} =>
                              uses'[n].receipt = uses'[n].closed
      BY <1>3 DEF UsesInOrder
    <2>1. CASE n = Latest' BY <1>2, <1>4, <2>1 DEF Reserves
    <2>2. CASE n \in DOMAIN uses
      <3>1. uses'[n] = uses[n]
        BY <1>2, <2>2
      <3> QED BY <1>6, <2>2, <3>1 DEF WsInv, Journal, UsesInOrder
    <2> QED BY <1>4, <2>1, <2>2
  <1>8. ReceiptsInOrder'
    <2> SUFFICES ASSUME NEW h \in HelperIds, h[1] = "capture", h[2] \in DOMAIN uses'
                 PROVE  /\ uses'[h[2]].receipt # "none" => helpers[h].state = "ended"
                        /\ uses'[h[2]].receipt = "captured" => helpers[h].result = "succeeded"
      BY DEF ReceiptsInOrder
    <2>1. CASE h[2] = Latest' BY <1>2, <2>1 DEF Reserves
    <2>2. CASE h[2] \in DOMAIN uses BY <1>2, <2>2 DEF WsInv, Journal, ReceiptsInOrder
    <2> QED BY <1>4, <2>1, <2>2
  <1>9. \A t \in WsTasks : tasks[t].state # "running"
    BY <1>1, AtWorkOpen
  <1>10. TasksInOrder'
    <2>1. \A t \in WsTasks : tasks[t].state # "absent" =>
             /\ tasks[t].use \in DOMAIN uses
             /\ uses[tasks[t].use].kind = "admission" /\ uses[tasks[t].use].task = t
      BY DEF WsInv, Journal, TasksInOrder
    <2> QED BY <1>2, <1>3, <1>4, <1>9, <2>1 DEF TasksInOrder
  <1>11. TaskAbsent(Latest)'
    <2>1. \A t \in WsTasks : tasks[t].state # "absent" => tasks[t].use \in DOMAIN uses
      BY DEF WsInv, Journal, TasksInOrder
    <2> QED BY <1>3, <1>4, <2>1 DEF TaskAbsent
  <1>12. ASSUME NEW h \in HelperIds PROVE Entitled(h, helpers[h].state)'
    <2>1. \A n \in DOMAIN uses : PredecessorClosed(n) => PredecessorClosed(n)'
      <3> SUFFICES ASSUME NEW n \in DOMAIN uses PROVE PredecessorClosed(n)' = PredecessorClosed(n)
        OBVIOUS
      <3>1. uses'[n] = uses[n] /\ \A g : Proven(g)' = Proven(g)
        BY <1>2 DEF Proven
      <3> QED BY <1>3, <3>1 DEF PredecessorClosed
    <2> DEFINE s == helpers[h].state
    <2>2. Entitled(h, s) /\ UNCHANGED s
      BY AtWork
    <2> HIDE DEF s
    <2>3. /\ h[1] \in {"provision", "capture"} => s \notin Starting
          /\ h[1] \in {"verify", "checkpoint"} => s \notin {"queued", "running"}
      BY <1>1, <2>2 DEF Entitled
    <2>4. h[1] = "capture" /\ s # "none" =>
             h[2] \in DOMAIN uses' /\ uses'[h[2]].owed /\ PredecessorClosed(h[2])'
      BY <1>2, <1>4, <2>1, <2>2 DEF Entitled
    <2>5. /\ h[1] \in {"verify", "checkpoint"} /\ s = "ended" => h[2] \in DOMAIN uses'
          /\ h[1] = "remove" /\ s # "none" => ReleaseRecorded
          /\ h[1] = "forget" /\ s # "none" => ending.forgetting
          /\ h[1] \in {"remove", "forget"} /\ s # "none" =>
                \A j \in 1..(h[2] - 1) : helpers[<<h[1], j>>].state = "ended"
      BY <1>4, <2>2 DEF Entitled
    <2>6. ReleaseRecorded' = ReleaseRecorded
      BY DEF ReleaseRecorded
    <2> QED BY <2>2, <2>3, <2>4, <2>5, <2>6 DEF Entitled, s
  <1>13. SnapshotsInOrder'
    <2> SUFFICES ASSUME NEW h \in HelperIds, h[1] = "capture", snapshots[h[2]].taken
                 PROVE  /\ helpers[h].state # "none"
                        /\ uses'[h[2]].kind \in {"admission", "verify"} =>
                              InSnapshot(h[2], WriterOf(h[2]))'
                        /\ h[2] # Latest'
      BY <1>3 DEF SnapshotsInOrder
    <2>1. /\ helpers[h].state # "none"
          /\ uses[h[2]].kind \in {"admission", "verify"} => InSnapshot(h[2], WriterOf(h[2]))
      BY DEF WsInv, Content, SnapshotsInOrder
    <2>2. h[2] \in DOMAIN uses
      BY <2>1, AtWork DEF Entitled
    <2>3. uses'[h[2]] = uses[h[2]] /\ WriterOf(h[2])' = WriterOf(h[2])
      BY <1>2, <2>2 DEF WriterOf
    <2> QED BY <1>3, <1>4, <2>1, <2>2, <2>3 DEF InSnapshot
  <1>14. WorkInOrder'
    BY <1>3 DEF WsInv, Content, WorkInOrder, Achieved
  <1>15. EndingInOrder'
    BY <1>1, <1>3 DEF WsInv, Content, EndingInOrder, ReleaseRecorded
  <1>16. (refs \subseteq NamedRefs)'
    <2>1. NamedRefs \subseteq NamedRefs'
      BY <1>2, <1>3, <1>4 DEF NamedRefs
    <2> QED BY <1>3, <2>1 DEF WsInv, Content
  <1> QED BY <1>5, <1>7, <1>8, <1>10, <1>11, <1>12, <1>13, <1>14, <1>15, <1>16
    DEF Journal, Content, HelpersInOrder

\* A command that knows where it stands, and leaves the records in order.
LEMMA ErrandKeeps ==
  ASSUME WsInv, NoClient \notin Clients, NEW c \in Clients, NEW k, GoesTo(c, k), Knows(k)',
         WsTypes' /\ Journal' /\ Content'
  PROVE  WsInv'
  BY CommandKnows DEF GoesTo, WsInv

LEMMA CommandLease ==
  ASSUME WsInv, NEW c \in Clients, NEW k, GoesTo(c, k), UNCHANGED World
  PROVE  LeaseTyped
  BY CommandTypes DEF LeaseTyped

LEMMA AwayKnows == Knows(Away)'
  BY DEF Knows, Away

\* A dispatch reserves the workspace for a task that is not there yet.
LEMMA ReserveDispatchKeeps ==
  ASSUME WsInv, MaxUses \in Nat, NoClient \notin Clients, NEW c \in Clients, ReserveDispatch(c)
  PROVE  WsInv'
  <1>1. /\ clients[c].at = "act" /\ useOwner = c /\ clients[c].goal = "dispatch" /\ Reservable
        /\ At(c, "provision") /\ UNCHANGED <<helpers, ending, useOwner>> /\ UNCHANGED World
    BY DEF ReserveDispatch, Holding
  <1> DEFINE u == [kind |-> "admission", task |-> clients[c].task, discard |-> FALSE,
                   owed |-> FALSE, receipt |-> "none", closed |-> "open", baseline |-> FALSE]
  <1>2. PICK k : /\ GoesTo(c, k) /\ k.at = "provision" /\ k.goal = "dispatch"
                 /\ k.task = clients[c].task
    BY <1>1, StepsOn
  <1>3. clients[c].task \in WsTasks /\ tasks[clients[c].task].state = "absent"
    BY <1>1, HolderKnows DEF Knows
  <1>4. Reserves(u) /\ u.kind = "admission" /\ u.task = clients[c].task
    BY <1>3 DEF ReserveDispatch, Reserve, Reserves, UseRecord, Subjects, Dispositions
  <1> HIDE DEF u
  <1>5. LeaseTyped
    BY <1>1, <1>2, CommandLease
  <1>6. WsTypes' /\ Journal' /\ Content' /\ TaskAbsent(Latest)'
    BY <1>1, <1>4, <1>5, ReserveKeeps
  <1>7. uses'[Latest'] = u /\ Reserved'
    BY <1>1, <1>4, ReservedIs DEF Reservable
  <1>8. Knows(k)'
    <2>1. tasks' = tasks
      BY <1>1 DEF World
    <2> QED BY <1>2, <1>3, <1>4, <1>6, <1>7, <2>1 DEF Knows, Reserves
  <1> QED BY <1>2, <1>6, <1>8, ErrandKeeps

\* An operation reserves the workspace after it was opened.
LEMMA ReserveOperationKeeps ==
  ASSUME WsInv, MaxUses \in Nat, NoClient \notin Clients, NEW c \in Clients, ReserveOperation(c)
  PROVE  WsInv'
  <1> DEFINE kind == clients[c].goal
             step == IF kind = "verify" THEN "oblige" ELSE "submit"
             u == [kind |-> kind, task |-> Nothing, discard |-> FALSE, owed |-> FALSE,
                   receipt |-> "none", closed |-> "open", baseline |-> FALSE]
  <1>1. /\ clients[c].at = "reserve" /\ useOwner = c /\ Reservable
        /\ At(c, step) /\ UNCHANGED <<helpers, ending, useOwner>> /\ UNCHANGED World
    BY DEF ReserveOperation, Holding
  <1>2. kind \in {"verify", "checkpoint"}
    BY <1>1, HolderKnows DEF Knows
  <1>3. PICK k : GoesTo(c, k) /\ k.at = step /\ k.goal = kind
    BY <1>1, StepsOn
  <1>4. Reserves(u) /\ u.kind = kind
    BY <1>2 DEF ReserveOperation, Reserve, Reserves, UseRecord, Subjects, Dispositions
  <1> HIDE DEF u
  <1>5. LeaseTyped
    BY <1>1, <1>3, CommandLease
  <1>6. WsTypes' /\ Journal' /\ Content'
    BY <1>1, <1>4, <1>5, ReserveKeeps
  <1>7. uses'[Latest'] = u /\ Reserved'
    BY <1>1, <1>4, ReservedIs DEF Reservable
  <1>8. PICK goal : goal = kind
    OBVIOUS
  <1>9. Knows(k)'
    BY <1>2, <1>3, <1>4, <1>7, <1>8 DEF Knows
  <1> QED BY <1>3, <1>6, <1>9, ErrandKeeps

\* A release reserves the workspace like every use.
LEMMA ReserveReleaseKeeps ==
  ASSUME WsInv, MaxUses \in Nat, NoClient \notin Clients, NEW c \in Clients, ReserveRelease(c)
  PROVE  WsInv'
  <1> DEFINE k == Errand(Nothing, Nothing, FALSE, "reconcile")
             u == [kind |-> "release", task |-> Nothing, discard |-> clients[c].discard,
                   owed |-> FALSE, receipt |-> "none", closed |-> "open", baseline |-> FALSE]
  <1>1. /\ useOwner = c /\ Reservable /\ clients' = [clients EXCEPT ![c] = k]
        /\ UNCHANGED <<helpers, ending, useOwner>> /\ UNCHANGED World
    BY DEF ReserveRelease, Holding
  <1>2. k \in ClientRecord /\ k.at = "reconcile"
    BY DEF Errand, ClientRecord, Nothing
  <1>3. clients[c].discard \in BOOLEAN
    BY <1>1, HolderKnows DEF ClientRecord
  <1>4. Reserves(u)
    BY <1>3 DEF ReserveRelease, Reserve, Reserves, UseRecord, Subjects, Dispositions
  <1> HIDE DEF u, k
  <1>5. GoesTo(c, k)
    BY <1>1, <1>2 DEF GoesTo
  <1>6. LeaseTyped
    BY <1>1, <1>5, CommandLease
  <1>7. WsTypes' /\ Journal' /\ Content'
    BY <1>1, <1>4, <1>6, ReserveKeeps
  <1>8. PICK q : q = k
    OBVIOUS
  <1>9. Knows(q)'
    BY <1>2, <1>8 DEF Knows
  <1> QED BY <1>5, <1>7, <1>8, <1>9, ErrandKeeps

\* The inventory of a forget names every ref.
LEMMA ForgetWorkspaceKeeps ==
  ASSUME WsInv, MaxUses \in Nat, NoClient \notin Clients, NEW c \in Clients, ForgetWorkspace(c)
  PROVE  WsInv'
  <1> DEFINE k == Errand(Nothing, Nothing, FALSE, "reconcile")
  <1>1. /\ useOwner = c /\ clients' = [clients EXCEPT ![c] = k] /\ ending.removed
        /\ ~ ending.forgotten /\ UNCHANGED <<uses, helpers, useOwner>> /\ UNCHANGED World
    BY DEF ForgetWorkspace, Holding
  <1>2. k \in ClientRecord /\ k.at = "reconcile"
    BY DEF Errand, ClientRecord, Nothing
  <1> HIDE DEF k
  <1>3. GoesTo(c, k)
    BY <1>1, <1>2 DEF GoesTo
  <1>4. LeaseTyped
    BY <1>1, <1>3, CommandLease
  <1>5. ASSUME UNCHANGED ending PROVE WsTypes' /\ Journal' /\ Content'
    BY <1>1, <1>4, <1>5, RecordsStand DEF LeaseTyped
  <1>6. ASSUME ending' = [ending EXCEPT !.forgetting = TRUE, !.intent = NamedRefs]
        PROVE  WsTypes' /\ Journal' /\ Content'
    <2>1. ending \in EndRecord /\ EndingInOrder /\ refs \subseteq NamedRefs
      BY DEF WsInv, WsTypes, Content
    <2>2. NamedRefs \in SUBSET AllRefs
      <3>1. DOMAIN uses \subseteq Uses
        BY UsesNumbered DEF WsInv
      <3> QED BY <3>1 DEF NamedRefs, AllRefs
    <2> DEFINE f == [ending EXCEPT !.forgetting = TRUE]
    <2>3. ending' = [f EXCEPT !.intent = NamedRefs]
      BY <1>6
    <2>4. /\ f \in EndRecord /\ f.by = ending.by /\ f.discard = ending.discard
          /\ f.removed = ending.removed /\ f.forgetting /\ f.forgotten = ending.forgotten
      BY <2>1 DEF EndRecord
    <2> HIDE DEF f
    <2>5. /\ ending' \in EndRecord /\ ending'.by = f.by /\ ending'.discard = f.discard
          /\ ending'.removed = f.removed /\ ending'.forgetting = f.forgetting
          /\ ending'.forgotten = f.forgotten /\ ending'.intent = NamedRefs
      BY <2>2, <2>3, <2>4 DEF EndRecord
    <2>6. UNCHANGED <<refs, place, Latest>>
      BY <1>1 DEF World, Latest
    <2>7. EndingInOrder' /\ (ReleaseRecorded => ReleaseRecorded') /\ ending'.forgetting
      BY <1>1, <2>1, <2>4, <2>5, <2>6 DEF EndingInOrder, ReleaseRecorded
    <2> QED BY <1>1, <1>4, <2>5, <2>7, EndingKeeps
  <1>7. WsTypes' /\ Journal' /\ Content'
    BY <1>5, <1>6 DEF ForgetWorkspace
  <1>8. PICK q : q = k
    OBVIOUS
  <1>9. Knows(q)'
    BY <1>2, <1>8 DEF Knows
  <1> QED BY <1>3, <1>7, <1>8, <1>9, ErrandKeeps

\* A dispatch provisions the workspace, and goes on once that is done.
LEMMA ProvisionForKeeps ==
  ASSUME WsInv, MaxUses \in Nat, MaxTries \in Nat, NoClient \notin Clients, NEW c \in Clients,
         ProvisionForDispatch(c)
  PROVE  WsInv'
  <1> DEFINE h == <<"provision", Latest>>
             a == clients[c]
  <1>1. /\ a.at = "provision" /\ useOwner = c
        /\ UNCHANGED <<uses, ending, useOwner>> /\ UNCHANGED World
    BY DEF ProvisionForDispatch, Holding
  <1>2. /\ Reserved /\ uses[Latest].kind = "admission" /\ uses[Latest].task = a.task
        /\ ~ uses[Latest].owed /\ a.goal = "dispatch" /\ a.task \in WsTasks
        /\ tasks[a.task].state = "absent" /\ TaskAbsent(Latest)
    BY <1>1, HolderKnows DEF Knows
  <1>3. UNCHANGED <<Latest, Reserved, TaskAbsent(Latest), tasks>>
    BY <1>1 DEF Latest, Reserved, TaskAbsent, World
  <1>4. h \in HelperIds /\ h[1] = "provision" /\ h[2] = Latest
    BY <1>2, OpenUse, HelperNames
  <1>5. CASE At(c, "create") /\ UNCHANGED helpers /\ helpers[h].state \in {"none", "ended"}
    <2>1. PICK k : GoesTo(c, k) /\ k.at = "create" /\ k.goal = a.goal /\ k.task = a.task
      BY <1>1, <1>5, StepsOn
    <2>2. helpers[h].state \notin Starting
      BY <1>5 DEF Starting
    <2>3. Knows(k)'
      BY <1>1, <1>2, <1>3, <1>5, <2>1, <2>2 DEF Knows
    <2>4. WsTypes' /\ Journal' /\ Content'
      BY <1>1, <1>5, <2>1, CommandTypes, RecordsStand
    <2> QED BY <2>1, <2>3, <2>4, ErrandKeeps
  <1>6. CASE Bring(h) /\ UNCHANGED clients
    <2>1. GoesTo(c, a)
      BY <1>1, <1>6, Stays
    <2>2. LeaseTyped
      BY <1>1, <2>1, CommandLease
    <2> HIDE DEF h
    <2>3. \A s \in {"opened", "queued", "ended"} : Entitled(h, s)
      BY <1>2, <1>4 DEF Entitled
    <2>4. WsTypes' /\ Journal' /\ Content'
      BY <1>1, <1>4, <1>6, <2>2, <2>3, BringKeeps DEF LeaseTyped
    <2> HIDE DEF a
    <2>5. PICK q : q = a
      OBVIOUS
    <2>6. Knows(q)'
      BY <1>1, <1>2, <1>3, <2>5 DEF Knows
    <2> QED BY <2>1, <2>4, <2>5, <2>6, ErrandKeeps
  <1>7. \/ At(c, "create") /\ UNCHANGED helpers /\ helpers[h].state \in {"none", "ended"}
        \/ Bring(h) /\ UNCHANGED clients
    BY DEF ProvisionForDispatch, Succeeded
  <1> QED BY <1>5, <1>6, <1>7

\* The task is created for the use that was reserved for it.
LEMMA TaskCreateKeeps ==
  ASSUME WsInv, MaxUses \in Nat, NoClient \notin Clients, NEW c \in Clients, CreateTask(c)
  PROVE  WsInv'
  <1> DEFINE t == clients[c].task
             new == [state |-> "created", use |-> Latest]
  <1>1. /\ clients[c].at = "create" /\ useOwner = c /\ At(c, "oblige")
        /\ tasks' = [tasks EXCEPT ![t] = new]
        /\ UNCHANGED <<uses, helpers, place, work, snapshots, refs, ending, useOwner>>
    BY DEF CreateTask, Holding
  <1>2. /\ Reserved /\ uses[Latest].kind = "admission" /\ uses[Latest].task = t
        /\ clients[c].goal = "dispatch" /\ t \in WsTasks /\ tasks[t].state = "absent"
        /\ helpers[<<"provision", Latest>>].state \notin Starting
    BY <1>1, HolderKnows DEF Knows
  <1>3. PICK k : GoesTo(c, k) /\ k.at = "oblige" /\ k.goal = "dispatch" /\ k.task = t
    BY <1>1, <1>2, StepsOn
  <1>4. \A h \in HelperIds : h[1] = "provision" => helpers[h].state \notin Starting
    BY <1>2, OpenUse
  <1>5. Latest \in DOMAIN uses /\ Latest \in Uses /\ tasks \in [WsTasks -> TaskRecord]
    BY <1>2, OpenUse DEF WsInv, WsTypes
  <1>6. new \in TaskRecord /\ new.state = "created" /\ new.use = Latest
    BY <1>5 DEF TaskRecord, Uses
  <1> HIDE DEF new, t
  <1>7. tasks' \in [WsTasks -> TaskRecord] /\ tasks'[t] = new
        /\ \A u \in WsTasks : u # t => tasks'[u] = tasks[u]
    BY <1>1, <1>2, <1>5, <1>6
  <1>8. TasksMove
    <2> SUFFICES ASSUME NEW u \in WsTasks
                 PROVE  /\ tasks[u].state # "absent" =>
                              tasks'[u].use = tasks[u].use /\ tasks'[u].state # "absent"
                        /\ tasks[u].state = "ended" => tasks'[u].state = "ended"
                        /\ tasks'[u].state = "running" => tasks[u].state = "running"
                        /\ tasks[u].state = "absent" /\ tasks'[u].state # "absent" =>
                              /\ tasks'[u].use = Latest /\ Latest \in DOMAIN uses
                              /\ uses[Latest].kind = "admission" /\ uses[Latest].task = u
                              /\ \A h \in HelperIds : h[1] = "provision" =>
                                    helpers[h].state \notin Starting
      BY <1>7 DEF TasksMove
    <2>1. CASE u = t BY <1>2, <1>4, <1>5, <1>6, <1>7, <2>1
    <2>2. CASE u # t BY <1>7, <2>2
    <2> QED BY <2>1, <2>2
  <1>9. WsTypes' /\ Journal' /\ Content'
    BY <1>1, <1>3, <1>8, CommandTypes, TasksGoOn
  <1>10. Knows(k)'
    <2>1. k.task \in WsTasks /\ tasks'[k.task].state # "absent"
      BY <1>2, <1>3, <1>6, <1>7
    <2> QED BY <1>3, <2>1 DEF Knows
  <1> QED BY <1>3, <1>9, <1>10, ErrandKeeps

\* A dispatch that gives up before its task was created aborts its use.
LEMMA FinishAbortedKeeps ==
  ASSUME WsInv, MaxUses \in Nat, MaxTries \in Nat, NoClient \notin Clients, NEW c \in Clients,
         FinishAborted(c)
  PROVE  WsInv'
  <1> DEFINE a == clients[c]
  <1>1. /\ a.at \in {"provision", "create"} /\ useOwner = c /\ AbortAdmission(Latest)
        /\ IF uses' = uses THEN UNCHANGED <<clients, useOwner>> ELSE Leave(c)
        /\ UNCHANGED World
    BY DEF FinishAborted
  <1>2. /\ Reserved /\ uses[Latest].kind = "admission" /\ uses[Latest].task = a.task
        /\ ~ uses[Latest].owed /\ a.goal = "dispatch" /\ a.task \in WsTasks
        /\ tasks[a.task].state = "absent" /\ TaskAbsent(Latest)
        /\ a.at = "create" => helpers[<<"provision", Latest>>].state \notin Starting
    BY <1>1, HolderKnows DEF Knows
  <1>3. CASE uses' # uses
    <2>1. GoesTo(c, Away)
      BY <1>1, <1>3, Leaves
    <2>2. LeaseTyped
      BY <1>1, <2>1, CommandLease
    <2> QED BY <1>1, <1>2, <2>1, <2>2, AbortKeeps, AwayKnows, ErrandKeeps
  <1>4. CASE uses' = uses
    <2>1. GoesTo(c, a)
      BY <1>1, <1>4, Stays
    <2>2. LeaseTyped
      BY <1>1, <2>1, CommandLease
    <2>3. /\ WsTypes' /\ Journal' /\ Content'
          /\ \A g \in HelperIds :
               helpers[g].state \notin Starting => helpers'[g].state \notin Starting
      BY <1>1, <1>2, <1>4, <2>2, AbortKeeps
    <2>4. UNCHANGED <<Latest, Reserved, TaskAbsent(Latest), tasks>>
      BY <1>1, <1>4 DEF Latest, Reserved, TaskAbsent, World
    <2>5. <<"provision", Latest>> \in HelperIds
      BY <1>2, OpenUse, HelperNames
    <2> HIDE DEF a
    <2>6. PICK q : q = a
      OBVIOUS
    <2>7. Knows(q)'
      BY <1>1, <1>2, <1>4, <2>3, <2>4, <2>5, <2>6 DEF Knows
    <2> QED BY <2>1, <2>3, <2>6, <2>7, ErrandKeeps
  <1> QED BY <1>3, <1>4

\* What a task will owe is recorded while its use is open.
LEMMA RecordCaptureKeeps ==
  ASSUME WsInv, MaxUses \in Nat, NoClient \notin Clients, NEW c \in Clients, RecordTaskCapture(c)
  PROVE  WsInv'
  <1> DEFINE t == clients[c].task
             n == tasks[t].use
  <1>1. /\ clients[c].at = "oblige" /\ clients[c].goal = "dispatch" /\ useOwner = c
        /\ uses[n].owed \/ (Reserved /\ Latest = n)
        /\ uses' = [uses EXCEPT ![n].owed = TRUE] /\ At(c, "submit")
        /\ UNCHANGED <<helpers, ending, useOwner>> /\ UNCHANGED World
    BY DEF RecordTaskCapture, Holding
  <1>2. t \in WsTasks /\ tasks[t].state # "absent"
    BY <1>1, HolderKnows DEF Knows
  <1>3. n \in DOMAIN uses /\ uses[n].kind = "admission" /\ uses[n].task = t
    BY <1>2 DEF WsInv, Journal, TasksInOrder
  <1>4. PICK k : GoesTo(c, k) /\ k.at = "submit" /\ k.goal = "dispatch" /\ k.task = t
    BY <1>1, StepsOn
  <1>5. LeaseTyped
    BY <1>1, <1>4, CommandLease
  <1>6. ASSUME uses[n].owed PROVE WsTypes' /\ Journal' /\ Content'
    <2>1. uses \in Seq(UseRecord) /\ uses[n] \in UseRecord
      BY <1>3, UsesNumbered DEF WsInv, WsTypes
    <2> DEFINE u == uses[n]
    <2>2. [u EXCEPT !.owed = TRUE] = u
      BY <1>6, <2>1 DEF UseRecord
    <2>3. uses' = [uses EXCEPT ![n] = u]
      BY <1>1, <2>2
    <2>4. uses' = uses
      BY <1>3, <2>1, <2>3
    <2> QED BY <1>1, <1>5, <2>4, RecordsStand DEF LeaseTyped
  <1>7. ASSUME Reserved, Latest = n PROVE WsTypes' /\ Journal' /\ Content'
    BY <1>1, <1>2, <1>3, <1>5, <1>7, HeadOwes
  <1>8. WsTypes' /\ Journal' /\ Content'
    BY <1>1, <1>6, <1>7
  <1>9. tasks' = tasks
    BY <1>1 DEF World
  <1>10. Knows(k)'
    BY <1>2, <1>4, <1>9 DEF Knows
  <1> QED BY <1>4, <1>8, <1>10, ErrandKeeps

\* A task is submitted once it owes its capture.
LEMMA SubmitKeeps ==
  ASSUME WsInv, MaxUses \in Nat, NoClient \notin Clients, NEW c \in Clients, SubmitTask(c)
  PROVE  WsInv'
  <1> DEFINE t == clients[c].task
             next == IF tasks[t].state = "created" THEN "submitted" ELSE tasks[t].state
  <1>1. /\ clients[c].at = "submit" /\ clients[c].goal = "dispatch" /\ useOwner = c
        /\ tasks' = [tasks EXCEPT ![t].state = next] /\ Leave(c)
        /\ UNCHANGED <<uses, helpers, place, work, snapshots, refs, ending>>
    BY DEF SubmitTask, Holding
  <1>2. t \in WsTasks /\ tasks[t].state # "absent" /\ tasks \in [WsTasks -> TaskRecord]
    BY <1>1, HolderKnows DEF Knows, WsInv, WsTypes
  <1>3. /\ next \in {"absent", "created", "submitted", "running", "ended"} /\ next # "absent"
        /\ tasks[t].state = "ended" => next = "ended"
        /\ next = "running" => tasks[t].state = "running"
    BY <1>2 DEF TaskRecord
  <1> HIDE DEF next, t
  <1>4. TasksMove
    BY <1>1, <1>2, <1>3 DEF TasksMove, TaskRecord
  <1>5. GoesTo(c, Away)
    BY <1>1, Leaves
  <1>6. WsTypes' /\ Journal' /\ Content'
    BY <1>1, <1>4, <1>5, CommandTypes, TasksGoOn
  <1> QED BY <1>5, <1>6, AwayKnows, ErrandKeeps

\* An operation is opened for the use that comes next.
LEMMA OpenOperationKeeps ==
  ASSUME WsInv, MaxUses \in Nat, MaxTries \in Nat, NoClient \notin Clients, NEW c \in Clients,
         OpenUseOperation(c)
  PROVE  WsInv'
  <1> DEFINE kind == clients[c].goal
             h == <<kind, Latest + 1>>
  <1>1. /\ kind \in {"verify", "checkpoint"} /\ Latest < MaxUses /\ useOwner = c /\ At(c, "reserve")
        /\ helpers' = [helpers EXCEPT ![h].state = "opened"]
        /\ UNCHANGED <<uses, ending, useOwner>> /\ UNCHANGED World
    BY DEF OpenUseOperation, Holding
  <1>2. Latest \in Nat /\ Latest + 1 \in Uses /\ DOMAIN uses = 1..Latest
    BY <1>1, UsesNumbered DEF WsInv, Uses
  <1>3. h \in HelperIds /\ h[1] = kind /\ h[2] = Latest + 1
    BY <1>1, <1>2, HelperNames
  <1>4. PICK k : GoesTo(c, k) /\ k.at = "reserve" /\ k.goal = kind
    BY <1>1, StepsOn
  <1> HIDE DEF h
  <1>5. /\ helpers[h] \in HelperRecord /\ Achieved(h, helpers[h])
        /\ helpers[h].state \in {"none", "opened"}
    <2>1. h[2] # Latest /\ h[2] \notin DOMAIN uses
      BY <1>2, <1>3
    <2>2. helpers[h] \in HelperRecord /\ Achieved(h, helpers[h]) /\ Entitled(h, helpers[h].state)
      BY <1>3, AtWork
    <2>3. helpers[h].state \notin {"queued", "running", "ended"}
      BY <1>1, <1>3, <2>1, <2>2 DEF Entitled
    <2> QED BY <2>2, <2>3 DEF HelperRecord
  <1> DEFINE r == [helpers[h] EXCEPT !.state = "opened"]
  <1>6. helpers' = [helpers EXCEPT ![h] = r]
    BY <1>1
  <1>7. r \in HelperRecord /\ r.state = "opened" /\ r.done = 0 /\ r.result = "none"
    BY <1>5 DEF HelperRecord, Achieved
  <1> HIDE DEF r
  <1>8. OneMoves(h, r)
    BY <1>5, <1>6, <1>7 DEF OneMoves
  <1>9. Achieved(h, r)
    BY <1>7 DEF Achieved
  <1>10. Entitled(h, r.state)
    BY <1>1, <1>3, <1>7 DEF Entitled
  <1>11. WsTypes' /\ Journal' /\ Content'
    BY <1>1, <1>3, <1>4, <1>8, <1>9, <1>10, CommandTypes, HelperMoves
  <1>12. PICK goal : goal = kind
    OBVIOUS
  <1>13. Knows(k)'
    BY <1>1, <1>4, <1>12 DEF Knows
  <1> QED BY <1>4, <1>11, <1>13, ErrandKeeps

\* A verification owes its capture before it is submitted.
LEMMA RecordVerificationKeeps ==
  ASSUME WsInv, MaxUses \in Nat, NoClient \notin Clients, NEW c \in Clients,
         RecordVerificationUse(c)
  PROVE  WsInv'
  <1>1. /\ clients[c].at = "oblige" /\ clients[c].goal = "verify" /\ useOwner = c
        /\ uses' = [uses EXCEPT ![Latest].owed = TRUE] /\ At(c, "submit")
        /\ UNCHANGED <<helpers, ending, useOwner>> /\ UNCHANGED World
    BY DEF RecordVerificationUse, Holding
  <1>2. Reserved /\ uses[Latest].kind = "verify"
    BY <1>1, HolderKnows DEF Knows
  <1>3. PICK k : GoesTo(c, k) /\ k.at = "submit" /\ k.goal = "verify"
    BY <1>1, StepsOn
  <1>4. LeaseTyped
    BY <1>1, <1>3, CommandLease
  <1>5. /\ WsTypes' /\ Journal' /\ Content' /\ UNCHANGED <<Latest, Reserved>>
        /\ uses'[Latest].kind = "verify"
    BY <1>1, <1>2, <1>4, HeadOwes
  <1>6. Knows(k)'
    BY <1>2, <1>3, <1>5 DEF Knows
  <1> QED BY <1>3, <1>5, <1>6, ErrandKeeps

\* An operation is submitted under the use that names it.
LEMMA SubmitOperationKeeps ==
  ASSUME WsInv, MaxUses \in Nat, MaxTries \in Nat, NoClient \notin Clients, NEW c \in Clients,
         SubmitUseOperation(c)
  PROVE  WsInv'
  <1> DEFINE kind == clients[c].goal
             h == <<kind, Latest>>
  <1>1. /\ clients[c].at = "submit" /\ kind \in {"verify", "checkpoint"} /\ useOwner = c
        /\ SubmitOperation(h) /\ Leave(c) /\ UNCHANGED <<uses, ending>> /\ UNCHANGED World
    BY DEF SubmitUseOperation, Holding
  <1>2. Reserved /\ uses[Latest].kind = kind
    BY <1>1, HolderKnows DEF Knows
  <1>3. h \in HelperIds /\ h[1] = kind /\ h[2] = Latest /\ Latest \in DOMAIN uses
    BY <1>1, <1>2, OpenUse, HelperNames
  <1> HIDE DEF h
  <1>4. \A s \in {"opened", "queued", "ended"} : Entitled(h, s)
    BY <1>1, <1>2, <1>3 DEF Entitled
  <1>5. GoesTo(c, Away)
    BY <1>1, Leaves
  <1>6. LeaseTyped
    BY <1>1, <1>5, CommandLease
  <1>7. WsTypes' /\ Journal' /\ Content'
    BY <1>1, <1>3, <1>4, <1>6, BringKeeps DEF LeaseTyped
  <1> QED BY <1>5, <1>7, AwayKnows, ErrandKeeps

\* Every step of a command keeps the workspace in order.
LEMMA ClientKeeps ==
  ASSUME WsInv, MaxUses \in Nat, MaxTries \in Nat \ {0}, NoClient \notin Clients, NEW c \in Clients,
         ClientStep(c)
  PROVE  WsInv'
  BY BeginKeeps, StopKeeps, ReconcileKeeps, ReconciledKeeps, ReserveDispatchKeeps,
     ProvisionForKeeps, TaskCreateKeeps, FinishAbortedKeeps, RecordCaptureKeeps, SubmitKeeps,
     OpenOperationKeeps, ReserveOperationKeeps, RecordVerificationKeeps, SubmitOperationKeeps,
     ReserveReleaseKeeps, ForgetWorkspaceKeeps DEF ClientStep

\* A new workspace is in order.
LEMMA WorkspaceStarts ==
  ASSUME WsInit, MaxUses \in Nat, NoClient \notin Clients
  PROVE  WsInv
  <1>1. /\ uses = <<>> /\ Latest = 0 /\ DOMAIN uses = {} /\ ~ Reserved /\ ~ ReleaseRecorded
    BY EmptySeq, LenProperties DEF WsInit, Latest, Reserved, ReleaseRecorded, NoEnd
  <1>2. WsTypes
    <2>1. Len(uses) <= MaxUses /\ uses \in Seq(UseRecord)
      BY <1>1, EmptySeq DEF Latest
    <2>2. ending \in EndRecord /\ clients \in [Clients -> ClientRecord]
      BY DEF WsInit, NoEnd, EndRecord, Away, ClientRecord, Nothing
    <2> QED BY <1>1, <2>1, <2>2 DEF WsInit, WsTypes, WsTypeOK, TaskRecord, HelperRecord
  <1>3. Journal
    <2>1. \A h \in HelperIds : Entitled(h, helpers[h].state)
      BY DEF WsInit, Entitled, Starting
    <2> QED
      BY <1>1, <2>1 DEF WsInit, Journal, UsesInOrder, ReceiptsInOrder, TasksInOrder, HelpersInOrder
  <1>4. Content
    <2>1. \A h \in HelperIds : Achieved(h, helpers[h])
      BY DEF WsInit, Achieved
    <2>2. SnapshotsInOrder
      <3>1. \A h \in HelperIds : h[1] = "capture" => h[2] \in Uses
        BY HelperNames
      <3> QED BY <3>1 DEF WsInit, SnapshotsInOrder
    <2> QED BY <1>1, <2>1, <2>2 DEF WsInit, Content, WorkInOrder, EndingInOrder, NoEnd
  <1>5. ClientsInOrder
    BY <1>1 DEF WsInit, ClientsInOrder, Lawful, Knows, Away
  <1> QED BY <1>2, <1>3, <1>4, <1>5 DEF WsInv

\* Who is in the worktree is there under the open use, or for a removal.
LEMMA OccupantIs ==
  ASSUME WsInv, MaxUses \in Nat, NEW h \in HelperIds, h[1] # "forget", helpers[h].state = "running"
  PROVE  /\ h[1] = "remove" => ~ Reserved
         /\ h[1] # "remove" => /\ Reserved /\ h = <<h[1], Latest>>
                               /\ \A t \in WsTasks : tasks[t].state # "running"
         /\ h[1] = "provision" => uses[Latest].kind = "admission" /\ ~ uses[Latest].owed
         /\ h[1] = "capture" => /\ uses[Latest].owed /\ uses[Latest].kind # "checkpoint"
                                /\ uses[Latest].kind = "verify" => Proven(<<"verify", Latest>>)
         /\ h[1] \in {"verify", "checkpoint"} => uses[Latest].kind = h[1]
         /\ h[1] \in {"provision", "capture", "verify", "checkpoint", "remove"}
  <1>1. /\ Entitled(h, "running") /\ h = <<h[1], h[2]>>
        /\ h[1] \in {"provision", "capture", "verify", "checkpoint", "remove"}
    BY AtWork, HelperNames
  <1>2. h[1] = "remove" => ~ Reserved
    BY <1>1, OpenGoesOn DEF Entitled
  <1>3. h[1] # "remove" => Reserved /\ h = <<h[1], Latest>>
    BY <1>1 DEF Entitled, Starting
  <1>4. h[1] = "provision" =>
           uses[Latest].kind = "admission" /\ ~ uses[Latest].owed /\ TaskAbsent(Latest)
    BY <1>1 DEF Entitled, Starting
  <1>5. h[1] = "capture" => uses[Latest].owed /\ PredecessorClosed(Latest)
    BY <1>1 DEF Entitled, Starting
  <1>6. h[1] \in {"verify", "checkpoint"} => uses[Latest].kind = h[1]
    BY <1>1 DEF Entitled
  <1>7. ASSUME h[1] # "remove", NEW t \in WsTasks, tasks[t].state = "running" PROVE FALSE
    <2>1. tasks[t].use = Latest /\ uses[Latest].kind = "admission" /\ uses[Latest].task = t
      BY <1>7, AtWorkOpen
    <2>2. ~ TaskAbsent(Latest) /\ ~ PredecessorClosed(Latest)
      BY <1>7, <2>1 DEF TaskAbsent, PredecessorClosed, Closed
    <2> QED BY <1>1, <1>4, <1>5, <1>6, <1>7, <2>1, <2>2
  <1>8. h[1] = "capture" => /\ uses[Latest].kind # "checkpoint"
                            /\ uses[Latest].kind = "verify" => Proven(<<"verify", Latest>>)
    BY <1>3, <1>5, OpenUse DEF PredecessorClosed
  <1> QED BY <1>1, <1>2, <1>3, <1>4, <1>5, <1>6, <1>7, <1>8

\* One process at a time is in the worktree.
LEMMA OneOccupant ==
  ASSUME WsInv, MaxUses \in Nat
  PROVE  SoleOccupant
  <1> DEFINE Providing == {t \in WsTasks : tasks[t].state = "running"}
             Aides == {h \in HelperIds : h[1] # "forget" /\ helpers[h].state = "running"}
  <1>1. \A t, u \in Providing : t = u
    BY AtWorkOpen
  <1>2. ASSUME NEW h \in Aides, NEW t \in Providing PROVE FALSE
    <2>1. h[1] = "remove"
      BY OccupantIs
    <2> QED BY <2>1, AtWorkOpen, OccupantIs
  <1>3. ASSUME NEW h \in Aides, NEW g \in Aides PROVE h = g
    <2>1. CASE h[1] = "remove" /\ g[1] = "remove"
      <3>1. /\ h = <<"remove", h[2]>> /\ g = <<"remove", g[2]>>
            /\ h[2] \in 1..MaxTries /\ g[2] \in 1..MaxTries
        BY <2>1, HelperNames
      <3>2. /\ \A j \in 1..(h[2] - 1) : helpers[<<"remove", j>>].state = "ended"
            /\ \A j \in 1..(g[2] - 1) : helpers[<<"remove", j>>].state = "ended"
        BY <2>1, AtWork DEF Entitled
      <3>3. ~ (h[2] < g[2]) /\ ~ (g[2] < h[2])
        <4>1. helpers[<<"remove", h[2]>>].state = "running"
          BY <3>1
        <4>2. helpers[<<"remove", g[2]>>].state = "running"
          BY <3>1
        <4>3. /\ h[2] < g[2] => h[2] \in 1..(g[2] - 1)
              /\ g[2] < h[2] => g[2] \in 1..(h[2] - 1)
          BY <3>1
        <4> QED BY <3>2, <4>1, <4>2, <4>3
      <3>4. h[2] = g[2]
        BY <3>1, <3>3
      <3> QED BY <3>1, <3>4
    <2>2. CASE h[1] # "remove" /\ g[1] # "remove"
      <3>1. /\ h = <<h[1], Latest>> /\ g = <<g[1], Latest>>
            /\ helpers[h].state = "running" /\ helpers[g].state = "running"
        BY <2>2, OccupantIs
      <3>2. Proven(<<"verify", Latest>>) => h[1] # "verify" /\ g[1] # "verify"
        BY <3>1 DEF Proven, Closed
      <3>3. /\ h[1] = "provision" => uses[Latest].kind = "admission" /\ ~ uses[Latest].owed
            /\ h[1] = "capture" =>
                  /\ uses[Latest].owed /\ uses[Latest].kind # "checkpoint"
                  /\ uses[Latest].kind = "verify" => Proven(<<"verify", Latest>>)
            /\ h[1] \in {"verify", "checkpoint"} => uses[Latest].kind = h[1]
            /\ h[1] \in {"provision", "capture", "verify", "checkpoint", "remove"}
        BY OccupantIs
      <3>4. /\ g[1] = "provision" => uses[Latest].kind = "admission" /\ ~ uses[Latest].owed
            /\ g[1] = "capture" =>
                  /\ uses[Latest].owed /\ uses[Latest].kind # "checkpoint"
                  /\ uses[Latest].kind = "verify" => Proven(<<"verify", Latest>>)
            /\ g[1] \in {"verify", "checkpoint"} => uses[Latest].kind = g[1]
            /\ g[1] \in {"provision", "capture", "verify", "checkpoint", "remove"}
        BY OccupantIs
      <3>5. h[1] = g[1]
        BY <2>2, <3>2, <3>3, <3>4
      <3> QED BY <3>1, <3>5
    <2>3. ~ (h[1] = "remove" /\ g[1] # "remove") /\ ~ (g[1] = "remove" /\ h[1] # "remove")
      BY OccupantIs
    <2> QED BY <2>1, <2>2, <2>3
  <1>4. Occupants = Providing \cup Aides
    BY DEF Occupants
  <1> HIDE DEF Providing, Aides
  <1>5. \A x, y \in Occupants : x = y
    BY <1>1, <1>2, <1>3, <1>4
  <1>6. Cardinality(Occupants) = 0 \/ Cardinality(Occupants) = 1
    <2>1. CASE Occupants = {} BY <2>1, FS_EmptySet
    <2>2. CASE Occupants # {}
      <3>1. PICK x : x \in Occupants
        BY <2>2
      <3>2. Occupants = {x}
        BY <1>5, <3>1
      <3> QED BY <3>2, FS_Singleton
    <2> QED BY <2>1, <2>2
  <1> QED BY <1>6 DEF SoleOccupant

\* A use with a receipt that says captured has its snapshot.
LEMMA CapturedIs ==
  ASSUME WsInv, MaxUses \in Nat, NEW n \in DOMAIN uses, uses[n].receipt = "captured"
  PROVE  /\ snapshots[n].taken /\ PredecessorClosed(n)
         /\ <<"capture", n>> \in refs \/ ending.forgetting
         /\ uses[n].kind \in {"admission", "verify"} => InSnapshot(n, WriterOf(n))
         /\ uses[n].kind = "release" /\ n = Latest => work \subseteq snapshots[n].content
  <1> DEFINE h == <<"capture", n>>
  <1>1. h \in HelperIds /\ h[1] = "capture" /\ h[2] = n
    BY UsesNumbered, HelperNames DEF WsInv
  <1> HIDE DEF h
  <1>2. helpers[h].state = "ended" /\ helpers[h].result = "succeeded"
    BY <1>1 DEF WsInv, Journal, ReceiptsInOrder
  <1>3. snapshots[n].taken /\ (h \in refs \/ ending.forgetting) /\ PredecessorClosed(n)
    BY <1>1, <1>2, AtWork DEF Achieved, Entitled
  <1>4. /\ uses[n].kind \in {"admission", "verify"} => InSnapshot(n, WriterOf(n))
        /\ uses[n].kind = "release" /\ n = Latest => work \subseteq snapshots[n].content
    BY <1>1, <1>3 DEF WsInv, Content, SnapshotsInOrder
  <1> QED BY <1>3, <1>4 DEF h

\* What the order of the journal and of the worktree's content gives.
LEMMA OrderIsSafe ==
  ASSUME WsInv, MaxUses \in Nat
  PROVE  WorkspaceIsSafe
  <1>1. CaptureIsComplete
    <2> SUFFICES ASSUME NEW n \in DOMAIN uses, uses[n].receipt = "captured"
                 PROVE  /\ uses[n].kind = "admission" =>
                              /\ tasks[uses[n].task].state \in Closed
                              /\ InSnapshot(n, <<"task", uses[n].task>>)
                        /\ uses[n].kind = "verify" =>
                              Proven(<<"verify", n>>) /\ InSnapshot(n, <<"verify", n>>)
      BY DEF CaptureIsComplete
    <2> QED BY CapturedIs DEF PredecessorClosed, WriterOf
  <1>2. NothingIsLost
    <2> SUFFICES ASSUME place.tree = "gone", ~ ending.discard
                 PROVE  /\ snapshots[ending.by].taken /\ work \subseteq snapshots[ending.by].content
                        /\ <<"capture", ending.by>> \in refs \/ ending.forgetting
      BY DEF NothingIsLost
    <2>1. /\ ending.by = Latest /\ uses[Latest].kind = "release" /\ ending.by # 0
          /\ uses[Latest].receipt = "captured"
      BY DEF WsInv, Content, EndingInOrder, ReleaseRecorded
    <2>2. Latest \in DOMAIN uses
      BY <2>1, UsesNumbered DEF WsInv
    <2> QED BY <2>1, <2>2, CapturedIs
  <1>3. RefsAreKnown
    BY DEF WsInv, Content, EndingInOrder, RefsAreKnown
  <1> QED BY <1>1, <1>2, <1>3, OneOccupant DEF WorkspaceIsSafe

\* Whatever commands begin, stop and take up again, one process at a time is in the worktree,
\* a captured use has all that was written in it, nothing is removed that was not captured or
\* given up, and every ref is named by a record: for any number of commands, tasks and uses.
THEOREM WorkspaceInductive ==
  ASSUME MaxUses \in Nat, MaxTries \in Nat \ {0}, NoClient \notin Clients
  PROVE  /\ WsInit => WsInv
         /\ WsInv /\ [WsNext]_wsVars => WsInv'
         /\ WsInv => WsTypeOK /\ WorkspaceIsSafe
  <1>1. WsInit => WsInv
    BY WorkspaceStarts
  <1>2. WsInv /\ WsNext => WsInv'
    BY ClientKeeps, TaskKeeps, HelperKeeps DEF WsNext
  <1>3. ASSUME WsInv, UNCHANGED wsVars PROVE WsInv'
    <2>1. UNCHANGED <<uses, helpers, ending, World, useOwner, clients, tasks>>
      BY <1>3 DEF wsVars, World
    <2>2. WsTypes' /\ Journal' /\ Content'
      <3>1. clients \in [Clients -> ClientRecord] /\ useOwner \in Clients \cup {NoClient}
        BY <1>3 DEF WsInv, WsTypes, WsTypeOK
      <3> QED BY <1>3, <2>1, <3>1, RecordsStand
    <2>3. ClientsInOrder'
      BY <1>3, <2>1, ClientsStand
    <2> QED BY <2>2, <2>3 DEF WsInv
  <1>4. WsInv => WsTypeOK /\ WorkspaceIsSafe
    BY OrderIsSafe DEF WsInv, WsTypes
  <1> QED BY <1>1, <1>2, <1>3, <1>4

--------------------
(* The files of a task.                                                    *)

Publishing == {"stage", "link", "barrier", "unlink"}
Publishes(a, fs) == a.at \in Publishing /\ a.file \in fs
Prepares(a) == a.at = "prepare" \/ Publishes(a, PreparedSet)
Drawn == {"exit", "result", "reject", "outcome"} \cup RecheckFiles

\* The lease of a process at its step, and what it knows of the launch and the raw output.
Entitles(p) ==
    LET a == actor[p] IN
    /\ (a.at = "idle" => a = IdleActor) /\ (a.at # "idle" => p \in maintSH)
    /\ a.at = "link" => p \in stages
    /\ a.at = "admit" => p \in Creators /\ a.val \in Requests /\ ~ a.launched
    /\ a.at = "run" => p \in RunWorkers
    /\ a.at \in {"run", "collect"} => runLock = p
    /\ a.at = "run" /\ ~ a.launched => starts = 0
    /\ a.launched => p \in RunWorkers /\ runLock = p
    /\ a.at = "run" \/ a.launched => disk["start"] # Absent
    /\ a.imported => raw.seen # Absent

\* What a process knows of the record it prepares or publishes.
Relies(p) ==
    LET a == actor[p] IN
    /\ a.at \in Publishing => a.file # Absent
    /\ Prepares(a) =>
          /\ p \in Creators /\ admission = p /\ a.val \in Requests /\ ~ a.launched
          /\ \A f \in PreparedSet : seen[f] \in {a.val, Absent}
    /\ Publishes(a, Drawn \cup {"start"}) => runLock = p
    /\ Publishes(a, {"start"}) =>
          /\ p \in RunWorkers /\ a.val \in Requests /\ ~ a.launched /\ starts = 0
          /\ \A f \in PreparedSet : disk[f] = a.val
    /\ Publishes(a, Drawn) => a.val \in Contents
    /\ Publishes(a, {"exit"}) => a.launched /\ raw = [seen |-> a.val, disk |-> a.val]
    /\ Publishes(a, {"result", "reject"}) => a.file = PayloadOf(a.val) /\ seen["exit"] = a.val
    /\ Publishes(a, {"outcome"}) => disk["exit"] = a.val /\ disk[PayloadOf(a.val)] = a.val
    /\ Publishes(a, RecheckFiles) => disk["outcome"] = a.val
    /\ a.at \in {"barrier", "unlink"} => seen[a.file] = a.val
    /\ a.at = "unlink" => disk[a.file] = a.val
    /\ a.at = "unlink" /\ a.file \in {"result", "reject"} => disk["exit"] = a.val

\* Each record is backed, on disk, by those it was drawn from.
RecordsInOrder ==
    /\ \A f \in Files : disk[f] \in {seen[f], Absent}
    /\ \A f, g \in PreparedSet : Exists(f) /\ Exists(g) => seen[f] = seen[g]
    /\ Exists("start") => \A f \in PreparedSet : disk[f] = seen["start"]
    /\ Exists("exit") => raw = [seen |-> seen["exit"], disk |-> seen["exit"]]
                         /\ disk["start"] # Absent
    /\ Exists("outcome") => /\ disk["exit"] = seen["outcome"]
                            /\ disk[PayloadOf(seen["outcome"])] = seen["outcome"]
    /\ Exists("report") => disk["outcome"] = seen["report"]
    /\ \A o \in reported : disk["outcome"] = o
    /\ \A o \in assessed : disk["report"] = o
    /\ starts <= 1 /\ (starts = 1 => disk["start"] # Absent)

DirTypes ==
    /\ DirTypeOK
    /\ \A f \in PreparedSet \cup {"start"} : seen[f] \in Requests \cup {Absent}
    /\ \A f \in Drawn : seen[f] \in Contents \cup {Absent}

DirInv == DirTypes /\ RecordsInOrder /\ \A p \in Actors : Entitles(p) /\ Relies(p)

\* What is recorded is not taken away.
Lasts ==
    /\ \A f \in Files : /\ seen[f] # Absent => seen'[f] = seen[f]
                        /\ disk[f] # Absent => disk'[f] = disk[f]
    /\ raw.seen # Absent => raw'.seen # Absent
    /\ raw.seen # Absent /\ raw.disk = raw.seen => raw' = raw

\* A step of process p leaves the other processes where they are, with their locks.
Spares(p) ==
    \A q \in Actors \ {p} :
        /\ actor'[q] = actor[q] /\ (q \in maintSH => q \in maintSH')
        /\ (admission = q => admission' = q) /\ (runLock = q => runLock' = q)

\* It touches what they rely on only under its own lock.
Alone(p) ==
    /\ Spares(p) /\ \A q \in Actors \ {p} : q \in stages => q \in stages'
    /\ admission = p \/ \A f \in PreparedSet : seen'[f] = seen[f]
    /\ runLock = p \/ starts' = starts

\* The names of the files, and the payload of a verdict.
LEMMA FileNames ==
  ASSUME Absent \notin Requests
  PROVE  /\ Files = PreparedSet \cup {"start"} \cup Drawn /\ PreparedSet \subseteq Files
         /\ {"start", "exit", "outcome", "report", "rresult"} \subseteq Files
         /\ Absent \notin Files /\ Absent \notin Contents
         /\ \A c : PayloadOf(c) \in {"result", "reject"} /\ PayloadOf(c) \in Files
  BY DEF Files, TaskFiles, RecheckFiles, PreparedSet, Drawn, Absent, Contents, PayloadOf

\* The others still know what they knew.
LEMMA OthersRely ==
  ASSUME DirTypes, Absent \notin Requests, NEW p \in Actors, Lasts, Alone(p),
         NEW q \in Actors \ {p}, Entitles(q), Relies(q)
  PROVE  Entitles(q)' /\ Relies(q)'
  <1> DEFINE a == actor[q]
  <1>1. a \in Actor /\ actor'[q] = a /\ raw \in [seen : Contents \cup {Absent}, disk : Contents \cup {Absent}]
    BY DEF Alone, Spares, DirTypes, DirTypeOK
  <1>2. Entitles(q)'
    BY <1>1, FileNames DEF Entitles, Alone, Spares, Lasts, Drawn
  <1>3. Publishes(a, PreparedSet \cup {"start"}) => a.val # Absent
    BY DEF Relies, Prepares, Publishes
  <1>4. Publishes(a, Drawn) => a.val # Absent
    BY FileNames DEF Relies, Publishes
  <1>5. a.at \in Publishing => a.file \in Files /\ a.val # Absent
    BY <1>1, <1>3, <1>4, FileNames DEF Relies, Actor, Publishes
  <1>6. Prepares(a) =>
          /\ q \in Creators /\ admission' = q /\ a.val \in Requests /\ ~ a.launched
          /\ \A f \in PreparedSet : seen'[f] \in {a.val, Absent}
    BY DEF Relies, Alone, Spares
  <1>7. Publishes(a, Drawn \cup {"start"}) => runLock' = q
    BY DEF Relies, Alone, Spares
  <1>8. Publishes(a, {"start"}) =>
          /\ q \in RunWorkers /\ a.val \in Requests /\ ~ a.launched /\ starts' = 0
          /\ \A f \in PreparedSet : disk'[f] = a.val
    BY FileNames DEF Relies, Publishes, Alone, Lasts
  <1>9. Publishes(a, {"exit"}) => a.launched /\ raw' = [seen |-> a.val, disk |-> a.val]
    BY <1>5 DEF Publishes, Relies, Lasts
  <1>11. Publishes(a, {"result", "reject"}) => a.file = PayloadOf(a.val) /\ seen'["exit"] = a.val
    BY <1>5, FileNames DEF Relies, Publishes, Lasts
  <1>12. Publishes(a, {"outcome"}) => disk'["exit"] = a.val /\ disk'[PayloadOf(a.val)] = a.val
    BY <1>5, FileNames DEF Relies, Publishes, Lasts
  <1>13. Publishes(a, RecheckFiles) => disk'["outcome"] = a.val
    BY <1>5, FileNames DEF Relies, Publishes, Lasts
  <1>14. /\ a.at \in {"barrier", "unlink"} => seen'[a.file] = a.val
         /\ a.at = "unlink" => disk'[a.file] = a.val
         /\ a.at = "unlink" /\ a.file \in {"result", "reject"} => disk'["exit"] = a.val
    BY <1>5, FileNames DEF Relies, Lasts, Publishing
  <1> QED
    BY <1>1, <1>2, <1>6, <1>7, <1>8, <1>9, <1>11, <1>12, <1>13, <1>14 DEF Relies, Publishes, Prepares

\* So it is enough that the process that moves knows where it is.
LEMMA ProcessMoves ==
  ASSUME DirInv, Absent \notin Requests, NEW p \in Actors, Lasts, Alone(p),
         DirTypes', RecordsInOrder', Entitles(p)', Relies(p)'
  PROVE  DirInv'
  BY OthersRely DEF DirInv

\* A process that returns is idle, or its runner goes on.
LEMMA ReturnRests ==
  ASSUME DirTypes, NEW p \in Actors, Entitles(p), Return(p), Lasts, "start" \in Files
  PROVE  /\ Spares(p) /\ Entitles(p)' /\ Relies(p)'
         /\ actor' \in [Actors -> Actor] /\ maintSH' \subseteq Actors
         /\ admission' \in Creators \cup {Nobody} /\ runLock' \in Actors \cup {Nobody}
  <1> DEFINE a == actor[p]
  <1>1. a \in Actor /\ actor \in [Actors -> Actor]
    BY DEF DirTypes, DirTypeOK
  <1>2. CASE p \in RunWorkers /\ a.launched
    <2> DEFINE b == [a EXCEPT !.at = "run"]
    <2>0. a.at # "idle"
      BY <1>2 DEF Entitles, IdleActor
    <2>1. b \in Actor /\ b.at = "run" /\ b.launched = a.launched /\ b.imported = a.imported
      BY <1>1 DEF Actor
    <2> HIDE DEF b
    <2>2. actor' = [actor EXCEPT ![p] = b] /\ UNCHANGED <<maintSH, admission, runLock>>
      BY <1>1, <1>2 DEF Return, Go, b
    <2>3. actor'[p] = b /\ Spares(p) /\ actor' \in [Actors -> Actor]
      BY <1>1, <2>1, <2>2 DEF Spares
    <2> QED
      BY <1>2, <2>0, <2>1, <2>2, <2>3 DEF Entitles, Relies, Prepares, Publishes, Publishing, Lasts, DirTypes,
         DirTypeOK
  <1>3. CASE ~ (p \in RunWorkers /\ a.launched)
    <2>1. actor' = [actor EXCEPT ![p] = IdleActor] /\ ReleaseLocks(p)
      BY <1>3 DEF Return
    <2>2. IdleActor \in Actor /\ IdleActor.at = "idle" /\ ~ IdleActor.launched /\ ~ IdleActor.imported
      BY DEF IdleActor, Actor
    <2>3. actor'[p] = IdleActor /\ Spares(p) /\ actor' \in [Actors -> Actor]
      BY <1>1, <2>1, <2>2 DEF Spares, ReleaseLocks
    <2> QED BY <2>1, <2>2, <2>3 DEF Entitles, Relies, Prepares, Publishes, Publishing, DirTypes,
         DirTypeOK, ReleaseLocks
  <1> QED BY <1>2, <1>3

Truths == <<seen, disk, raw, starts, reported, assessed>>

\* A step that leaves the records alone.
LEMMA RecordsRest ==
  ASSUME DirInv, UNCHANGED Truths
  PROVE  RecordsInOrder' /\ Lasts
  BY DEF DirInv, RecordsInOrder, Lasts, Truths, Exists

\* A sync puts names on disk that can be read.
LEMMA SyncKeeps ==
  ASSUME DirTypes, RecordsInOrder, Absent \notin Requests, NEW dir, BarrierDir(dir),
         UNCHANGED <<seen, raw, starts>>,
         reported \subseteq Contents, assessed \subseteq Contents,
         \A o \in reported' : o \in reported \/ disk'["outcome"] = o,
         \A o \in assessed' : o \in assessed \/ disk'["report"] = o
  PROVE  /\ RecordsInOrder' /\ Lasts
         /\ disk' \in [Files -> Requests \cup Contents \cup {Absent}]
         /\ \A f \in Files : disk'[f] = IF f \in dir THEN seen[f] ELSE disk[f]
  <1>1. /\ seen \in [Files -> Requests \cup Contents \cup {Absent}]
        /\ disk \in [Files -> Requests \cup Contents \cup {Absent}]
    BY DEF DirTypes, DirTypeOK
  <1>2. \A f \in Files : disk'[f] = IF f \in dir THEN seen[f] ELSE disk[f]
    BY DEF BarrierDir
  <1>3. disk' \in [Files -> Requests \cup Contents \cup {Absent}]
    BY <1>1 DEF BarrierDir
  <1>4. \A f \in Files : /\ disk[f] # Absent => disk'[f] = disk[f]
                         /\ disk'[f] \in {seen[f], Absent}
    BY <1>2 DEF RecordsInOrder
  <1>6. \A o \in reported : disk'["outcome"] = o
    BY <1>4, FileNames DEF RecordsInOrder
  <1>7. \A o \in assessed : disk'["report"] = o
    BY <1>4, FileNames DEF RecordsInOrder
  <1>8. Exists("start") => \A f \in PreparedSet : disk'[f] = seen["start"]
    BY <1>4, FileNames DEF RecordsInOrder, Exists
  <1>9. Exists("exit") => raw = [seen |-> seen["exit"], disk |-> seen["exit"]]
                          /\ disk'["start"] # Absent
    BY <1>4, FileNames DEF RecordsInOrder, Exists
  <1>10. Exists("outcome") => /\ disk'["exit"] = seen["outcome"]
                              /\ disk'[PayloadOf(seen["outcome"])] = seen["outcome"]
    BY <1>4, FileNames DEF RecordsInOrder, Exists
  <1>11. Exists("report") => disk'["outcome"] = seen["report"]
    BY <1>4, FileNames DEF RecordsInOrder, Exists
  <1>12. RecordsInOrder'
    BY <1>4, <1>6, <1>7, <1>8, <1>9, <1>10, <1>11, FileNames DEF RecordsInOrder, Exists
  <1> QED BY <1>2, <1>3, <1>4, <1>12 DEF Lasts

\* A link that finds its name free has what the record is drawn from on disk.
LEMMA LinkKeeps ==
  ASSUME DirInv, Absent \notin Requests, NEW p \in Actors, AtStep(p, "link"),
         ~ Exists(actor[p].file),
         seen' = [seen EXCEPT ![actor[p].file] = actor[p].val],
         UNCHANGED <<disk, raw, starts, reported, assessed>>
  PROVE  /\ RecordsInOrder' /\ Lasts
         /\ seen' \in [Files -> Requests \cup Contents \cup {Absent}]
         /\ (\A f \in PreparedSet \cup {"start"} : seen[f] \in Requests \cup {Absent})'
         /\ (\A f \in Drawn : seen[f] \in Contents \cup {Absent})'
         /\ actor[p].file \notin PreparedSet => \A f \in PreparedSet : seen'[f] = seen[f]
         /\ seen'[actor[p].file] = actor[p].val
  <1> DEFINE f == actor[p].file
             v == actor[p].val
  <1>1. /\ seen \in [Files -> Requests \cup Contents \cup {Absent}]
        /\ actor[p] \in Actor /\ actor[p].at = "link" /\ Relies(p) /\ Entitles(p)
    BY DEF DirInv, DirTypes, DirTypeOK, AtStep
  <1>2. f \in Files /\ actor[p].at \in Publishing
    BY <1>1 DEF Relies, Actor, Publishing
  <1>3. /\ f \in PreparedSet \cup {"start"} => v \in Requests
        /\ f \in Drawn => v \in Contents
    BY <1>1, <1>2 DEF Relies, Prepares, Publishes
  <1>4. seen[f] = Absent /\ seen'[f] = v /\ \A g \in Files \ {f} : seen'[g] = seen[g]
    BY <1>1, <1>2 DEF Exists
  <1>5. /\ {"start", "exit", "outcome", "report"} \subseteq Files /\ PreparedSet \subseteq Files
        /\ {"exit", "outcome", "report"} \cap (PreparedSet \cup {"start"}) = {}
        /\ "start" \notin PreparedSet /\ "report" \in RecheckFiles
    BY FileNames DEF Drawn, RecheckFiles, PreparedSet
  <1>6. \A g \in Files : disk[g] \in {seen'[g], Absent}
    BY <1>4 DEF DirInv, RecordsInOrder
  <1>7. \A g, h \in PreparedSet : seen'[g] # Absent /\ seen'[h] # Absent => seen'[g] = seen'[h]
    BY <1>1, <1>2, <1>4, <1>5 DEF Relies, Prepares, Publishes, DirInv, RecordsInOrder, Exists
  <1>8. seen'["start"] # Absent => \A g \in PreparedSet : disk[g] = seen'["start"]
    BY <1>1, <1>2, <1>4, <1>5 DEF Relies, Publishes, DirInv, RecordsInOrder, Exists
  <1>9. seen'["exit"] # Absent => /\ raw = [seen |-> seen'["exit"], disk |-> seen'["exit"]]
                                  /\ disk["start"] # Absent
    BY <1>1, <1>2, <1>4, <1>5 DEF Relies, Entitles, Publishes, DirInv, RecordsInOrder, Exists
  <1>10. seen'["outcome"] # Absent => /\ disk["exit"] = seen'["outcome"]
                                      /\ disk[PayloadOf(seen'["outcome"])] = seen'["outcome"]
    BY <1>1, <1>2, <1>4, <1>5 DEF Relies, Publishes, DirInv, RecordsInOrder, Exists
  <1>11. seen'["report"] # Absent => disk["outcome"] = seen'["report"]
    BY <1>1, <1>2, <1>4, <1>5 DEF Relies, Publishes, DirInv, RecordsInOrder, Exists
  <1>12. RecordsInOrder'
    BY <1>6, <1>7, <1>8, <1>9, <1>10, <1>11 DEF DirInv, RecordsInOrder, Exists
  <1>13. Lasts
    BY <1>4 DEF Lasts
  <1>14. /\ seen' \in [Files -> Requests \cup Contents \cup {Absent}]
         /\ (\A g \in PreparedSet \cup {"start"} : seen[g] \in Requests \cup {Absent})'
         /\ (\A g \in Drawn : seen[g] \in Contents \cup {Absent})'
    BY <1>1, <1>2, <1>3, <1>4, FileNames DEF DirInv, DirTypes
  <1> QED BY <1>4, <1>5, <1>12, <1>13, <1>14

\* A process that changes only its own state is where it says, with its locks.
LEMMA StepMoves ==
  ASSUME DirTypes, NEW p \in Actors, NEW b \in Actor, actor' = [actor EXCEPT ![p] = b]
  PROVE  /\ actor'[p] = b /\ actor' \in [Actors -> Actor]
         /\ \A q \in Actors \ {p} : actor'[q] = actor[q]
  BY DEF DirTypes, DirTypeOK

\* A step that changes no record.
LEMMA QuietMoves ==
  ASSUME DirInv, Absent \notin Requests, NEW p \in Actors, UNCHANGED Truths, Spares(p),
         stages \subseteq stages' \cup {p}, stages' \subseteq Actors, litter' \in BOOLEAN,
         dirFaults' \in 0..MaxDirFaults, actor' \in [Actors -> Actor], maintSH' \subseteq Actors,
         admission' \in Creators \cup {Nobody}, runLock' \in Actors \cup {Nobody},
         Entitles(p)', Relies(p)'
  PROVE  DirInv'
  <1>1. DirTypes'
    BY DEF DirInv, DirTypes, DirTypeOK, Truths
  <1>2. Lasts /\ RecordsInOrder'
    BY RecordsRest
  <1>3. Alone(p)
    BY DEF Alone, Truths
  <1> QED BY <1>1, <1>2, <1>3, ProcessMoves

\* Creating a task.
LEMMA CreatingKeeps ==
  ASSUME DirInv, Absent \notin Requests, Nobody \notin Actors, NEW p \in Actors,
         CreateTaskContext(p) \/ Admit(p) \/ PrepareSet(p)
  PROVE  DirInv'
  <1> DEFINE a == actor[p]
  <1>1. /\ DirTypes /\ a \in Actor /\ Entitles(p) /\ Relies(p) /\ "start" \in Files
        /\ maintSH \subseteq Actors /\ admission \in Creators \cup {Nobody}
        /\ runLock \in Actors \cup {Nobody} /\ stages \subseteq Actors /\ litter \in BOOLEAN
        /\ dirFaults \in 0..MaxDirFaults /\ p \in Actors
    BY FileNames DEF DirInv, DirTypes, DirTypeOK
  <1>2. CASE CreateTaskContext(p)
    <2>1. PICK r \in Requests : actor' = [actor EXCEPT ![p].at = "admit", ![p].val = r]
      BY <1>2 DEF CreateTaskContext
    <2>2. a = IdleActor /\ p \in Creators /\ maintSH' = maintSH \cup {p}
      BY <1>1, <1>2 DEF CreateTaskContext, AtStep, Entitles
    <2> DEFINE b == [a EXCEPT !.at = "admit", !.val = r]
    <2>3. b \in Actor /\ b.at = "admit" /\ b.val = r /\ ~ b.launched /\ ~ b.imported
      <3>1. ~ a.launched /\ ~ a.imported
        BY <2>2 DEF IdleActor
      <3> QED BY <1>1, <3>1 DEF Actor
    <2>4. actor' = [actor EXCEPT ![p] = b]
      BY <1>1, <2>1 DEF DirTypes, DirTypeOK, Actor
    <2> HIDE DEF b
    <2>5. actor'[p] = b /\ actor' \in [Actors -> Actor] /\ \A q \in Actors \ {p} : actor'[q] = actor[q]
      BY <1>1, <2>3, <2>4, StepMoves
    <2>6. /\ BarrierDir(TaskFiles) /\ UNCHANGED <<seen, raw, starts, reported, assessed>>
          /\ UNCHANGED <<stages, litter, admission, runLock, dirFaults>>
      BY <1>2 DEF CreateTaskContext
    <2>7. /\ RecordsInOrder' /\ Lasts
          /\ disk' \in [Files -> Requests \cup Contents \cup {Absent}]
      BY <1>1, <2>6, SyncKeeps DEF DirInv, DirTypes, DirTypeOK
    <2>8. Alone(p)
      BY <2>2, <2>5, <2>6 DEF Alone, Spares
    <2>9. Entitles(p)' /\ Relies(p)'
      BY <2>2, <2>3, <2>5 DEF Entitles, Relies, Prepares, Publishes, Publishing
    <2>10. DirTypes'
      BY <1>1, <2>2, <2>5, <2>6, <2>7 DEF DirTypes, DirTypeOK
    <2> QED BY <2>7, <2>8, <2>9, <2>10, ProcessMoves
  <1>3. CASE Admit(p)
    <2>1. UNCHANGED Truths /\ UNCHANGED <<stages, litter, dirFaults>> /\ a.at = "admit"
      BY <1>3 DEF Admit, Truths, AtStep
    <2>2. CASE admission = Nobody /\ Preparable(a.val)
      <3> DEFINE b == [a EXCEPT !.at = "prepare"]
      <3>1. /\ b \in Actor /\ b.at = "prepare" /\ b.val = a.val
            /\ b.launched = a.launched /\ b.imported = a.imported
        BY <1>1 DEF Actor
      <3>2. /\ actor' = [actor EXCEPT ![p] = b] /\ admission' = p
            /\ UNCHANGED <<maintSH, runLock>>
        BY <1>1, <1>3, <2>2 DEF Admit, Go, DirTypes, DirTypeOK, Actor
      <3> HIDE DEF b
      <3>3. actor'[p] = b /\ actor' \in [Actors -> Actor] /\ \A q \in Actors \ {p} : actor'[q] = actor[q]
        BY <1>1, <3>1, <3>2, StepMoves
      <3>4. Spares(p) /\ p \in Creators /\ p \in maintSH /\ ~ a.launched /\ a.val \in Requests
        BY <1>1, <2>1, <2>2, <3>2, <3>3 DEF Spares, Entitles
      <3>5. Entitles(p)' /\ Relies(p)'
        BY <1>1, <2>1, <2>2, <3>1, <3>2, <3>3, <3>4
        DEF Entitles, Relies, Prepares, Publishes, Publishing, Truths, Preparable
      <3> QED BY <1>1, <2>1, <3>2, <3>3, <3>4, <3>5, QuietMoves
    <2>3. CASE ~ (admission = Nobody /\ Preparable(a.val))
      BY <1>1, <1>3, <2>1, <2>3, RecordsRest, ReturnRests, QuietMoves DEF Admit
    <2> QED BY <2>2, <2>3
  <1>4. CASE PrepareSet(p)
    <2>1. UNCHANGED Truths /\ UNCHANGED <<stages, litter, dirFaults>> /\ a.at = "prepare"
      BY <1>4 DEF PrepareSet, Truths, AtStep
    <2>2. CASE Return(p) BY <1>1, <2>1, <2>2, RecordsRest, ReturnRests, QuietMoves
    <2>3. CASE ~ Return(p)
      <3>1. PICK f \in PreparedSet : /\ PublishRecord(p, f, a.val)
                                     /\ UNCHANGED <<maintSH, admission, runLock>>
        BY <1>4, <2>3 DEF PrepareSet, PreparedSet
      <3> DEFINE b == [a EXCEPT !.at = "stage", !.file = f]
      <3>2. /\ b \in Actor /\ b.at = "stage" /\ b.val = a.val /\ b.file = f
            /\ b.launched = a.launched /\ b.imported = a.imported
        BY <1>1, FileNames DEF Actor
      <3>3. actor' = [actor EXCEPT ![p] = b]
        BY <1>1, <3>1 DEF PublishRecord, DirTypes, DirTypeOK, Actor
      <3> HIDE DEF b
      <3>4. actor'[p] = b /\ actor' \in [Actors -> Actor] /\ \A q \in Actors \ {p} : actor'[q] = actor[q]
        BY <1>1, <3>2, <3>3, StepMoves
      <3>5. Spares(p) /\ p \in maintSH
        BY <1>1, <2>1, <3>1, <3>4 DEF Spares, Entitles
      <3>6. /\ p \in Creators /\ admission = p /\ a.val \in Requests /\ ~ a.launched
            /\ \A g \in PreparedSet : seen[g] \in {a.val, Absent}
        BY <1>1, <2>1 DEF Relies, Prepares
      <3>7. f \notin Drawn /\ f # "start" /\ f # Absent /\ f \notin RecheckFiles
        BY DEF PreparedSet, Drawn, RecheckFiles, Absent
      <3>8. Entitles(p)'
        BY <1>1, <2>1, <3>1, <3>2, <3>4, <3>5, <3>6 DEF Entitles, Truths
      <3>9. Relies(p)'
        BY <2>1, <3>1, <3>2, <3>4, <3>6, <3>7
        DEF Relies, Prepares, Publishes, Publishing, Truths, Drawn
      <3> QED BY <1>1, <2>1, <3>1, <3>4, <3>5, <3>8, <3>9, QuietMoves
    <2> QED BY <2>2, <2>3
  <1> QED BY <1>2, <1>3, <1>4

\* The runner of a task stays one.
LEMMA RunnerStands ==
  ASSUME DirInv, NEW p \in Actors, AtStep(p, "run"), NEW b \in Actor,
         actor' = [actor EXCEPT ![p] = b], b.at \in {"run", "collect"},
         b.launched \/ (~ actor[p].launched /\ starts' = starts), b.imported => raw'.seen # Absent,
         UNCHANGED <<seen, maintSH, admission, runLock, stages>>, Lasts, "start" \in Files
  PROVE  Entitles(p)' /\ Relies(p)' /\ Alone(p) /\ actor' \in [Actors -> Actor]
  <1>1. /\ actor'[p] = b /\ actor' \in [Actors -> Actor]
        /\ \A q \in Actors \ {p} : actor'[q] = actor[q]
    BY StepMoves DEF DirInv
  <1>2. p \in maintSH /\ p \in RunWorkers /\ runLock = p /\ disk["start"] # Absent
    BY DEF DirInv, Entitles, AtStep
  <1>3. Spares(p)
    BY <1>1 DEF Spares
  <1>4. disk'["start"] # Absent
    BY <1>2 DEF Lasts
  <1>5. Entitles(p)'
    BY <1>1, <1>2, <1>4 DEF Entitles, DirInv, AtStep
  <1>6. Relies(p)'
    BY <1>1 DEF Relies, Prepares, Publishes, Publishing
  <1> QED BY <1>1, <1>2, <1>3, <1>5, <1>6 DEF Alone

\* Reading the provider's output changes no record that is drawn from it.
LEMMA RawKeeps ==
  ASSUME DirInv, Absent \notin Requests, UNCHANGED <<seen, disk, starts, reported, assessed>>,
         raw.seen # Absent => raw'.seen # Absent,
         raw.seen # Absent /\ raw.disk = raw.seen => raw' = raw
  PROVE  RecordsInOrder' /\ Lasts
  BY DEF DirInv, RecordsInOrder, Lasts, Exists

LEMMA RunKeeps ==
  ASSUME DirInv, Absent \notin Requests, Nobody \notin Actors, MaxDirFaults \in Nat,
         NEW p \in Actors, Launch(p)
  PROVE  DirInv'
  <1> DEFINE a == actor[p]
  <1>1. /\ DirTypes /\ a \in Actor /\ Entitles(p) /\ a.at = "run" /\ ~ a.launched
        /\ dirFaults \in 0..MaxDirFaults /\ "start" \in Files /\ actor \in [Actors -> Actor]
    BY FileNames DEF DirInv, DirTypes, DirTypeOK, Launch, AtStep
  <1>2. PICK bad \in BOOLEAN :
           actor' = [actor EXCEPT ![p] = [a EXCEPT !.launched = TRUE, !.poisoned = bad]]
    <2>1. CASE actor' = [actor EXCEPT ![p].launched = TRUE] BY <1>1, <2>1 DEF Actor
    <2>2. CASE actor' = [actor EXCEPT ![p].launched = TRUE, ![p].poisoned = TRUE]
      BY <1>1, <2>2 DEF Actor
    <2> QED BY <2>1, <2>2 DEF Launch
  <1> DEFINE b == [a EXCEPT !.launched = TRUE, !.poisoned = bad]
  <1>3. b \in Actor /\ b.at = "run" /\ b.launched /\ b.imported = a.imported
    BY <1>1 DEF Actor
  <1> HIDE DEF b
  <1>4. actor' = [actor EXCEPT ![p] = b]
    BY <1>2 DEF b
  <1>5. /\ starts = 0 /\ starts' = 1 /\ disk["start"] # Absent
        /\ UNCHANGED <<seen, disk, raw, stages, litter, maintSH, admission, runLock, reported, assessed>>
        /\ dirFaults' \in 0..MaxDirFaults
    BY <1>1 DEF Launch, Entitles, Faulty
  <1>6. Lasts /\ RecordsInOrder'
    BY <1>5 DEF DirInv, RecordsInOrder, Lasts, Exists
  <1>7. a.imported => raw.seen # Absent
    BY <1>1 DEF Entitles
  <1>8. Entitles(p)' /\ Relies(p)' /\ Alone(p) /\ actor' \in [Actors -> Actor]
    BY <1>1, <1>3, <1>4, <1>5, <1>6, <1>7, RunnerStands DEF AtStep
  <1>9. DirTypes'
    BY <1>1, <1>5, <1>8 DEF DirTypes, DirTypeOK
  <1> QED BY <1>6, <1>8, <1>9, ProcessMoves

\* The provider's output: it is written, its stream closed, and what it left is taken over.
LEMMA OutputKeeps ==
  ASSUME DirInv, Absent \notin Requests, MaxDirFaults \in Nat, NEW p \in Actors,
         WriteRaw(p) \/ CloseRaw(p) \/ ImportOutput(p) \/ Finalize(p)
  PROVE  DirInv'
  <1> DEFINE a == actor[p]
             Become == {[a EXCEPT !.writing = TRUE], [a EXCEPT !.writing = FALSE],
                       [a EXCEPT !.writing = FALSE, !.poisoned = TRUE],
                       [a EXCEPT !.imported = TRUE], [a EXCEPT !.poisoned = TRUE],
                       [a EXCEPT !.at = "collect"]}
             RawType == [seen : Contents \cup {Absent}, disk : Contents \cup {Absent}]
  <1>1. /\ DirTypes /\ a \in Actor /\ Entitles(p) /\ a.at = "run" /\ actor \in [Actors -> Actor]
        /\ dirFaults \in 0..MaxDirFaults /\ raw \in RawType
    BY DEF DirInv, DirTypes, DirTypeOK, WriteRaw, CloseRaw, ImportOutput, Finalize, AtStep
  <1>2. /\ UNCHANGED <<seen, disk, starts, reported, assessed>>
        /\ UNCHANGED <<stages, litter, maintSH, admission, runLock>>
        /\ dirFaults' \in 0..MaxDirFaults
    BY <1>1 DEF WriteRaw, CloseRaw, ImportOutput, Finalize, Faulty
  <1>3. /\ raw' \in RawType /\ (raw.seen # Absent => raw'.seen = raw.seen)
        /\ raw.seen # Absent /\ raw.disk = raw.seen => raw' = raw
    BY <1>1 DEF WriteRaw, CloseRaw, ImportOutput, Finalize
  <1>4. a.imported => raw.seen # Absent
    BY <1>1 DEF Entitles
  <1>5. PICK b \in Actor :
           /\ actor' = [actor EXCEPT ![p] = b] /\ b.at \in {"run", "collect"}
           /\ b.launched = a.launched /\ (b.imported => raw'.seen # Absent)
    <2>1. PICK new \in Become : /\ actor' = [actor EXCEPT ![p] = new]
                                /\ new.imported = a.imported \/ raw'.seen # Absent
      BY <1>1 DEF WriteRaw, CloseRaw, ImportOutput, Finalize, Go, Actor
    <2>2. new \in Actor /\ new.at \in {"run", "collect"} /\ new.launched = a.launched
      BY <1>1, <2>1 DEF Actor
    <2> QED BY <1>3, <1>4, <2>1, <2>2
  <1>6. RecordsInOrder' /\ Lasts
    BY <1>2, <1>3, RawKeeps
  <1>7. Entitles(p)' /\ Relies(p)' /\ Alone(p) /\ actor' \in [Actors -> Actor]
    BY <1>1, <1>2, <1>5, <1>6, FileNames, RunnerStands DEF AtStep
  <1>8. DirTypes'
    BY <1>1, <1>2, <1>3, <1>7 DEF DirTypes, DirTypeOK
  <1> QED BY <1>6, <1>7, <1>8, ProcessMoves

\* The seal.
LEMMA SealKeeps ==
  ASSUME DirInv, Absent \notin Requests, NEW p \in Actors, Seal(p)
  PROVE  DirInv'
  <1> DEFINE a == actor[p]
             v == raw.seen
  <1>1. /\ DirTypes /\ a \in Actor /\ Entitles(p) /\ a.at = "run" /\ actor \in [Actors -> Actor]
        /\ raw \in [seen : Contents \cup {Absent}, disk : Contents \cup {Absent}]
        /\ a.launched /\ v # Absent /\ "start" \in Files
    BY FileNames DEF DirInv, DirTypes, DirTypeOK, Seal, AtStep, Entitles
  <1>2. /\ UNCHANGED <<seen, starts, reported, assessed>>
        /\ UNCHANGED <<stages, litter, maintSH, admission, runLock, dirFaults>>
    BY DEF Seal
  <1>3. CASE Exists("exit")
    BY <1>1, <1>2, <1>3, SyncKeeps, RunnerStands, ProcessMoves DEF Seal, DirInv, DirTypes,
       DirTypeOK, AtStep
  <1>4. CASE ~ Exists("exit")
    <2> DEFINE b == [a EXCEPT !.at = "stage", !.file = "exit", !.val = v, !.sealed = TRUE]
    <2>1. /\ b \in Actor /\ b.at = "stage" /\ b.file = "exit" /\ b.val = v
          /\ b.launched = a.launched /\ b.imported = a.imported
      BY <1>1, FileNames DEF Actor, Drawn
    <2>2. /\ actor' = [actor EXCEPT ![p] = b] /\ raw' = [seen |-> v, disk |-> v] /\ disk' = disk
      BY <1>1, <1>4 DEF Seal, Actor
    <2> HIDE DEF b
    <2>3. actor'[p] = b /\ actor' \in [Actors -> Actor] /\ \A q \in Actors \ {p} : actor'[q] = actor[q]
      BY <1>1, <2>1, <2>2, StepMoves
    <2>4. RecordsInOrder' /\ Lasts
      BY <1>1, <1>2, <2>2, RawKeeps
    <2>5. Alone(p) /\ p \in maintSH /\ p \in RunWorkers /\ runLock = p /\ disk["start"] # Absent
      BY <1>1, <1>2, <2>3 DEF Alone, Spares, Entitles
    <2>6. Entitles(p)'
      BY <1>1, <1>2, <2>1, <2>2, <2>3, <2>5 DEF Entitles
    <2>7. Relies(p)'
      BY <1>1, <1>2, <2>1, <2>2, <2>3, <2>5, FileNames DEF PreparedSet, RecheckFiles, Relies,
         Prepares, Publishes, Drawn
    <2>8. DirTypes'
      BY <1>1, <1>2, <2>2, <2>3 DEF DirTypes, DirTypeOK
    <2> QED BY <2>4, <2>5, <2>6, <2>7, <2>8, ProcessMoves
  <1> QED BY <1>3, <1>4

\* A process that goes to another step, and one that turns to the record it publishes.
LEMMA GoMoves ==
  ASSUME DirTypes, NEW p \in Actors, NEW at, Go(p, at),
         at \in {"run", "collect", "prepare", "link", "unlink", "barrier"}
  PROVE  /\ actor' \in [Actors -> Actor] /\ \A q \in Actors \ {p} : actor'[q] = actor[q]
         /\ actor'[p] = [actor[p] EXCEPT !.at = at] /\ actor'[p].at = at
         /\ actor'[p].file = actor[p].file /\ actor'[p].val = actor[p].val
         /\ actor'[p].launched = actor[p].launched /\ actor'[p].imported = actor[p].imported
  <1>1. actor \in [Actors -> Actor] /\ actor[p] \in Actor
    BY DEF DirTypes, DirTypeOK
  <1> DEFINE b == [actor[p] EXCEPT !.at = at]
  <1>2. /\ b \in Actor /\ b.at = at /\ b.file = actor[p].file /\ b.val = actor[p].val
        /\ b.launched = actor[p].launched /\ b.imported = actor[p].imported
    BY <1>1 DEF Actor
  <1>3. actor' = [actor EXCEPT ![p] = b]
    BY <1>1 DEF Go
  <1> HIDE DEF b
  <1>4. actor'[p] = b
    BY <1>1, <1>3
  <1>5. actor'[p] = [actor[p] EXCEPT !.at = at]
    BY <1>4 DEF b
  <1> QED BY <1>2, <1>3, <1>4, <1>5, StepMoves

LEMMA PublishMoves ==
  ASSUME DirTypes, NEW p \in Actors, NEW f \in Files, NEW v \in Requests \cup Contents,
         PublishRecord(p, f, v)
  PROVE  /\ actor' \in [Actors -> Actor] /\ \A q \in Actors \ {p} : actor'[q] = actor[q]
         /\ actor'[p].at = "stage" /\ actor'[p].file = f /\ actor'[p].val = v
         /\ actor'[p].launched = actor[p].launched /\ actor'[p].imported = actor[p].imported
  <1>1. actor \in [Actors -> Actor] /\ actor[p] \in Actor
    BY DEF DirTypes, DirTypeOK
  <1> DEFINE b == [actor[p] EXCEPT !.at = "stage", !.file = f, !.val = v]
  <1>2. /\ b \in Actor /\ b.at = "stage" /\ b.file = f /\ b.val = v
        /\ b.launched = actor[p].launched /\ b.imported = actor[p].imported
    BY <1>1 DEF Actor
  <1>3. actor' = [actor EXCEPT ![p] = b]
    BY <1>1 DEF PublishRecord, Actor
  <1> HIDE DEF b
  <1> QED BY <1>1, <1>2, <1>3, StepMoves

\* The worker that takes a task finds it was never started.
LEMMA StartKeeps ==
  ASSUME DirInv, Absent \notin Requests, Nobody \notin Actors, NEW p \in Actors, PrepareStart(p)
  PROVE  DirInv'
  <1> DEFINE v == seen["task"]
  <1>1. /\ DirTypes /\ Entitles(p) /\ actor[p].at = "idle" /\ p \in RunWorkers /\ runLock = Nobody
        /\ "start" \in Files /\ {"start", "task"} \cup PreparedSet \subseteq TaskFiles
        /\ TaskFiles \subseteq Files /\ "task" \in PreparedSet
        /\ admission \in Creators \cup {Nobody} /\ maintSH \subseteq Actors
    BY DEF DirInv, DirTypes, DirTypeOK, PrepareStart, AtStep, Files, TaskFiles, PreparedSet
  <1>2. v \in Requests /\ \A f \in PreparedSet : seen[f] = v
    BY <1>1 DEF PrepareStart, Prepared, Exists, DirInv, DirTypes
  <1>3. /\ BarrierDir(TaskFiles) /\ UNCHANGED <<seen, raw, starts, reported, assessed>>
        /\ UNCHANGED <<stages, litter, admission, dirFaults>>
        /\ PublishRecord(p, "start", v) /\ maintSH' = maintSH \cup {p} /\ runLock' = p
        /\ seen["start"] = Absent
    BY DEF PrepareStart, Exists
  <1>4. /\ RecordsInOrder' /\ Lasts /\ disk' \in [Files -> Requests \cup Contents \cup {Absent}]
        /\ \A f \in Files : disk'[f] = IF f \in TaskFiles THEN seen[f] ELSE disk[f]
    BY <1>1, <1>3, SyncKeeps DEF DirInv, DirTypes, DirTypeOK
  <1>5. /\ actor' \in [Actors -> Actor] /\ \A q \in Actors \ {p} : actor'[q] = actor[q]
        /\ actor'[p].at = "stage" /\ actor'[p].file = "start" /\ actor'[p].val = v
        /\ actor'[p].launched = actor[p].launched /\ actor'[p].imported = actor[p].imported
    BY <1>1, <1>2, <1>3, PublishMoves
  <1>6. ~ actor[p].launched /\ ~ actor[p].imported
    BY <1>1 DEF Entitles, IdleActor
  <1>7. starts = 0
    BY <1>1, <1>3 DEF DirInv, RecordsInOrder, DirTypes, DirTypeOK
  <1>8. Alone(p)
    BY <1>1, <1>3, <1>5 DEF Alone, Spares
  <1>9. Entitles(p)'
    BY <1>3, <1>5, <1>6 DEF Entitles
  <1>10. Relies(p)'
    BY <1>1, <1>2, <1>3, <1>4, <1>5, <1>6, <1>7 DEF PreparedSet, Drawn, RecheckFiles, Absent,
       Relies, Prepares, Publishes, Publishing
  <1>11. DirTypes'
    BY <1>1, <1>3, <1>4, <1>5 DEF DirInv, DirTypes, DirTypeOK
  <1> QED BY <1>4, <1>8, <1>9, <1>10, <1>11, ProcessMoves

\* A process that gives up what it holds, or dies.
LEMMA LeavingKeeps ==
  ASSUME DirInv, Absent \notin Requests, MaxDirFaults \in Nat, NEW p \in Actors,
         ReleaseLease(p) \/ ProcessDies(p)
  PROVE  DirInv'
  <1>1. /\ DirTypes /\ maintSH \subseteq Actors /\ admission \in Creators \cup {Nobody}
        /\ runLock \in Actors \cup {Nobody} /\ stages \subseteq Actors /\ litter \in BOOLEAN
        /\ dirFaults \in 0..MaxDirFaults /\ IdleActor \in Actor
    BY DEF DirInv, DirTypes, DirTypeOK, IdleActor, Actor
  <1>2. /\ UNCHANGED Truths /\ actor' = [actor EXCEPT ![p] = IdleActor] /\ ReleaseLocks(p)
        /\ stages \subseteq stages' \cup {p} /\ stages' \subseteq Actors
        /\ dirFaults' \in 0..MaxDirFaults
    BY <1>1 DEF ReleaseLease, ProcessDies, Faulty, Truths
  <1>7. litter' \in BOOLEAN
    BY <1>1 DEF ReleaseLease, ProcessDies
  <1>3. /\ actor' \in [Actors -> Actor] /\ actor'[p] = IdleActor
        /\ \A q \in Actors \ {p} : actor'[q] = actor[q]
    BY <1>1, <1>2, StepMoves
  <1>4. /\ maintSH' = maintSH \ {p} /\ admission' \in {admission, Nobody}
        /\ runLock' \in {runLock, Nobody} /\ Spares(p)
    BY <1>2, <1>3 DEF ReleaseLocks, Spares
  <1>5. IdleActor.at = "idle" /\ ~ IdleActor.launched /\ ~ IdleActor.imported
    BY DEF IdleActor
  <1>6. Entitles(p)' /\ Relies(p)'
    BY <1>3, <1>5 DEF Entitles, Relies, Prepares, Publishes, Publishing
  <1> QED BY <1>1, <1>2, <1>3, <1>4, <1>6, <1>7, QuietMoves

LEMMA CollectKeeps ==
  ASSUME DirInv, Absent \notin Requests, Nobody \notin Actors, NEW p \in Actors, CollectContext(p)
  PROVE  DirInv'
  <1>1. /\ DirTypes /\ Entitles(p) /\ actor[p].at = "idle" /\ runLock = Nobody
        /\ maintSH \subseteq Actors /\ admission \in Creators \cup {Nobody}
        /\ stages \subseteq Actors /\ litter \in BOOLEAN /\ dirFaults \in 0..MaxDirFaults
    BY DEF DirInv, DirTypes, DirTypeOK, CollectContext, AtStep
  <1>2. /\ UNCHANGED Truths /\ UNCHANGED <<stages, litter, admission, dirFaults>>
        /\ Go(p, "collect") /\ maintSH' = maintSH \cup {p} /\ runLock' = p
    BY DEF CollectContext, Truths
  <1>3. /\ actor' \in [Actors -> Actor] /\ \A q \in Actors \ {p} : actor'[q] = actor[q]
        /\ actor'[p].at = "collect" /\ actor'[p].launched = actor[p].launched
        /\ actor'[p].imported = actor[p].imported
    BY <1>1, <1>2, GoMoves
  <1>4. Spares(p)
    BY <1>1, <1>2, <1>3 DEF Spares
  <1>5. ~ actor[p].launched /\ ~ actor[p].imported
    BY <1>1 DEF Entitles, IdleActor
  <1>6. Entitles(p)' /\ Relies(p)'
    BY <1>2, <1>3, <1>5 DEF Entitles, Relies, Prepares, Publishes, Publishing
  <1> QED BY <1>1, <1>2, <1>3, <1>4, <1>6, QuietMoves

\* The outcome of a task.
LEMMA CollectOwnedKeeps ==
  ASSUME DirInv, Absent \notin Requests, NEW p \in Actors, CollectOwned(p)
  PROVE  DirInv'
  <1>1. /\ DirTypes /\ Entitles(p) /\ actor[p].at = "collect" /\ runLock = p /\ p \in maintSH
        /\ "start" \in Files /\ maintSH \subseteq Actors /\ admission \in Creators \cup {Nobody}
        /\ stages \subseteq Actors /\ litter \in BOOLEAN /\ dirFaults \in 0..MaxDirFaults
        /\ reported \subseteq Contents /\ assessed \subseteq Contents
        /\ runLock \in Actors \cup {Nobody}
    BY FileNames DEF DirInv, DirTypes, DirTypeOK, CollectOwned, AtStep, Entitles
  <1>2. UNCHANGED <<seen, raw, starts, assessed>> /\ UNCHANGED <<stages, litter, dirFaults>>
    BY DEF CollectOwned
  <1>3. CASE Exists("outcome") /\ WinnerIsValid
    <2>1. /\ BarrierDir(TaskFiles) /\ reported' = reported \cup {seen["outcome"]} /\ Return(p)
      BY <1>3 DEF CollectOwned, Acknowledge
    <2>2. "outcome" \in TaskFiles /\ "outcome" \in Files /\ seen["outcome"] \in Contents
      BY <1>3 DEF DirInv, DirTypes, Exists, Drawn, TaskFiles, Files
    <2>3. disk'["outcome"] = seen["outcome"]
      BY <2>1, <2>2 DEF BarrierDir
    <2>4. \A o \in reported' : o \in reported \/ disk'["outcome"] = o
      BY <2>1, <2>3
    <2>5. /\ RecordsInOrder' /\ Lasts /\ disk' \in [Files -> Requests \cup Contents \cup {Absent}]
      BY <1>1, <1>2, <2>1, <2>4, SyncKeeps DEF DirInv
    <2>6. /\ Spares(p) /\ Entitles(p)' /\ Relies(p)'
          /\ actor' \in [Actors -> Actor] /\ maintSH' \subseteq Actors
          /\ admission' \in Creators \cup {Nobody} /\ runLock' \in Actors \cup {Nobody}
      BY <1>1, <2>1, <2>5, ReturnRests
    <2>7. Alone(p) /\ DirTypes'
      BY <1>1, <1>2, <2>1, <2>2, <2>5, <2>6 DEF Alone, DirTypes, DirTypeOK
    <2> QED BY <2>5, <2>6, <2>7, ProcessMoves
  <1>4. CASE UNCHANGED Truths /\ Return(p)
    BY <1>1, <1>2, <1>4, RecordsRest, ReturnRests, QuietMoves
  <1>5. CASE /\ SealIsValid /\ UNCHANGED Truths /\ UNCHANGED <<maintSH, admission, runLock>>
             /\ PublishRecord(p, PayloadOf(seen["exit"]), seen["exit"])
    <2> DEFINE v == seen["exit"]
    <2>1. v \in Contents /\ PayloadOf(v) \in {"result", "reject"} /\ PayloadOf(v) \in Files
      BY <1>5, FileNames DEF SealIsValid, Exists, DirInv, DirTypes, Drawn
    <2>2. /\ actor' \in [Actors -> Actor] /\ \A q \in Actors \ {p} : actor'[q] = actor[q]
          /\ actor'[p].at = "stage" /\ actor'[p].file = PayloadOf(v) /\ actor'[p].val = v
          /\ actor'[p].launched = actor[p].launched /\ actor'[p].imported = actor[p].imported
      BY <1>1, <1>5, <2>1, PublishMoves
    <2>3. Spares(p)
      BY <1>5, <2>2 DEF Spares
    <2>4. Entitles(p)'
      BY <1>1, <1>5, <2>2 DEF Entitles, Truths
    <2>5. Relies(p)'
      BY <1>1, <1>5, <2>1, <2>2 DEF PreparedSet, RecheckFiles, Absent, Relies, Prepares,
         Publishes, Publishing, Truths
    <2> QED BY <1>1, <1>2, <1>5, <2>2, <2>3, <2>4, <2>5, QuietMoves
  <1> QED BY <1>2, <1>3, <1>4, <1>5 DEF CollectOwned, Truths

\* A rejected outcome is assessed again.
LEMMA RecheckKeeps ==
  ASSUME DirInv, Absent \notin Requests, Nobody \notin Actors, NEW p \in Actors, Recheck(p)
  PROVE  DirInv'
  <1> DEFINE c == seen["outcome"]
  <1>1. /\ DirTypes /\ Entitles(p) /\ actor[p].at = "idle" /\ actor[p] = IdleActor
        /\ runLock = Nobody /\ maintSH \subseteq Actors
        /\ reported \subseteq Contents /\ assessed \subseteq Contents
    BY DEF DirInv, DirTypes, DirTypeOK, Recheck, AtStep, Entitles
  <1>2. /\ UNCHANGED <<seen, raw, starts, reported>>
        /\ UNCHANGED <<stages, litter, admission, dirFaults>>
    BY DEF Recheck
  <1>3. /\ {"outcome", "report", "rresult"} \subseteq Files /\ {"report", "rresult"} = RecheckFiles
        /\ c \in Contents
    BY DEF Recheck, WinnerIsValid, Exists, DirInv, DirTypes, Drawn, Files, TaskFiles,
       RecheckFiles
  <1>4. CASE Exists("report")
    <2>1. /\ BarrierDir(RecheckFiles) /\ assessed' = assessed \cup {c}
          /\ UNCHANGED <<maintSH, runLock, actor>> /\ seen["report"] = c
      BY <1>4 DEF Recheck, Acknowledge
    <2>2. disk'["report"] = c
      BY <1>3, <2>1 DEF BarrierDir
    <2>3. \A o \in assessed' : o \in assessed \/ disk'["report"] = o
      BY <2>1, <2>2
    <2>4. /\ RecordsInOrder' /\ Lasts /\ disk' \in [Files -> Requests \cup Contents \cup {Absent}]
      BY <1>1, <1>2, <2>1, <2>3, SyncKeeps DEF DirInv
    <2>5. ~ actor[p].launched /\ ~ actor[p].imported
      BY <1>1 DEF IdleActor
    <2>6. Entitles(p)' /\ Relies(p)'
      BY <1>1, <2>1, <2>5 DEF Entitles, Relies, Prepares, Publishes, Publishing
    <2>7. Alone(p) /\ DirTypes'
      BY <1>1, <1>2, <1>3, <2>1, <2>4 DEF Alone, Spares, DirTypes, DirTypeOK
    <2> QED BY <2>4, <2>6, <2>7, ProcessMoves
  <1>5. CASE ~ Exists("report")
    <2>1. PICK f \in RecheckFiles : PublishRecord(p, f, c)
      BY <1>3, <1>5 DEF Recheck
    <2>2. /\ BarrierDir(Files) /\ assessed' = assessed /\ maintSH' = maintSH \cup {p}
          /\ runLock' = p
      BY <1>5 DEF Recheck
    <2>3. /\ RecordsInOrder' /\ Lasts /\ disk' \in [Files -> Requests \cup Contents \cup {Absent}]
          /\ disk'["outcome"] = c
      BY <1>1, <1>2, <1>3, <2>2, SyncKeeps DEF DirInv
    <2>4. /\ actor' \in [Actors -> Actor] /\ \A q \in Actors \ {p} : actor'[q] = actor[q]
          /\ actor'[p].at = "stage" /\ actor'[p].file = f /\ actor'[p].val = c
          /\ ~ actor'[p].launched /\ ~ actor'[p].imported
      BY <1>1, <1>3, <2>1, PublishMoves DEF IdleActor
    <2>5. Alone(p) /\ DirTypes'
      BY <1>1, <1>2, <2>2, <2>3, <2>4 DEF Alone, Spares, DirInv, DirTypes, DirTypeOK
    <2>6. Entitles(p)'
      BY <2>2, <2>4 DEF Entitles
    <2>7. Relies(p)'
      BY <1>3, <2>2, <2>3, <2>4 DEF PreparedSet, RecheckFiles, Absent, Relies, Prepares,
         Publishes, Publishing
    <2> QED BY <2>3, <2>5, <2>6, <2>7, ProcessMoves
  <1> QED BY <1>4, <1>5

\* A publisher at its next step.
LEMMA PublisherStays ==
  ASSUME DirInv, Absent \notin Requests, NEW p \in Actors, actor[p].at \in Publishing,
         NEW at \in {"link", "barrier", "unlink"}, Go(p, at), Lasts,
         UNCHANGED <<maintSH, admission, runLock, starts>>, at = "link" => p \in stages',
         at # "link" => seen'[actor[p].file] = actor[p].val,
         at = "unlink" => disk'[actor[p].file] = actor[p].val,
         at = "unlink" /\ actor[p].file \in {"result", "reject"} => disk'["exit"] = actor[p].val,
         Publishes(actor[p], PreparedSet) => \A g \in PreparedSet : seen'[g] \in {actor[p].val, Absent}
  PROVE  Spares(p) /\ Entitles(p)' /\ Relies(p)' /\ actor' \in [Actors -> Actor]
  <1> DEFINE a == actor[p]
             b == actor'[p]
  <1>1. /\ DirTypes /\ a \in Actor /\ Entitles(p) /\ Relies(p) /\ a.at # "idle" /\ a.file # Absent
        /\ raw \in [seen : Contents \cup {Absent}, disk : Contents \cup {Absent}]
    BY DEF DirInv, DirTypes, DirTypeOK, Publishing, Relies
  <1>2. /\ actor' \in [Actors -> Actor] /\ \A q \in Actors \ {p} : actor'[q] = actor[q]
        /\ b.at = at /\ b.file = a.file /\ b.val = a.val /\ b.launched = a.launched
        /\ b.imported = a.imported
    <2>1. at \in {"run", "collect", "prepare", "link", "unlink", "barrier"}
      OBVIOUS
    <2> QED BY <1>1, <2>1, GoMoves
  <1>3. Spares(p)
    BY <1>2 DEF Spares
  <1>4. a.file \in Files /\ a.file \in PreparedSet \cup {"start"} \cup Drawn
    BY <1>1, FileNames DEF Actor
  <1>6. Entitles(p)'
    BY <1>1, <1>2, FileNames DEF Entitles, Lasts
  <1>7. a.val \in Requests \cup Contents /\ a.val # Absent
    BY <1>1, <1>4, FileNames DEF Relies, Prepares, Publishes
  <1>8. a.file = "start" => \A g \in PreparedSet : disk'[g] = a.val
    BY <1>1, <1>7, FileNames DEF Relies, Publishes, Lasts
  <1>9. a.file = "exit" => a.launched /\ raw' = [seen |-> a.val, disk |-> a.val]
    BY <1>1, <1>7 DEF Relies, Publishes, Lasts
  <1>10. a.file \in {"result", "reject"} => a.file = PayloadOf(a.val) /\ seen'["exit"] = a.val
    BY <1>1, <1>7, FileNames DEF Relies, Publishes, Lasts
  <1>11. a.file = "outcome" => disk'["exit"] = a.val /\ disk'[PayloadOf(a.val)] = a.val
    BY <1>1, <1>7, FileNames DEF Relies, Publishes, Lasts
  <1>12. a.file \in RecheckFiles => disk'["outcome"] = a.val
    BY <1>1, <1>7, FileNames DEF Relies, Publishes, Lasts
  <1>13. /\ a.file \in Drawn \cup {"start"} => runLock = p
         /\ a.file \in Drawn => a.val \in Contents
         /\ a.file = "start" => p \in RunWorkers /\ a.val \in Requests /\ ~ a.launched /\ starts = 0
         /\ a.file \in PreparedSet => p \in Creators /\ admission = p /\ a.val \in Requests /\ ~ a.launched
    BY <1>1 DEF Relies, Prepares, Publishes
  <1>14. Relies(p)'
    BY <1>1, <1>2, <1>8, <1>9, <1>10, <1>11, <1>12, <1>13 DEF Relies, Prepares, Publishes
  <1> QED BY <1>2, <1>3, <1>6, <1>14

\* A record that was published is told to the caller.
LEMMA TellingKeeps ==
  ASSUME DirInv, UNCHANGED <<seen, disk, raw, starts>>,
         \A o \in reported' : o \in reported \/ disk["outcome"] = o,
         \A o \in assessed' : o \in assessed \/ disk["report"] = o
  PROVE  RecordsInOrder' /\ Lasts
  BY DEF DirInv, RecordsInOrder, Lasts, Exists

\* The publisher writes its stage, links it, and syncs the directory.
LEMMA PublishingKeeps ==
  ASSUME DirInv, Absent \notin Requests, NEW p \in Actors, Stage(p) \/ Link(p) \/ SyncDir(p)
  PROVE  DirInv'
  <1> DEFINE a == actor[p]
             f == a.file
  <1>1. /\ DirTypes /\ a \in Actor /\ Entitles(p) /\ Relies(p) /\ a.at \in Publishing
        /\ stages \subseteq Actors /\ litter \in BOOLEAN /\ dirFaults \in 0..MaxDirFaults
        /\ maintSH \subseteq Actors /\ admission \in Creators \cup {Nobody}
        /\ runLock \in Actors \cup {Nobody} /\ "start" \in Files
        /\ reported \subseteq Contents /\ assessed \subseteq Contents
    BY FileNames DEF DirInv, DirTypes, DirTypeOK, Stage, Link, SyncDir, AtStep, Publishing
  <1>2. f \in Files
    BY <1>1 DEF Relies, Actor
  <1>3. Publishes(a, PreparedSet) => admission = p /\ \A g \in PreparedSet : seen[g] \in {a.val, Absent}
    BY <1>1 DEF Relies, Prepares
  <1>4. CASE Stage(p) BY <1>1, <1>3, <1>4, RecordsRest, PublisherStays, QuietMoves DEF Stage, Truths
  <1>5. CASE Link(p)
    <2>0. /\ UNCHANGED <<disk, raw, starts, reported, assessed>> /\ UNCHANGED <<litter, dirFaults>>
          /\ AtStep(p, "link")
      BY <1>5 DEF Link
    <2>1. CASE ~ Exists(f)
      BY <1>1, <1>3, <1>5, <2>0, <2>1, LinkKeeps, FileNames, PublisherStays, ProcessMoves DEF
         Link, DirInv, DirTypes, DirTypeOK, Alone, Publishes
    <2>2. CASE seen[f] = a.val /\ Go(p, "barrier") /\ UNCHANGED <<seen, stages, maintSH, admission, runLock>>
      BY <1>1, <1>3, <2>0, <2>2, RecordsRest, PublisherStays, QuietMoves DEF Truths
    <2>3. CASE stages' = stages \ {p} /\ Return(p) /\ UNCHANGED seen
      BY <1>1, <2>0, <2>3, RecordsRest, ReturnRests, QuietMoves DEF Truths
    <2> QED BY <1>5, <2>1, <2>2, <2>3 DEF Link
  <1>6. CASE SyncDir(p)
    <2>1. /\ BarrierDir(FolderOf(f)) /\ Go(p, "unlink") /\ a.at = "barrier"
          /\ UNCHANGED <<seen, raw, starts, reported, assessed>>
          /\ UNCHANGED <<stages, litter, maintSH, admission, runLock, dirFaults>>
      BY <1>6 DEF SyncDir, AtStep
    <2>2. /\ RecordsInOrder' /\ Lasts /\ disk' \in [Files -> Requests \cup Contents \cup {Absent}]
          /\ \A g \in Files : disk'[g] = IF g \in FolderOf(f) THEN seen[g] ELSE disk[g]
      BY <1>1, <2>1, SyncKeeps DEF DirInv
    <2>3. f \in FolderOf(f) /\ (f \in {"result", "reject"} => "exit" \in FolderOf(f)) /\ "exit" \in Files
      BY <1>2 DEF FolderOf, Files, TaskFiles, RecheckFiles
    <2>4. seen[f] = a.val /\ (f \in {"result", "reject"} => seen["exit"] = a.val)
      BY <1>1, <2>1 DEF Relies, Publishes
    <2>5. Spares(p) /\ Entitles(p)' /\ Relies(p)' /\ actor' \in [Actors -> Actor]
      BY <1>1, <1>2, <1>3, <2>1, <2>2, <2>3, <2>4, PublisherStays
    <2>6. Alone(p) /\ DirTypes'
      BY <1>1, <2>1, <2>2, <2>5 DEF Alone, DirInv, DirTypes, DirTypeOK
    <2> QED BY <2>2, <2>5, <2>6, ProcessMoves
  <1> QED BY <1>4, <1>5, <1>6

\* The publisher is done with one record, or fails.
LEMMA UnlinkKeeps ==
  ASSUME DirInv, Absent \notin Requests, MaxDirFaults \in Nat, NEW p \in Actors,
         Unlink(p) \/ PublishFails(p)
  PROVE  DirInv'
  <1> DEFINE a == actor[p]
             f == a.file
             v == a.val
  <1>1. /\ DirTypes /\ a \in Actor /\ Entitles(p) /\ Relies(p) /\ a.at \in Publishing
        /\ stages \subseteq Actors /\ litter \in BOOLEAN /\ dirFaults \in 0..MaxDirFaults
        /\ maintSH \subseteq Actors /\ admission \in Creators \cup {Nobody}
        /\ runLock \in Actors \cup {Nobody} /\ "start" \in Files
        /\ reported \subseteq Contents /\ assessed \subseteq Contents
    BY FileNames DEF DirInv, DirTypes, DirTypeOK, Unlink, PublishFails, AtStep, Publishing
  <1>2. f \in Files /\ p \in maintSH
    BY <1>1 DEF Relies, Actor, Entitles, Publishing
  <1>3. /\ UNCHANGED <<seen, disk, raw, starts>> /\ stages' = stages \ {p}
        /\ (dirFaults' = dirFaults \/ Faulty)
    BY DEF Unlink, PublishFails
  <1>13. dirFaults' \in 0..MaxDirFaults
    BY <1>1, <1>3 DEF Faulty
  <1>14. litter' \in BOOLEAN
    BY <1>1 DEF Unlink, PublishFails
  <1>4. /\ reported' \in {reported, reported \cup {v}} /\ assessed' \in {assessed, assessed \cup {v}}
        /\ reported' # reported => a.at = "unlink" /\ f = "outcome"
        /\ assessed' # assessed => a.at = "unlink" /\ f = "report"
    BY DEF Unlink, PublishFails, AtStep
  <1>5. f \in Drawn => v \in Contents
    BY <1>1 DEF Relies, Publishes
  <1>6. a.at = "unlink" => disk[f] = v
    BY <1>1 DEF Relies
  <1>7. /\ \A o \in reported' : o \in reported \/ disk["outcome"] = o
        /\ \A o \in assessed' : o \in assessed \/ disk["report"] = o
    BY <1>4, <1>6
  <1>8. reported' \subseteq Contents /\ assessed' \subseteq Contents
    BY <1>1, <1>4, <1>5 DEF Drawn, RecheckFiles
  <1>9. RecordsInOrder' /\ Lasts
    BY <1>3, <1>7, TellingKeeps
  <1>10. SUFFICES /\ Spares(p) /\ Entitles(p)' /\ Relies(p)'
                  /\ actor' \in [Actors -> Actor] /\ maintSH' \subseteq Actors
                  /\ admission' \in Creators \cup {Nobody} /\ runLock' \in Actors \cup {Nobody}
    <2> SUFFICES ASSUME Spares(p), Entitles(p)', Relies(p)',
                        actor' \in [Actors -> Actor], maintSH' \subseteq Actors,
                        admission' \in Creators \cup {Nobody}, runLock' \in Actors \cup {Nobody}
                 PROVE  DirInv'
      OBVIOUS
    <2>1. Alone(p) /\ DirTypes'
      BY <1>1, <1>3, <1>8, <1>13, <1>14 DEF Alone, DirTypes, DirTypeOK
    <2> QED BY <1>9, <2>1, ProcessMoves
  <1>11. CASE Return(p) BY <1>1, <1>9, <1>11, ReturnRests
  <1>12. CASE ~ Return(p)
    <2>1. /\ a.at = "unlink" /\ UNCHANGED <<maintSH, admission, runLock>>
          /\ \/ f \in PreparedSet /\ Go(p, "prepare")
             \/ f \in {"start", "exit"} /\ Go(p, "run")
             \/ f \in {"result", "reject"} /\ PublishRecord(p, "outcome", v)
             \/ f = "rresult" /\ PublishRecord(p, "report", v)
      BY <1>12 DEF Unlink, PublishFails, AtStep
    <2>2. CASE f \in PreparedSet /\ Go(p, "prepare")
      <3>1. /\ actor' \in [Actors -> Actor] /\ \A q \in Actors \ {p} : actor'[q] = actor[q]
            /\ actor'[p].at = "prepare" /\ actor'[p].val = v
            /\ actor'[p].launched = a.launched /\ actor'[p].imported = a.imported
        BY <1>1, <2>2, GoMoves
      <3>2. /\ p \in Creators /\ admission = p /\ v \in Requests /\ ~ a.launched
            /\ \A g \in PreparedSet : seen[g] \in {v, Absent}
        BY <1>1, <2>2 DEF Relies, Prepares, Publishes
      <3> QED BY <1>1, <1>2, <1>3, <2>1, <3>1, <3>2
        DEF Spares, Entitles, Relies, Prepares, Publishes, Publishing
    <2>3. CASE f \in {"start", "exit"} /\ Go(p, "run")
      <3>1. /\ actor' \in [Actors -> Actor] /\ \A q \in Actors \ {p} : actor'[q] = actor[q]
            /\ actor'[p].at = "run" /\ actor'[p].launched = a.launched
            /\ actor'[p].imported = a.imported
        BY <1>1, <2>3, GoMoves
      <3>2. /\ p \in RunWorkers /\ runLock = p /\ (~ a.launched => starts = 0)
            /\ disk["start"] # Absent
        BY <1>1, <1>6, <2>1, <2>3 DEF Relies, Publishes, Entitles
      <3> QED BY <1>1, <1>2, <1>3, <2>1, <3>1, <3>2
        DEF Spares, Entitles, Relies, Prepares, Publishes, Publishing
    <2>4. CASE \/ f \in {"result", "reject"} /\ PublishRecord(p, "outcome", v)
               \/ f = "rresult" /\ PublishRecord(p, "report", v)
      <3>1. PICK g \in {"outcome", "report"} :
               /\ PublishRecord(p, g, v)
               /\ IF g = "outcome" THEN f \in {"result", "reject"} ELSE f = "rresult"
        BY <2>4
      <3>2. g \in Files /\ v \in Contents /\ runLock = p
        BY <1>1, <3>1 DEF Relies, Publishes, Drawn, Files, TaskFiles, RecheckFiles
      <3>3. /\ actor' \in [Actors -> Actor] /\ \A q \in Actors \ {p} : actor'[q] = actor[q]
            /\ actor'[p].at = "stage" /\ actor'[p].file = g /\ actor'[p].val = v
            /\ actor'[p].launched = a.launched /\ actor'[p].imported = a.imported
        BY <1>1, <3>1, <3>2, PublishMoves
      <3>4. /\ g = "outcome" => disk["exit"] = v /\ disk[PayloadOf(v)] = v
            /\ g = "report" => disk["outcome"] = v
        BY <1>1, <1>6, <2>1, <3>1 DEF Relies, Publishes, RecheckFiles
      <3>5. g \notin PreparedSet \cup {"start", "exit", "result", "reject", Absent}
            /\ (g \in RecheckFiles => g = "report")
        BY DEF PreparedSet, RecheckFiles, Absent
      <3>6. Spares(p) /\ Entitles(p)'
        BY <1>1, <1>2, <1>3, <2>1, <3>3 DEF Spares, Entitles
      <3>7. Relies(p)'
        BY <1>3, <2>1, <3>2, <3>3, <3>4, <3>5 DEF Relies, Prepares, Publishes, Publishing
      <3> QED BY <1>1, <2>1, <3>3, <3>6, <3>7
    <2> QED BY <2>1, <2>2, <2>3, <2>4
  <1> QED BY <1>11, <1>12

\* Stage files are collected while no publisher has one.
LEMMA ScavengeKeeps ==
  ASSUME DirInv, Scavenge
  PROVE  DirInv'
  <1>1. \A p \in Actors : actor[p].at = "idle"
    BY DEF DirInv, Entitles, Scavenge
  <1>2. /\ UNCHANGED <<seen, disk, raw, maintSH, admission, runLock, actor, dirFaults, starts,
                       reported, assessed>>
        /\ stages' = {} /\ litter' = FALSE
    BY DEF Scavenge
  <1>3. DirTypes' /\ RecordsInOrder'
    BY <1>2 DEF DirInv, DirTypes, DirTypeOK, RecordsInOrder, Exists
  <1>4. ASSUME NEW p \in Actors PROVE Entitles(p)' /\ Relies(p)'
    BY <1>1, <1>2 DEF DirInv, Entitles, Relies, Prepares, Publishes, Publishing
  <1> QED BY <1>3, <1>4 DEF DirInv

\* After a power failure what is read is what is on disk, and it is still in order.
LEMMA PowerKeeps ==
  ASSUME DirInv, Absent \notin Requests, MaxDirFaults \in Nat, PowerFails
  PROVE  DirInv'
  <1>1. /\ DirTypes /\ RecordsInOrder
        /\ seen \in [Files -> Requests \cup Contents \cup {Absent}]
        /\ disk \in [Files -> Requests \cup Contents \cup {Absent}]
        /\ raw \in [seen : Contents \cup {Absent}, disk : Contents \cup {Absent}]
    BY DEF DirInv, DirTypes, DirTypeOK
  <1>2. /\ seen' \in [Files -> Requests \cup Contents \cup {Absent}] /\ disk' = seen'
        /\ \A f \in Files : seen'[f] \in {seen[f], disk[f]}
    BY <1>1 DEF PowerFails
  <1>3. \A f \in Files : seen'[f] \in {seen[f], Absent} /\ (disk[f] # Absent => seen'[f] = disk[f])
    BY <1>2 DEF DirInv, RecordsInOrder
  <1>4. PICK c \in {raw.seen, raw.disk} : raw' = [seen |-> c, disk |-> c]
    BY DEF PowerFails
  <1>5. UNCHANGED <<starts, reported, assessed>> /\ actor' = [p \in Actors |-> IdleActor]
    BY DEF PowerFails
  <1>7. \A f \in Files : disk'[f] \in {seen'[f], Absent}
    BY <1>2
  <1>8. \A f, g \in PreparedSet : seen'[f] # Absent /\ seen'[g] # Absent => seen'[f] = seen'[g]
    BY <1>3, FileNames DEF DirInv, RecordsInOrder, Exists
  <1>9. seen'["start"] # Absent => \A f \in PreparedSet : disk'[f] = seen'["start"]
    BY <1>1, <1>2, <1>3, FileNames DEF RecordsInOrder, Exists
  <1>10. seen'["exit"] # Absent => /\ raw' = [seen |-> seen'["exit"], disk |-> seen'["exit"]]
                                   /\ disk'["start"] # Absent
    BY <1>1, <1>2, <1>3, <1>4, FileNames DEF RecordsInOrder, Exists
  <1>11. seen'["outcome"] # Absent => /\ disk'["exit"] = seen'["outcome"]
                                      /\ disk'[PayloadOf(seen'["outcome"])] = seen'["outcome"]
    BY <1>1, <1>2, <1>3, FileNames DEF RecordsInOrder, Exists
  <1>12. seen'["report"] # Absent => disk'["outcome"] = seen'["report"]
    BY <1>1, <1>2, <1>3, FileNames DEF RecordsInOrder, Exists
  <1>13. /\ \A o \in reported' : disk'["outcome"] = o
         /\ \A o \in assessed' : disk'["report"] = o
    BY <1>1, <1>2, <1>3, <1>5, FileNames DEF RecordsInOrder, DirTypes, DirTypeOK
  <1>14. starts' <= 1 /\ (starts' = 1 => disk'["start"] # Absent)
    BY <1>1, <1>2, <1>3, <1>5, FileNames DEF RecordsInOrder
  <1>15. RecordsInOrder'
    BY <1>7, <1>8, <1>9, <1>10, <1>11, <1>12, <1>13, <1>14 DEF RecordsInOrder, Exists
  <1>16. DirTypes'
    BY <1>1, <1>2, <1>3, <1>4, <1>5, FileNames DEF DirInv, DirTypes, DirTypeOK, PowerFails,
       Faulty, IdleActor, Actor
  <1>17. ASSUME NEW p \in Actors PROVE Entitles(p)' /\ Relies(p)'
    BY <1>5 DEF IdleActor, Entitles, Relies, Prepares, Publishes, Publishing
  <1> QED BY <1>15, <1>16, <1>17 DEF DirInv

LEMMA DirInitIsSafe ==
  ASSUME Absent \notin Requests, MaxDirFaults \in Nat, DirInit
  PROVE  DirInv
  <1>1. DirTypes
    <2>1. actor \in [Actors -> Actor]
      BY DEF DirInit, IdleActor, Actor
    <2>2. /\ seen \in [Files -> Requests \cup Contents \cup {Absent}] /\ disk = seen
          /\ \A f \in Files : seen[f] = Absent
      BY DEF DirInit
    <2>4. /\ raw = [seen |-> Absent, disk |-> Absent] /\ stages = {}
          /\ maintSH = {} /\ admission = Nobody /\ runLock = Nobody
          /\ dirFaults = 0 /\ starts = 0 /\ reported = {} /\ assessed = {}
      BY DEF DirInit
    <2>5. litter \in BOOLEAN
      BY DEF DirInit
    <2> QED BY <2>1, <2>2, <2>4, <2>5, FileNames DEF DirTypes, DirTypeOK
  <1>2. RecordsInOrder
    BY FileNames DEF DirInit, RecordsInOrder, Exists, Drawn, RecheckFiles
  <1>3. ASSUME NEW p \in Actors PROVE Entitles(p) /\ Relies(p)
    BY DEF DirInit, IdleActor, Entitles, Relies, Prepares, Publishes, Publishing
  <1> QED BY <1>1, <1>2, <1>3 DEF DirInv

\* What the invariant says of the reports, the outcome and the start.
LEMMA DirInvIsSafe ==
  ASSUME DirInv, Absent \notin Requests
  PROVE  ReportsStand /\ OutcomeIsBacked /\ TaskStartsOnce
  <1>2. reported \subseteq Contents /\ assessed \subseteq Contents
    BY DEF DirInv, DirTypes, DirTypeOK
  <1>3. \A f \in Files : disk[f] # Absent => seen[f] = disk[f]
    BY DEF DirInv, RecordsInOrder
  <1>4. ReportsStand
    BY <1>2, <1>3, FileNames DEF DirInv, RecordsInOrder, Exists, ReportsStand
  <1>5. OutcomeIsBacked
    <2> SUFFICES ASSUME Exists("outcome") PROVE OutcomeIsBacked
      BY DEF OutcomeIsBacked
    <2>1. /\ disk["exit"] = seen["outcome"] /\ disk[PayloadOf(seen["outcome"])] = seen["outcome"]
          /\ seen["outcome"] # Absent
      BY DEF DirInv, RecordsInOrder, Exists
    <2>2. seen["exit"] = seen["outcome"] /\ seen[PayloadOf(seen["outcome"])] = seen["outcome"]
      BY <1>3, <2>1, FileNames
    <2>3. /\ raw = [seen |-> seen["exit"], disk |-> seen["exit"]] /\ disk["start"] # Absent
      BY <2>1, <2>2 DEF DirInv, RecordsInOrder, Exists
    <2>4. \A f \in PreparedSet : disk[f] = disk["start"]
      BY <1>3, <2>3, FileNames DEF DirInv, RecordsInOrder, Exists
    <2> QED BY <2>1, <2>2, <2>3, <2>4 DEF OutcomeIsBacked, WinnerIsValid
  <1>6. TaskStartsOnce
    BY DEF TaskStartsOnce, DirInv, RecordsInOrder, Entitles, AtStep
  <1> QED BY <1>4, <1>5, <1>6

\* TaskDirectory (taskdir): the records of a task stay in order, whoever crashes, and every
\* process is where its lease and the directory say.
THEOREM DirInductive ==
  ASSUME Absent \notin Requests, Nobody \notin Actors, MaxDirFaults \in Nat
  PROVE  /\ DirInit => DirInv
         /\ DirInv /\ [DirNext]_dirVars => DirInv'
         /\ DirInv => DirTypeOK /\ OutcomeHolds /\ TaskStartsOnce
  <1>1. ASSUME DirInv, [DirNext]_dirVars PROVE DirInv'
    <2>1. CASE UNCHANGED dirVars
      BY <1>1, <2>1 DEF dirVars, DirInv, DirTypes, DirTypeOK, RecordsInOrder, Exists, Entitles, Relies,
         Prepares, Publishes
    <2>2. ASSUME NEW p \in Actors,
                 \/ CreateTaskContext(p) \/ Admit(p) \/ PrepareSet(p)
                 \/ PrepareStart(p) \/ Launch(p) \/ WriteRaw(p) \/ CloseRaw(p) \/ ImportOutput(p)
                 \/ Seal(p) \/ Finalize(p) \/ ReleaseLease(p)
                 \/ CollectContext(p) \/ CollectOwned(p) \/ Recheck(p)
                 \/ Stage(p) \/ Link(p) \/ SyncDir(p) \/ Unlink(p) \/ PublishFails(p)
                 \/ ProcessDies(p)
          PROVE  DirInv'
      BY <1>1, <2>2, CreatingKeeps, StartKeeps, RunKeeps, OutputKeeps, SealKeeps, LeavingKeeps,
         CollectKeeps, CollectOwnedKeeps, RecheckKeeps, PublishingKeeps, UnlinkKeeps
    <2> QED BY <1>1, <2>1, <2>2, ScavengeKeeps, PowerKeeps DEF DirNext
  <1> QED BY <1>1, DirInitIsSafe, DirInvIsSafe DEF DirInv, DirTypes, OutcomeHolds
=============================================================================
