------------------------ MODULE SubmissionProofs ---------------------------
(***************************************************************************)
(* Theorems about the private supervisor's queue, for any number of tasks, *)
(* numeric IDs and processes that submit, recover, stop and clean up, with *)
(* crashes and pending commands: a command reaches the row it was meant    *)
(* for, a task has one row, a row that may run is known to its task, and a *)
(* row leaves for a cause.                                                 *)
(***************************************************************************)
EXTENDS Submission, TLAPS

--------------------
(* The inductive invariant.                                                *)

\* The steps of each operation.
Steps(goal) ==
    CASE goal = "none" -> {"idle"}
      [] goal = "add" -> {"permit", "add", "adding", "commit", "register", "enqueue",
                          "enqueuing", "retain"}
      [] goal = "recover" -> {"permit", "recover", "commit", "register", "enqueue",
                              "enqueuing", "retain"}
      [] goal = "stop" -> {"stop", "stopping", "retain"}
      [] OTHER -> {"capture", "remove", "removing", "clear", "stale", "retain"}

\* An operation at work holds its locks; a bootstrap holds its own throughout.
Working(p) == proc[p].pc \in {"adding", "commit", "register", "enqueue", "enqueuing",
                              "stopping", "removing", "clear", "retain"}
BootHeld(p) ==
    IF proc[p].goal = "bootstrap" THEN "EX"
    ELSE IF ~ Working(p) THEN "free"
    ELSE IF proc[p].goal = "stop" THEN "EX" ELSE "SH"
IdentHeld(p) ==
    IF ~ Working(p) \/ proc[p].goal = "stop" THEN "free"
    ELSE IF proc[p].goal = "add" THEN "SH" ELSE "EX"

\* An operation is at one of its steps, about a task, with its locks.
Placed(p) ==
    /\ proc[p].pc \in Steps(proc[p].goal)
    /\ proc[p].goal \in {"add", "recover", "stop"} => proc[p].task \in Tasks
    /\ proc[p].goal = "recover" => proc[p].id \in Ids
    /\ boot[p] = BootHeld(p) /\ ident[p] = IdentHeld(p)

\* A command is the one of its operation's step; a caller that has given up on it or has
\* died leaves it and its locks behind.
Commanded(p) ==
    CASE proc[p].pc = "adding" -> cmd[p].op = "add"
      [] proc[p].pc = "enqueuing" -> cmd[p].op = "enqueue"
      [] proc[p].pc = "stopping" -> cmd[p].op \in {"remove", "kill"}
      [] proc[p].pc = "removing" -> cmd[p].op = "remove"
      [] proc[p].pc = "retain" -> cmd[p].op # "none"
      [] OTHER -> cmd[p] = NoCommand

\* And it is addressed as its operation wants.
Addressed(p) ==
    /\ cmd[p].op = "add" =>
          proc[p].goal = "add" /\ cmd[p].task = proc[p].task /\ cmd[p].targets = {}
    /\ cmd[p].op = "enqueue" =>
          /\ proc[p].goal \in {"add", "recover"}
          /\ cmd[p].targets = {[id |-> proc[p].id, task |-> proc[p].task]}
    /\ cmd[p].op \in {"remove", "kill"} =>
          \/ /\ proc[p].goal = "stop"
             /\ \A g \in cmd[p].targets : g.task = proc[p].task
          \/ /\ proc[p].goal \in {"pass", "bootstrap"} /\ cmd[p].op = "remove"
             /\ cmd[p].targets = proc[p].plan

\* The rows a running command addresses stay where they were seen; those of a cleanup
\* have ended and their tasks are published.
Aimed(p) ==
    Running(p) => \A g \in cmd[p].targets :
        /\ rows[g.id] # NoRow /\ rows[g.id].task = g.task
        /\ proc[p].goal \in {"pass", "bootstrap"} =>
              rows[g.id].state = "ended" /\ g.task \in published

\* What a submission has added or recovered stays stashed until it is enqueued, and its
\* receipt and its ticket come first.
Enqueuing(p) == proc[p].pc = "enqueue" \/ (Running(p) /\ cmd[p].op = "enqueue")
Staged(p) ==
    /\ proc[p].pc = "adding" /\ cmd[p].stage = "done" =>
          cmd[p].id \in Ids /\ rows[cmd[p].id] = [task |-> proc[p].task, state |-> "stashed"]
    /\ proc[p].pc \in {"commit", "register"} \/ Enqueuing(p) =>
          /\ proc[p].id \in Ids
          /\ rows[proc[p].id] = [task |-> proc[p].task, state |-> "stashed"]
    /\ proc[p].pc = "register" \/ Enqueuing(p) => receipt[proc[p].task] = proc[p].id
    /\ Enqueuing(p) => proc[p].id \in tickets

\* A cleanup that clears events has removed their rows.
Cleared(p) ==
    proc[p].pc = "clear" \/ (proc[p].pc = "removing" /\ cmd[p].stage = "done") =>
        \A g \in proc[p].plan : rows[g.id] = NoRow

\* A submission that holds the permit and has not added its row.
Permitted(p) ==
    /\ proc[p].goal = "add"
    /\ proc[p].pc \in {"permit", "add"} \/ (Running(p) /\ cmd[p].op = "add")

\* It is for a submitted task that has no row.
Fresh(p) ==
    /\ proc[p].goal = "add" => proc[p].task \in submit
    /\ Permitted(p) => \A i \in Ids : rows[i] # NoRow => rows[i].task # proc[p].task

\* A stop was asked for.
Asked(p) == proc[p].goal = "stop" => stops[proc[p].task] > 0

Fits(p) ==
    /\ Placed(p) /\ Commanded(p) /\ Addressed(p) /\ Aimed(p)
    /\ Staged(p) /\ Cleared(p) /\ Fresh(p) /\ Asked(p)

LocksExclude ==
    \A p, q \in Procs : p # q =>
        /\ boot[p] = "EX" => boot[q] = "free"
        /\ ident[p] = "EX" => ident[q] = "free"

\* A task is submitted once.
OnePermit ==
    \A p, q \in Procs :
        proc[p].goal = "add" /\ proc[q].goal = "add" /\ proc[p].task = proc[q].task => p = q

RowsAreSubmitted == \A i \in Ids : rows[i] # NoRow => rows[i].task \in submit

SubInv ==
    /\ TypeOK
    /\ \A p \in Procs : Fits(p)
    /\ LocksExclude /\ OnePermit
    /\ RowsAreSubmitted /\ OneRowPerTask /\ RunnableRowIsKnown

--------------------
(* Types.                                                                  *)

Bounds ==
    /\ MaxCrashes \in Nat /\ MaxStops \in Nat /\ MaxPasses \in Nat
    /\ NoId \notin Ids /\ NoRow.task \notin Tasks

\* What the daemon does to a row leaves a row.
LEMMA RowsStayTyped ==
  ASSUME QueueTypeOK, NEW p \in Procs, ExecuteOnIds(p)
  PROVE  rows' \in [Ids -> Row \cup {NoRow}]
  <1>1. CASE rows' = rows BY <1>1 DEF QueueTypeOK
  <1>2. CASE /\ \A i \in {g.id : g \in cmd[p].targets} : rows[i].state \in Accepts(cmd[p].op)
             /\ rows' = [i \in Ids |-> IF i \in {g.id : g \in cmd[p].targets}
                                       THEN After(cmd[p].op, rows[i]) ELSE rows[i]]
    <2> SUFFICES ASSUME NEW i \in Ids
                 PROVE  rows'[i] \in Row \cup {NoRow}
      BY <1>2
    <2>1. CASE i \in {g.id : g \in cmd[p].targets}
      <3>1. rows'[i] = After(cmd[p].op, rows[i]) /\ rows[i].state \in Accepts(cmd[p].op)
        BY <1>2, <2>1
      <3>2. rows[i] \in Row \cup {NoRow}
        BY DEF QueueTypeOK
      <3>3. rows[i] # NoRow
        BY <3>1 DEF Accepts, NoRow
      <3> QED BY <3>1, <3>2, <3>3 DEF After, Row
    <2>2. CASE i \notin {g.id : g \in cmd[p].targets} BY <1>2, <2>2 DEF QueueTypeOK
    <2> QED BY <2>1, <2>2
  <1> QED BY <1>1, <1>2 DEF ExecuteOnIds

--------------------
(* Steps that leave the rows alone.                                        *)

RestTypes ==
    /\ callbacks \subseteq Ids
    /\ submit \subseteq Tasks
    /\ receipt \in [Tasks -> Ids \cup {NoId}]
    /\ stops \in [Tasks -> 0..MaxStops]
    /\ published \subseteq Tasks
    /\ tickets \subseteq Ids /\ events \subseteq Ids
    /\ crashes \in 0..MaxCrashes
    /\ passes \in 0..MaxPasses

ProcTypes ==
    /\ proc \in [Procs -> Local]
    /\ cmd \in [Procs -> Command \cup {NoCommand}]
    /\ boot \in [Procs -> Modes]
    /\ ident \in [Procs -> Modes]

Stays(q) == proc'[q] = proc[q] /\ cmd'[q] = cmd[q] /\ boot'[q] = boot[q] /\ ident'[q] = ident[q]

\* What is recorded stays recorded; a new receipt names the task's row; a ticket goes with
\* its row.
RecordsGrow ==
    /\ submit \subseteq submit' /\ published \subseteq published'
    /\ \A t \in Tasks : stops[t] > 0 => stops'[t] > 0
    /\ \A t \in Tasks : receipt'[t] = receipt[t]
          \/ \A i \in Ids : rows[i] # NoRow /\ rows[i].task = t => receipt'[t] = i
    /\ \A i \in Ids : rows[i] # NoRow /\ i \in tickets => i \in tickets'

\* A process may take a lock nobody holds against it, and start a submission only of a
\* task that nobody submitted.
Allowed(p) ==
    /\ Fits(p)'
    /\ \A q \in Procs \ {p} :
          /\ boot'[p] = "EX" => boot[q] = "free"
          /\ boot[q] = "EX" => boot'[p] = "free"
          /\ ident'[p] = "EX" => ident[q] = "free"
          /\ ident[q] = "EX" => ident'[p] = "free"
    /\ proc'[p].goal = "add" =>
          \/ proc[p].goal = "add" /\ proc'[p].task = proc[p].task
          \/ proc'[p].task \notin submit

\* The processes in M, one at most, take a step.
Moves(M) ==
    /\ rows' = rows /\ RestTypes' /\ ProcTypes' /\ RecordsGrow
    /\ \A p, q \in M : p = q
    /\ \A p \in M : Allowed(p)
    /\ \A q \in Procs \ M : Stays(q)

\* What others do leaves a process's operation as it was.
LEMMA OthersFit ==
  ASSUME SubInv, rows' = rows, RecordsGrow, NEW q \in Procs, Stays(q)
  PROVE  Fits(q)'
  <1>1. /\ Fits(q) /\ proc[q] \in Local /\ rows \in [Ids -> Row \cup {NoRow}]
        /\ cmd[q] \in Command \cup {NoCommand}
    BY DEF SubInv, TypeOK, QueueTypeOK
  <1>2. Placed(q)' /\ Commanded(q)' /\ Addressed(q)' /\ Cleared(q)'
    BY <1>1 DEF Fits, Placed, Commanded, Addressed, Cleared, Stays, BootHeld, IdentHeld, Working,
       Steps
  <1>3. Aimed(q)'
    BY <1>1 DEF Fits, Aimed, Running, Stays, RecordsGrow
  <1>4. Staged(q)'
    <2>1. (proc[q].pc = "register" \/ Enqueuing(q)) => proc[q].task \in Tasks
      BY <1>1 DEF Fits, Placed, Addressed, Enqueuing, Steps, Running, Local
    <2>2. (proc[q].pc = "register" \/ Enqueuing(q)) =>
             /\ proc[q].id \in Ids /\ rows[proc[q].id] # NoRow
             /\ rows[proc[q].id].task = proc[q].task
      BY <1>1 DEF Fits, Staged, NoRow
    <2>3. (proc[q].pc = "register" \/ Enqueuing(q)) => receipt'[proc[q].task] = proc[q].id
      BY <2>1, <2>2, <1>1 DEF Fits, Staged, RecordsGrow
    <2>4. Enqueuing(q) => proc[q].id \in tickets'
      BY <2>2, <1>1 DEF Fits, Staged, RecordsGrow
    <2>5. Enqueuing(q)' <=> Enqueuing(q)
      BY DEF Enqueuing, Running, Stays
    <2> QED BY <1>1, <2>3, <2>4, <2>5 DEF Fits, Staged, Stays
  <1>5. Fresh(q)'
    <2>1. Permitted(q)' <=> Permitted(q)
      BY DEF Permitted, Running, Stays
    <2> QED BY <1>1, <2>1 DEF Fits, Fresh, Stays, RecordsGrow
  <1>6. Asked(q)'
    BY <1>1 DEF Fits, Placed, Asked, Stays, RecordsGrow
  <1> QED BY <1>2, <1>3, <1>4, <1>5, <1>6 DEF Fits

\* Such a move of one process, or of none, keeps the invariant.
LEMMA MovesKeep ==
  ASSUME SubInv, NEW M \in SUBSET Procs, Moves(M)
  PROVE  SubInv'
  <1>1. TypeOK'
    BY DEF SubInv, Moves, TypeOK, QueueTypeOK, RestTypes, ProcTypes
  <1>2. \A p \in Procs : Fits(p)'
    <2> SUFFICES ASSUME NEW p \in Procs
                 PROVE  Fits(p)'
      OBVIOUS
    <2>1. CASE p \in M BY <2>1 DEF Moves, Allowed
    <2>2. CASE p \notin M
      <3>1. Stays(p) /\ rows' = rows /\ RecordsGrow
        BY <2>2 DEF Moves
      <3> QED BY <3>1, OthersFit
    <2> QED BY <2>1, <2>2
  <1>3. LocksExclude'
    <2> SUFFICES ASSUME NEW p \in Procs, NEW q \in Procs, p # q
                 PROVE  /\ boot'[p] = "EX" => boot'[q] = "free"
                        /\ ident'[p] = "EX" => ident'[q] = "free"
      BY DEF LocksExclude
    <2>1. (p \in M => Allowed(p)) /\ (q \in M => Allowed(q)) /\ ~ (p \in M /\ q \in M)
      BY DEF Moves
    <2>2. (p \notin M => Stays(p)) /\ (q \notin M => Stays(q))
      BY DEF Moves
    <2>3. /\ boot[p] = "EX" => boot[q] = "free"
          /\ ident[p] = "EX" => ident[q] = "free"
      BY DEF SubInv, LocksExclude
    <2>4. CASE p \in M BY <2>1, <2>2, <2>4 DEF Allowed, Stays
    <2>5. CASE q \in M BY <2>1, <2>2, <2>5 DEF Allowed, Stays
    <2>6. CASE p \notin M /\ q \notin M
      BY <2>2, <2>3, <2>6 DEF Stays
    <2> QED BY <2>4, <2>5, <2>6
  <1>4. OnePermit'
    <2> SUFFICES ASSUME NEW p \in Procs, NEW q \in Procs, p # q, proc'[p].goal = "add",
                        proc'[q].goal = "add", proc'[p].task = proc'[q].task
                 PROVE  FALSE
      BY DEF OnePermit
    <2>1. (p \in M => Allowed(p)) /\ (q \in M => Allowed(q)) /\ ~ (p \in M /\ q \in M)
      BY DEF Moves
    <2>2. (p \notin M => Stays(p)) /\ (q \notin M => Stays(q))
      BY DEF Moves
    <2>3. \A r \in Procs : proc[r].goal = "add" => proc[r].task \in submit
      BY DEF SubInv, Fits, Fresh
    <2>4. ~ (proc[p].goal = "add" /\ proc[q].goal = "add" /\ proc[p].task = proc[q].task)
      BY DEF SubInv, OnePermit
    <2>5. CASE p \in M BY <2>1, <2>2, <2>3, <2>4, <2>5 DEF Allowed, Stays
    <2>6. CASE q \in M BY <2>1, <2>2, <2>3, <2>4, <2>6 DEF Allowed, Stays
    <2>7. CASE p \notin M /\ q \notin M
      BY <2>2, <2>4, <2>7 DEF Stays
    <2> QED BY <2>5, <2>6, <2>7
  <1>5. RowsAreSubmitted' /\ OneRowPerTask'
    BY DEF SubInv, Moves, RecordsGrow, RowsAreSubmitted, OneRowPerTask
  <1>6. RunnableRowIsKnown'
    <2> SUFFICES ASSUME NEW i \in Ids
                 PROVE  /\ rows[i].state \in {"queued", "running", "ended"} =>
                             receipt'[rows[i].task] = i
                        /\ rows[i].state \in {"queued", "running"} => i \in tickets'
      BY DEF RunnableRowIsKnown, Moves
    <2>1. rows[i] = NoRow \/ rows[i] \in Row
      BY DEF SubInv, TypeOK, QueueTypeOK
    <2>2. /\ rows[i].state \in {"queued", "running", "ended"} => receipt[rows[i].task] = i
          /\ rows[i].state \in {"queued", "running"} => i \in tickets
      BY DEF SubInv, RunnableRowIsKnown
    <2>3. CASE rows[i] = NoRow BY <2>3 DEF NoRow
    <2>4. CASE rows[i] # NoRow
      <3>1. rows[i].task \in Tasks
        BY <2>1, <2>4 DEF Row
      <3> QED BY <2>2, <2>4, <3>1 DEF Moves, RecordsGrow
    <2> QED BY <2>3, <2>4
  <1> QED BY <1>1, <1>2, <1>3, <1>4, <1>5, <1>6 DEF SubInv

\* The locks b and d go with those the other processes hold.
Compatible(p, b, d) ==
    \A q \in Procs \ {p} :
        /\ b = "EX" => boot[q] = "free"
        /\ boot[q] = "EX" => b = "free"
        /\ d = "EX" => ident[q] = "free"
        /\ ident[q] = "EX" => d = "free"

\* A submission goes on, or is of a task that nobody submitted.
Submits(p, x) ==
    x.goal = "add" => \/ proc[p].goal = "add" /\ x.task = proc[p].task
                      \/ x.task \notin submit

\* One process writes its own state, its command and its locks.
Writes(p, x, c, b, d) ==
    /\ proc' = [proc EXCEPT ![p] = x] /\ cmd' = [cmd EXCEPT ![p] = c]
    /\ boot' = [boot EXCEPT ![p] = b] /\ ident' = [ident EXCEPT ![p] = d]

\* A step of one process, given what it does.
LEMMA OneMoves ==
  ASSUME SubInv, NEW p \in Procs, NEW x \in Local, NEW c \in Command \cup {NoCommand},
         NEW b \in Modes, NEW d \in Modes,
         rows' = rows, RestTypes', RecordsGrow,
         Writes(p, x, c, b, d), Compatible(p, b, d), Submits(p, x), Fits(p)'
  PROVE  SubInv'
  <1>1. ProcTypes
    BY DEF SubInv, TypeOK, QueueTypeOK, ProcTypes
  <1>2. /\ proc'[p] = x /\ cmd'[p] = c /\ boot'[p] = b /\ ident'[p] = d
        /\ \A q \in Procs \ {p} : Stays(q)
    BY <1>1 DEF ProcTypes, Stays, Writes
  <1>3. ProcTypes'
    BY <1>1 DEF ProcTypes, Writes
  <1>4. Allowed(p)
    BY <1>2 DEF Allowed, Compatible, Submits
  <1>5. Moves({p})
    BY <1>2, <1>3, <1>4 DEF Moves
  <1> QED BY <1>5, MovesKeep

--------------------
(* The operations.                                                         *)

\* What holds of a process in the invariant, typed.
LEMMA InInv ==
  ASSUME SubInv, NEW p \in Procs
  PROVE  /\ Fits(p) /\ proc[p] \in Local /\ cmd[p] \in Command \cup {NoCommand}
         /\ boot[p] \in Modes /\ ident[p] \in Modes
         /\ proc \in [Procs -> Local] /\ cmd \in [Procs -> Command \cup {NoCommand}]
         /\ boot \in [Procs -> Modes] /\ ident \in [Procs -> Modes]
         /\ rows \in [Ids -> Row \cup {NoRow}] /\ RestTypes
  BY DEF SubInv, TypeOK, QueueTypeOK, RestTypes

\* What a process that changes nothing writes.
LEMMA Unwritten ==
  ASSUME SubInv, NEW p \in Procs
  PROVE  /\ cmd = [cmd EXCEPT ![p] = cmd[p]] /\ boot = [boot EXCEPT ![p] = boot[p]]
         /\ ident = [ident EXCEPT ![p] = ident[p]] /\ proc = [proc EXCEPT ![p] = proc[p]]
  BY InInv

\* A step that leaves the tasks, tickets, events and callbacks alone keeps their types.
LEMMA NothingRecorded ==
  ASSUME SubInv, UNCHANGED <<taskVars, eventVars, crashes, passes>>, UNCHANGED callbacks
  PROVE  RestTypes' /\ RecordsGrow
  BY DEF SubInv, TypeOK, QueueTypeOK, RestTypes, RecordsGrow, taskVars, eventVars

\* The locks a process has go with the others.
LEMMA LocksStand ==
  ASSUME SubInv, NEW p \in Procs
  PROVE  Compatible(p, boot[p], ident[p])
  BY DEF SubInv, LocksExclude, Compatible

\* An operation goes on with the locks it has.
LEMMA Continues ==
  ASSUME SubInv, NEW p \in Procs, NEW x \in Local, NEW c \in Command \cup {NoCommand},
         rows' = rows, RestTypes', RecordsGrow, boot' = boot, ident' = ident,
         proc' = [proc EXCEPT ![p] = x], cmd' = [cmd EXCEPT ![p] = c],
         Fits(p)', Submits(p, x)
  PROVE  SubInv'
  <1>1. PICK b \in Modes : b = boot[p]
    BY InInv
  <1>2. PICK d \in Modes : d = ident[p]
    BY InInv
  <1>3. boot' = [boot EXCEPT ![p] = b] /\ ident' = [ident EXCEPT ![p] = d]
    BY <1>1, <1>2, Unwritten
  <1>4. Compatible(p, b, d)
    BY <1>1, <1>2, LocksStand
  <1>5. Writes(p, x, c, b, d)
    BY <1>3 DEF Writes
  <1> QED BY <1>4, <1>5, OneMoves

\* An operation ends.
LEMMA Finishes ==
  ASSUME SubInv, NEW p \in Procs, Finish(p), rows' = rows, RestTypes', RecordsGrow
  PROVE  SubInv'
  <1>1. Idle \in Local /\ NoCommand \in Command \cup {NoCommand} /\ "free" \in Modes
    BY DEF Idle, Local, PCs, Modes
  <1>2. /\ proc' = [proc EXCEPT ![p] = Idle] /\ cmd' = [cmd EXCEPT ![p] = NoCommand]
        /\ boot' = [boot EXCEPT ![p] = "free"] /\ ident' = [ident EXCEPT ![p] = "free"]
    BY DEF Finish, Release
  <1>3. proc'[p] = Idle /\ cmd'[p] = NoCommand /\ boot'[p] = "free" /\ ident'[p] = "free"
    BY <1>2, InInv
  <1>4. Fits(p)'
    BY <1>3 DEF Fits, Placed, Steps, BootHeld, IdentHeld, Working, Commanded, Addressed, Aimed,
       Staged, Enqueuing, Cleared, Fresh, Permitted, Asked, Running, Idle, NoCommand
  <1>5. Compatible(p, "free", "free") /\ Submits(p, Idle)
    BY DEF Compatible, Submits, Idle
  <1>6. Writes(p, Idle, NoCommand, "free", "free")
    BY <1>2 DEF Writes
  <1> QED BY <1>1, <1>4, <1>5, <1>6, OneMoves

\* A submission is prepared: the task has its submit.json from here on.
LEMMA PrepareSubmissionKeeps ==
  ASSUME SubInv, NEW p \in Procs, NEW t \in Tasks, PrepareSubmission(p, t)
  PROVE  SubInv'
  <1> DEFINE x == [Idle EXCEPT !.pc = "permit", !.goal = "add", !.task = t]
  <1>1. /\ x \in Local /\ x.pc = "permit" /\ x.goal = "add" /\ x.task = t
        /\ proc[p] = Idle \/ proc[p].pc = "idle"
    BY DEF Idle, Local, PCs, PrepareSubmission, At
  <1>2. /\ proc' = [proc EXCEPT ![p] = x] /\ cmd' = cmd /\ boot' = boot /\ ident' = ident
        /\ rows' = rows /\ proc[p].pc = "idle" /\ t \notin submit /\ submit' = submit \cup {t}
    BY DEF PrepareSubmission, At, queueVars
  <1> HIDE DEF x
  <1>3. proc'[p] = x /\ cmd'[p] = cmd[p] /\ boot'[p] = boot[p] /\ ident'[p] = ident[p]
    BY <1>1, <1>2, InInv
  <1>4. RestTypes' /\ RecordsGrow
    <2>1. UNCHANGED <<callbacks, receipt, stops, published, tickets, events, crashes, passes>>
      BY DEF PrepareSubmission, queueVars, eventVars
    <2> QED BY <1>2, <2>1, InInv DEF RestTypes, RecordsGrow
  <1>5. cmd[p] = NoCommand /\ boot[p] = "free" /\ ident[p] = "free"
    BY <1>2, InInv DEF Fits, Commanded, Placed, BootHeld, IdentHeld, Working, Steps
  <1>6. \A i \in Ids : rows[i] # NoRow => rows[i].task # t
    BY <1>2 DEF SubInv, RowsAreSubmitted
  <1>7. Fits(p)'
    BY <1>1, <1>2, <1>3, <1>5, <1>6 DEF Fits, Placed, Steps, BootHeld, IdentHeld, Working,
       Commanded, Addressed, Aimed, Staged, Enqueuing, Cleared, Fresh, Permitted, Asked, Running,
       NoCommand
  <1> QED
    <2>1. cmd[p] \in Command \cup {NoCommand} /\ cmd' = [cmd EXCEPT ![p] = cmd[p]]
      BY <1>2, InInv, Unwritten
    <2> QED BY <1>1, <1>2, <1>4, <1>7, <2>1, Continues DEF Submits

\* The permission to launch is checked again, before any lock is taken.
LEMMA RequireTaskLaunchPermissionKeeps ==
  ASSUME SubInv, NEW p \in Procs, RequireTaskLaunchPermission(p)
  PROVE  SubInv'
  <1>1. /\ rows' = rows /\ cmd' = cmd /\ boot' = boot /\ ident' = ident /\ proc[p].pc = "permit"
        /\ RestTypes' /\ RecordsGrow
    BY NothingRecorded DEF RequireTaskLaunchPermission, At, queueVars
  <1>2. cmd[p] = NoCommand /\ boot[p] = "free" /\ ident[p] = "free"
        /\ proc[p].goal \in {"add", "recover"}
    BY <1>1, InInv DEF Fits, Commanded, Placed, BootHeld, IdentHeld, Working, Steps
  <1>3. CASE proc' = [proc EXCEPT ![p] = Idle]
    BY <1>1, <1>2, <1>3, Finishes, Unwritten DEF Finish, Release
  <1>4. CASE Goto(p, proc[p].goal)
    <2> DEFINE x == [proc[p] EXCEPT !.pc = proc[p].goal]
    <2>1. /\ x \in Local /\ x.pc = proc[p].goal /\ x.goal = proc[p].goal /\ x.task = proc[p].task
          /\ x.id = proc[p].id /\ proc' = [proc EXCEPT ![p] = x]
      BY <1>2, <1>4, InInv DEF Local, PCs, Goto
    <2> HIDE DEF x
    <2>2. proc'[p] = x /\ cmd'[p] = cmd[p] /\ boot'[p] = boot[p] /\ ident'[p] = ident[p]
      BY <1>1, <2>1, InInv
    <2>3. /\ proc[p].task \in Tasks /\ Fresh(p) /\ Placed(p)
          /\ proc[p].goal = "add" => Permitted(p)
      BY <1>1, <1>2, InInv DEF Fits, Placed, Permitted
    <2>4. Fits(p)'
      <3>1. Placed(p)' /\ Commanded(p)' /\ Addressed(p)' /\ Aimed(p)' /\ Staged(p)'
        BY <1>1, <1>2, <2>1, <2>2, <2>3 DEF Placed, Steps, BootHeld, IdentHeld, Working,
           Commanded, Addressed, Aimed, Staged, Enqueuing, Running, NoCommand
      <3>2. Cleared(p)' /\ Fresh(p)' /\ Asked(p)'
        BY <1>1, <1>2, <2>1, <2>2, <2>3 DEF Cleared, Fresh, Permitted, Asked, Running, NoCommand,
           RecordsGrow
      <3> QED BY <3>1, <3>2 DEF Fits
    <2> QED
      <3>1. cmd[p] \in Command \cup {NoCommand} /\ cmd' = [cmd EXCEPT ![p] = cmd[p]]
        BY <1>1, InInv, Unwritten
      <3> QED BY <1>1, <1>2, <2>1, <2>4, <3>1, Continues DEF Submits
  <1> QED BY <1>3, <1>4 DEF RequireTaskLaunchPermission

\* The staged add is handed to the daemon, under both leases.
LEMMA SubmitStagedKeeps ==
  ASSUME SubInv, NEW p \in Procs, SubmitStaged(p)
  PROVE  SubInv'
  <1> DEFINE x == [proc[p] EXCEPT !.pc = "adding"]
             c == [op |-> "add", task |-> proc[p].task, targets |-> {}, stage |-> "running",
                   id |-> NoId]
  <1>1. /\ rows' = rows /\ RestTypes' /\ RecordsGrow /\ proc[p].pc = "add"
        /\ Grants(boot, p, "SH") /\ Grants(ident, p, "SH") /\ Writes(p, x, c, "SH", "SH")
    BY NothingRecorded DEF SubmitStaged, At, Goto, Take, Start, Writes
  <1>2. /\ x \in Local /\ x.pc = "adding" /\ x.goal = proc[p].goal /\ x.task = proc[p].task
        /\ c \in Command \cup {NoCommand} /\ c.op = "add" /\ c.task = proc[p].task
        /\ c.targets = {} /\ c.stage = "running"
    BY InInv DEF Local, PCs, Command
  <1> HIDE DEF x, c
  <1>3. proc'[p] = x /\ cmd'[p] = c /\ boot'[p] = "SH" /\ ident'[p] = "SH"
    BY <1>1, InInv DEF Writes
  <1>4. proc[p].goal = "add" /\ proc[p].task \in Tasks /\ Fresh(p) /\ Permitted(p)
    BY <1>1, InInv DEF Fits, Placed, Steps, Permitted
  <1>5. Placed(p)' /\ Commanded(p)' /\ Addressed(p)' /\ Aimed(p)'
    BY <1>2, <1>3, <1>4 DEF Placed, Steps, BootHeld, IdentHeld, Working, Commanded, Addressed,
       Aimed
  <1>6. Staged(p)' /\ Cleared(p)' /\ Fresh(p)' /\ Asked(p)'
    BY <1>1, <1>2, <1>3, <1>4 DEF Staged, Enqueuing, Cleared, Fresh, Permitted, Asked,
       RecordsGrow
  <1>7. Compatible(p, "SH", "SH") /\ Submits(p, x)
    BY <1>1, <1>2, <1>4 DEF Compatible, Grants, Submits
  <1>8. Fits(p)'
    BY <1>5, <1>6 DEF Fits
  <1> QED BY <1>1, <1>2, <1>7, <1>8, OneMoves DEF Modes

\* The answer to a staged add is read, with the ID of the row.
LEMMA StagedAddedKeeps ==
  ASSUME SubInv, NEW p \in Procs, StagedAdded(p)
  PROVE  SubInv'
  <1> DEFINE x == [proc[p] EXCEPT !.pc = "commit", !.id = cmd[p].id]
  <1>1. /\ rows' = rows /\ RestTypes' /\ RecordsGrow /\ proc[p].pc = "adding"
        /\ cmd[p].stage = "done" /\ proc' = [proc EXCEPT ![p] = x]
        /\ cmd' = [cmd EXCEPT ![p] = NoCommand] /\ boot' = boot /\ ident' = ident
    BY NothingRecorded DEF StagedAdded, At
  <1>2. proc[p].goal = "add" /\ proc[p].task \in Tasks /\ Staged(p) /\ Placed(p)
        /\ proc[p].task \in submit
    BY <1>1, InInv DEF Fits, Placed, Steps, Fresh
  <1>3. cmd[p].id \in Ids /\ rows[cmd[p].id] = [task |-> proc[p].task, state |-> "stashed"]
    BY <1>1, <1>2 DEF Staged
  <1>4. /\ x \in Local /\ x.pc = "commit" /\ x.goal = "add" /\ x.task = proc[p].task
        /\ x.id = cmd[p].id
    BY <1>2, <1>3, InInv DEF Local, PCs
  <1> HIDE DEF x
  <1>5. proc'[p] = x /\ cmd'[p] = NoCommand /\ boot'[p] = boot[p] /\ ident'[p] = ident[p]
    BY <1>1, InInv
  <1>6. Placed(p)' /\ Commanded(p)' /\ Addressed(p)' /\ Aimed(p)'
    BY <1>1, <1>2, <1>4, <1>5 DEF Placed, Steps, BootHeld, IdentHeld, Working, Commanded,
       Addressed, Aimed, Running, NoCommand
  <1>7. Staged(p)' /\ Cleared(p)' /\ Fresh(p)' /\ Asked(p)'
    BY <1>1, <1>2, <1>3, <1>4, <1>5 DEF Staged, Enqueuing, Running, NoCommand, Cleared, Fresh,
       Permitted, Asked, RecordsGrow
  <1>8. Fits(p)' /\ Submits(p, x)
    BY <1>2, <1>4, <1>6, <1>7 DEF Fits, Submits
  <1> QED BY <1>1, <1>4, <1>8, Continues

\* The receipt is committed with the ID its row got, or refused for another one.
LEMMA CommitReceiptKeeps ==
  ASSUME SubInv, NEW p \in Procs, CommitReceipt(p)
  PROVE  SubInv'
  <1>1. /\ rows' = rows /\ proc[p].pc = "commit"
        /\ UNCHANGED <<callbacks, submit, stops, published, tickets, events, crashes, passes>>
    BY DEF CommitReceipt, At, eventVars
  <1>2. /\ proc[p].goal \in {"add", "recover"} /\ proc[p].task \in Tasks /\ Staged(p)
        /\ Placed(p) /\ cmd[p] = NoCommand
        /\ proc[p].goal = "add" => proc[p].task \in submit
    BY <1>1, InInv DEF Fits, Placed, Steps, Fresh, Commanded
  <1>3. /\ proc[p].id \in Ids /\ rows[proc[p].id] = [task |-> proc[p].task, state |-> "stashed"]
    BY <1>1, <1>2 DEF Staged
  <1>4. CASE Finish(p) /\ UNCHANGED receipt
    <2>1. RestTypes' /\ RecordsGrow
      BY <1>1, <1>4, NothingRecorded DEF taskVars, eventVars
    <2> QED BY <1>1, <1>4, <2>1, Finishes
  <1>5. CASE /\ receipt' = [receipt EXCEPT ![proc[p].task] = proc[p].id]
             /\ Goto(p, "register") /\ UNCHANGED <<boot, ident, cmd>>
    <2> DEFINE x == [proc[p] EXCEPT !.pc = "register"]
    <2>1. /\ x \in Local /\ x.pc = "register" /\ x.goal = proc[p].goal /\ x.task = proc[p].task
          /\ x.id = proc[p].id /\ proc' = [proc EXCEPT ![p] = x]
      BY <1>5, InInv DEF Local, PCs, Goto
    <2> HIDE DEF x
    <2>2. /\ proc'[p] = x /\ cmd' = [cmd EXCEPT ![p] = NoCommand] /\ cmd'[p] = NoCommand
          /\ boot'[p] = boot[p] /\ ident'[p] = ident[p] /\ boot' = boot /\ ident' = ident
      BY <1>2, <1>5, <2>1, InInv
    <2>3. \A i \in Ids : rows[i] # NoRow /\ rows[i].task = proc[p].task => i = proc[p].id
      BY <1>3 DEF SubInv, OneRowPerTask, NoRow
    <2>4. receipt'[proc[p].task] = proc[p].id
      BY <1>2, <1>5, InInv DEF RestTypes
    <2>5. RestTypes' /\ RecordsGrow
      <3>1. \A t \in Tasks : t # proc[p].task => receipt'[t] = receipt[t]
        BY <1>5, InInv DEF RestTypes
      <3> QED BY <1>1, <1>2, <1>3, <1>5, <2>3, <2>4, <3>1, InInv DEF RestTypes, RecordsGrow
    <2>6. Placed(p)' /\ Commanded(p)' /\ Addressed(p)' /\ Aimed(p)'
      BY <1>1, <1>2, <2>1, <2>2 DEF Placed, Steps, BootHeld, IdentHeld, Working, Commanded,
         Addressed, Aimed, Running, NoCommand
    <2>7. Staged(p)' /\ Cleared(p)' /\ Fresh(p)' /\ Asked(p)'
      BY <1>1, <1>2, <1>3, <2>1, <2>2, <2>4 DEF Staged, Enqueuing, Running, NoCommand, Cleared,
         Fresh, Permitted, Asked
    <2>8. Fits(p)' /\ Submits(p, x)
      BY <2>1, <2>6, <2>7 DEF Fits, Submits
    <2> QED BY <1>1, <2>1, <2>2, <2>5, <2>8, Continues
  <1> QED BY <1>4, <1>5 DEF CommitReceipt

\* The terminal event is registered for the committed ID.
LEMMA RegisterTerminalEventKeeps ==
  ASSUME SubInv, NEW p \in Procs, RegisterTerminalEvent(p)
  PROVE  SubInv'
  <1> DEFINE x == [proc[p] EXCEPT !.pc = "enqueue"]
  <1>1. /\ rows' = rows /\ proc[p].pc = "register" /\ tickets' = tickets \cup {proc[p].id}
        /\ events' = events \ {proc[p].id} /\ proc' = [proc EXCEPT ![p] = x]
        /\ UNCHANGED <<callbacks, boot, ident, cmd, submit, receipt, stops, published, crashes,
                       passes>>
    BY DEF RegisterTerminalEvent, At, queueVars, taskVars, WriteTicket, Goto
  <1>2. /\ proc[p].goal \in {"add", "recover"} /\ proc[p].task \in Tasks /\ Staged(p)
        /\ Placed(p) /\ cmd[p] = NoCommand
        /\ proc[p].goal = "add" => proc[p].task \in submit
    BY <1>1, InInv DEF Fits, Placed, Steps, Fresh, Commanded
  <1>3. /\ proc[p].id \in Ids /\ rows[proc[p].id] = [task |-> proc[p].task, state |-> "stashed"]
        /\ receipt[proc[p].task] = proc[p].id
    BY <1>1, <1>2 DEF Staged
  <1>4. /\ x \in Local /\ x.pc = "enqueue" /\ x.goal = proc[p].goal /\ x.task = proc[p].task
        /\ x.id = proc[p].id
    BY InInv DEF Local, PCs
  <1> HIDE DEF x
  <1>5. /\ proc'[p] = x /\ cmd' = [cmd EXCEPT ![p] = NoCommand] /\ cmd'[p] = NoCommand
        /\ boot'[p] = boot[p] /\ ident'[p] = ident[p]
    BY <1>1, <1>2, InInv
  <1>6. RestTypes' /\ RecordsGrow
    BY <1>1, <1>3, InInv DEF RestTypes, RecordsGrow
  <1>7. Placed(p)' /\ Commanded(p)' /\ Addressed(p)' /\ Aimed(p)'
    BY <1>1, <1>2, <1>4, <1>5 DEF Placed, Steps, BootHeld, IdentHeld, Working, Commanded,
       Addressed, Aimed, Running, NoCommand
  <1>8. Staged(p)' /\ Cleared(p)' /\ Fresh(p)' /\ Asked(p)'
    BY <1>1, <1>2, <1>3, <1>4, <1>5 DEF Staged, Enqueuing, Running, NoCommand, Cleared,
       Fresh, Permitted, Asked
  <1>9. Fits(p)' /\ Submits(p, x)
    BY <1>4, <1>7, <1>8 DEF Fits, Submits
  <1> QED BY <1>1, <1>4, <1>5, <1>6, <1>9, Continues

\* The daemon is asked to enqueue the staged row.
LEMMA EnqueueStagedKeeps ==
  ASSUME SubInv, NEW p \in Procs, EnqueueStaged(p)
  PROVE  SubInv'
  <1> DEFINE x == [proc[p] EXCEPT !.pc = "enqueuing"]
             g == [id |-> proc[p].id, task |-> proc[p].task]
             c == [op |-> "enqueue", task |-> proc[p].task, targets |-> {g},
                   stage |-> "running", id |-> NoId]
  <1>1. /\ rows' = rows /\ RestTypes' /\ RecordsGrow /\ proc[p].pc = "enqueue"
        /\ proc' = [proc EXCEPT ![p] = x] /\ cmd' = [cmd EXCEPT ![p] = c]
        /\ boot' = boot /\ ident' = ident
        /\ UNCHANGED <<submit, receipt, stops, published, tickets>>
    BY NothingRecorded DEF EnqueueStaged, At, Goto, Start, taskVars, eventVars
  <1>2. /\ proc[p].goal \in {"add", "recover"} /\ proc[p].task \in Tasks /\ Staged(p)
        /\ Placed(p)
        /\ proc[p].goal = "add" => proc[p].task \in submit
    BY <1>1, InInv DEF Fits, Placed, Steps, Fresh
  <1>3. /\ proc[p].id \in Ids /\ rows[proc[p].id] = [task |-> proc[p].task, state |-> "stashed"]
        /\ receipt[proc[p].task] = proc[p].id /\ proc[p].id \in tickets
    BY <1>1, <1>2 DEF Staged, Enqueuing
  <1>4. /\ x \in Local /\ x.pc = "enqueuing" /\ x.goal = proc[p].goal /\ x.task = proc[p].task
        /\ x.id = proc[p].id /\ c \in Command \cup {NoCommand} /\ c.op = "enqueue"
        /\ c.targets = {g} /\ c.stage = "running" /\ g.id = proc[p].id /\ g.task = proc[p].task
    BY <1>2, <1>3, InInv DEF Local, PCs, Command, Target
  <1>5. c.targets = {[id |-> proc[p].id, task |-> proc[p].task]}
    OBVIOUS
  <1> HIDE DEF x, c, g
  <1>6. proc'[p] = x /\ cmd'[p] = c /\ boot'[p] = boot[p] /\ ident'[p] = ident[p]
    BY <1>1, InInv
  <1>7. Placed(p)' /\ Commanded(p)' /\ Addressed(p)' /\ Aimed(p)'
    <2>1. rows[g.id] # NoRow /\ rows[g.id].task = g.task
      BY <1>3, <1>4 DEF NoRow
    <2> QED BY <1>1, <1>2, <1>4, <1>5, <1>6, <2>1 DEF Placed, Steps, BootHeld, IdentHeld, Working,
         Commanded, Addressed, Aimed, Running
  <1>8. Staged(p)' /\ Cleared(p)' /\ Fresh(p)' /\ Asked(p)'
    BY <1>1, <1>2, <1>3, <1>4, <1>6 DEF Staged, Enqueuing, Running, Cleared, Fresh, Permitted,
       Asked
  <1>9. Fits(p)' /\ Submits(p, x)
    BY <1>4, <1>7, <1>8 DEF Fits, Submits
  <1> QED BY <1>1, <1>4, <1>9, Continues

\* A command concludes its operation, or the retained locks go with the command.
LEMMA CommandConcludesKeeps ==
  ASSUME SubInv, NEW p \in Procs, CommandConcludes(p) \/ ReleaseRetained(p)
  PROVE  SubInv'
  <1>1. /\ rows' = rows /\ Finish(p)
        /\ UNCHANGED callbacks /\ UNCHANGED <<taskVars, eventVars, crashes, passes>>
    BY DEF CommandConcludes, ReleaseRetained
  <1>2. RestTypes' /\ RecordsGrow
    BY <1>1, NothingRecorded
  <1> QED BY <1>1, <1>2, Finishes

\* The caller of a running command gives up on it or dies, and leaves it behind.
LEMMA LeavesBehind ==
  ASSUME SubInv, NEW p \in Procs, Running(p), Goto(p, "retain"), rows' = rows,
         UNCHANGED <<boot, ident, cmd, taskVars, tickets, callbacks>>, RestTypes', RecordsGrow
  PROVE  SubInv'
  <1> DEFINE x == [proc[p] EXCEPT !.pc = "retain"]
  <1>1. /\ x \in Local /\ x.pc = "retain" /\ x.goal = proc[p].goal /\ x.task = proc[p].task
        /\ x.id = proc[p].id /\ x.plan = proc[p].plan /\ proc' = [proc EXCEPT ![p] = x]
    BY InInv DEF Local, PCs, Goto
  <1> HIDE DEF x
  <1>2. /\ proc'[p] = x /\ cmd'[p] = cmd[p] /\ boot'[p] = boot[p] /\ ident'[p] = ident[p]
        /\ Running(p)' /\ cmd[p] \in Command \cup {NoCommand} /\ cmd' = [cmd EXCEPT ![p] = cmd[p]]
    BY <1>1, InInv, Unwritten DEF Running
  <1>3. /\ proc[p].pc \in {"adding", "enqueuing", "stopping", "removing", "retain"}
        /\ cmd[p] # NoCommand /\ cmd[p].op # "none" /\ Fits(p)
    BY InInv DEF Fits, Commanded, Running, NoCommand
  <1>4. Placed(p)'
    BY <1>1, <1>2, <1>3 DEF Fits, Placed, Steps, BootHeld, IdentHeld, Working
  <1>5. Commanded(p)' /\ Addressed(p)'
    BY <1>1, <1>2, <1>3 DEF Commanded, Fits, Addressed
  <1>6. Aimed(p)' /\ Cleared(p)' /\ Asked(p)'
    BY <1>1, <1>2, <1>3 DEF Fits, Aimed, Cleared, Asked, taskVars
  <1>7. Staged(p)' /\ Fresh(p)'
    BY <1>1, <1>2, <1>3 DEF Fits, Staged, Fresh, Enqueuing, Permitted, taskVars
  <1>8. Fits(p)' /\ Submits(p, x)
    BY <1>1, <1>4, <1>5, <1>6, <1>7 DEF Fits, Submits
  <1> QED BY <1>1, <1>2, <1>8, Continues

\* The observation deadline passes: the locks stay with the pending command.
LEMMA CommandPendingKeeps ==
  ASSUME SubInv, NEW p \in Procs, CommandPending(p)
  PROVE  SubInv'
  <1>1. RestTypes' /\ RecordsGrow
    BY NothingRecorded DEF CommandPending, queueVars
  <1> QED BY <1>1, LeavesBehind DEF CommandPending, queueVars, eventVars

\* A process dies; a command it has sent is still under way and keeps the locks.
LEMMA CrashKeeps ==
  ASSUME SubInv, NEW p \in Procs, Crash(p), Bounds
  PROVE  SubInv'
  <1>1. RestTypes' /\ RecordsGrow
    <2>1. crashes + 1 \in 0..MaxCrashes
      BY InInv DEF Crash, RestTypes, Bounds
    <2> QED BY <2>1, InInv DEF Crash, RestTypes, RecordsGrow, taskVars, eventVars
  <1>2. CASE Running(p) BY <1>1, <1>2, LeavesBehind DEF Crash, eventVars
  <1>3. CASE ~ Running(p) BY <1>1, <1>3, Finishes DEF Crash
  <1> QED BY <1>2, <1>3

\* A command fails.
LEMMA CommandFailsKeeps ==
  ASSUME SubInv, NEW p \in Procs, CommandFails(p),
         UNCHANGED <<proc, taskVars, eventVars, crashes, passes>>
  PROVE  SubInv'
  <1> DEFINE c == [cmd[p] EXCEPT !.stage = "failed"]
  <1>1. /\ rows' = rows /\ Running(p) /\ cmd' = [cmd EXCEPT ![p] = c] /\ RestTypes'
        /\ RecordsGrow /\ proc' = proc /\ boot' = boot /\ ident' = ident
        /\ UNCHANGED <<submit, receipt, stops, published, tickets>>
    BY NothingRecorded DEF CommandFails, taskVars, eventVars
  <1>2. /\ c \in Command \cup {NoCommand} /\ c.stage = "failed" /\ c.op = cmd[p].op
        /\ c.task = cmd[p].task /\ c.targets = cmd[p].targets
    BY <1>1, InInv DEF Running, NoCommand, Command
  <1> HIDE DEF c
  <1>3. /\ proc'[p] = proc[p] /\ cmd'[p] = c /\ boot'[p] = boot[p] /\ ident'[p] = ident[p]
        /\ ~ Running(p)'
    BY <1>1, <1>2, InInv DEF Running
  <1>4. /\ proc[p].pc \in {"adding", "enqueuing", "stopping", "removing", "retain"}
        /\ Fits(p) /\ cmd[p].op # "none"
    BY <1>1, InInv DEF Fits, Commanded, Running, NoCommand
  <1>5. Placed(p)'
    BY <1>3, <1>4 DEF Fits, Placed, Steps, BootHeld, IdentHeld, Working
  <1>6. Commanded(p)' /\ Addressed(p)'
    BY <1>2, <1>3, <1>4 DEF Commanded, Fits, Addressed
  <1>7. Aimed(p)' /\ Cleared(p)' /\ Asked(p)' /\ Staged(p)' /\ Fresh(p)'
    BY <1>1, <1>2, <1>3, <1>4 DEF Fits, Aimed, Cleared, Asked, Staged, Enqueuing, Fresh,
       Permitted
  <1>8. Fits(p)'
    BY <1>5, <1>6, <1>7 DEF Fits
  <1>9. PICK x \in Local : x = proc[p]
    BY InInv
  <1>10. proc' = [proc EXCEPT ![p] = x] /\ Submits(p, x)
    BY <1>1, <1>9, Unwritten DEF Submits
  <1> QED BY <1>1, <1>2, <1>8, <1>10, Continues

\* What a lookup by label finds.
LEMMA Found ==
  ASSUME SubInv, NEW t \in Tasks, NEW expected, NEW i \in Matches(t, expected)
  PROVE  i \in Ids /\ rows[i] \in Row /\ rows[i].task = t /\ expected \in {NoId, i}
  BY DEF SubInv, TypeOK, QueueTypeOK, Matches

\* A later caller finds the stashed row of a task that was submitted before.
LEMMA ReconcileSubmittedKeeps ==
  ASSUME SubInv, NEW p \in Procs, NEW t \in Tasks, ReconcileSubmitted(p, t)
  PROVE  SubInv'
  <1>1. PICK i \in Matches(t, receipt[t]) :
          proc' = [proc EXCEPT ![p] = [Idle EXCEPT !.pc = "permit", !.goal = "recover",
                                                   !.task = t, !.id = i]]
    BY DEF ReconcileSubmitted
  <1> DEFINE x == [Idle EXCEPT !.pc = "permit", !.goal = "recover", !.task = t, !.id = i]
  <1>2. i \in Ids
    BY Found
  <1>3. /\ x \in Local /\ x.pc = "permit" /\ x.goal = "recover" /\ x.task = t /\ x.id = i
        /\ proc' = [proc EXCEPT ![p] = x]
    BY <1>1, <1>2 DEF Idle, Local, PCs
  <1>4. /\ rows' = rows /\ RestTypes' /\ RecordsGrow /\ proc[p].pc = "idle" /\ cmd' = cmd
        /\ boot' = boot /\ ident' = ident
    BY NothingRecorded DEF ReconcileSubmitted, At, queueVars
  <1> HIDE DEF x
  <1>5. cmd[p] = NoCommand /\ boot[p] = "free" /\ ident[p] = "free"
    BY <1>4, InInv DEF Fits, Commanded, Placed, BootHeld, IdentHeld, Working, Steps
  <1>6. /\ proc'[p] = x /\ cmd'[p] = NoCommand /\ boot'[p] = "free" /\ ident'[p] = "free"
        /\ cmd' = [cmd EXCEPT ![p] = NoCommand]
    BY <1>3, <1>4, <1>5, InInv
  <1>7. Placed(p)' /\ Commanded(p)' /\ Addressed(p)' /\ Aimed(p)'
    BY <1>2, <1>3, <1>6 DEF Placed, Steps, BootHeld, IdentHeld, Working, Commanded, Addressed,
       Aimed, Running, NoCommand
  <1>8. Staged(p)' /\ Cleared(p)' /\ Fresh(p)' /\ Asked(p)'
    BY <1>3, <1>6 DEF Staged, Enqueuing, Running, NoCommand, Cleared, Fresh, Permitted, Asked
  <1>9. Fits(p)' /\ Submits(p, x)
    BY <1>3, <1>7, <1>8 DEF Fits, Submits
  <1> QED BY <1>3, <1>4, <1>6, <1>9, Continues

\* The row is looked up again under the locks, and taken up if it is still stashed.
LEMMA RecoverStagedKeeps ==
  ASSUME SubInv, NEW p \in Procs, RecoverStaged(p), Bounds
  PROVE  SubInv'
  <1>1. /\ rows' = rows /\ RestTypes' /\ RecordsGrow /\ proc[p].pc = "recover"
        /\ UNCHANGED <<submit, receipt, stops, published, tickets>>
    BY NothingRecorded DEF RecoverStaged, At, taskVars, eventVars
  <1>2. CASE Finish(p) BY <1>1, <1>2, Finishes
  <1>3. CASE /\ \E i \in Matches(proc[p].task, proc[p].id) : rows[i].state = "stashed"
             /\ Take(p, "SH", "EX") /\ Goto(p, "commit") /\ UNCHANGED cmd
    <2> DEFINE x == [proc[p] EXCEPT !.pc = "commit"]
    <2>1. /\ x \in Local /\ x.pc = "commit" /\ x.goal = proc[p].goal /\ x.task = proc[p].task
          /\ x.id = proc[p].id /\ proc' = [proc EXCEPT ![p] = x]
      BY <1>3, InInv DEF Local, PCs, Goto
    <2> HIDE DEF x
    <2>2. /\ proc[p].goal = "recover" /\ proc[p].task \in Tasks /\ proc[p].id \in Ids
          /\ cmd[p] = NoCommand
      BY <1>1, InInv DEF Fits, Placed, Commanded, Steps
    <2>3. rows[proc[p].id] = [task |-> proc[p].task, state |-> "stashed"]
      <3>1. PICK i \in Matches(proc[p].task, proc[p].id) : rows[i].state = "stashed"
        BY <1>3
      <3>2. i = proc[p].id /\ rows[i] \in Row /\ rows[i].task = proc[p].task
        BY <2>2, Found DEF Bounds
      <3> QED BY <3>1, <3>2 DEF Row
    <2>4. /\ Grants(boot, p, "SH") /\ Grants(ident, p, "EX")
          /\ boot' = [boot EXCEPT ![p] = "SH"] /\ ident' = [ident EXCEPT ![p] = "EX"]
          /\ cmd' = [cmd EXCEPT ![p] = NoCommand]
      BY <1>3, <2>2, InInv DEF Take
    <2>5. proc'[p] = x /\ cmd'[p] = NoCommand /\ boot'[p] = "SH" /\ ident'[p] = "EX"
      BY <2>1, <2>4, InInv
    <2>6. Placed(p)' /\ Commanded(p)' /\ Addressed(p)' /\ Aimed(p)'
      BY <2>1, <2>2, <2>5 DEF Placed, Steps, BootHeld, IdentHeld, Working, Commanded, Addressed,
         Aimed, Running, NoCommand
    <2>7. Staged(p)' /\ Cleared(p)' /\ Fresh(p)' /\ Asked(p)'
      BY <1>1, <2>1, <2>2, <2>3, <2>5 DEF Staged, Enqueuing, Running, NoCommand, Cleared, Fresh,
         Permitted, Asked
    <2>8. Fits(p)' /\ Submits(p, x)
      BY <2>1, <2>2, <2>6, <2>7 DEF Fits, Submits
    <2>9. Compatible(p, "SH", "EX") /\ Writes(p, x, NoCommand, "SH", "EX")
      BY <2>1, <2>4 DEF Compatible, Grants, Writes
    <2> QED BY <1>1, <2>1, <2>8, <2>9, OneMoves DEF Modes
  <1> QED BY <1>2, <1>3 DEF RecoverStaged

\* Nobody takes a step.
LEMMA NobodyMoves ==
  ASSUME SubInv, rows' = rows, RestTypes', RecordsGrow, UNCHANGED <<proc, cmd, boot, ident>>
  PROVE  SubInv'
  <1>1. ProcTypes
    BY DEF SubInv, TypeOK, QueueTypeOK, ProcTypes
  <1>2. Moves({})
    BY <1>1 DEF Moves, ProcTypes, Stays
  <1> QED BY <1>2, MovesKeep

\* An idle process has nothing.
LEMMA IdleHasNothing ==
  ASSUME SubInv, NEW p \in Procs, proc[p].pc = "idle"
  PROVE  cmd[p] = NoCommand /\ boot[p] = "free" /\ ident[p] = "free"
  BY InInv DEF Fits, Commanded, Placed, BootHeld, IdentHeld, Working, Steps

\* A stop is recorded, with the numeric ID of the receipt if there is one.
LEMMA PrepareStopKeeps ==
  ASSUME SubInv, NEW p \in Procs, NEW t \in Tasks, PrepareStop(p, t), Bounds
  PROVE  SubInv'
  <1>1. /\ rows' = rows /\ proc[p].pc = "idle" /\ stops[t] < MaxStops
        /\ stops' = [stops EXCEPT ![t] = stops[t] + 1]
        /\ UNCHANGED <<callbacks, boot, ident, cmd, submit, receipt, published, tickets, events,
                       crashes, passes>>
    BY DEF PrepareStop, At, queueVars, eventVars
  <1>2. RestTypes' /\ RecordsGrow /\ stops'[t] > 0
    <2>1. stops \in [Tasks -> 0..MaxStops] /\ stops[t] + 1 \in 0..MaxStops /\ stops[t] + 1 > 0
      BY <1>1, InInv DEF RestTypes, Bounds
    <2>2. \A u \in Tasks : stops[u] > 0 => stops'[u] > 0
      BY <1>1, <2>1
    <2> QED BY <1>1, <2>1, <2>2, InInv DEF RestTypes, RecordsGrow
  <1>3. cmd[p] = NoCommand /\ boot[p] = "free" /\ ident[p] = "free"
    BY <1>1, IdleHasNothing
  <1>4. /\ cmd' = [cmd EXCEPT ![p] = NoCommand] /\ boot' = [boot EXCEPT ![p] = "free"]
        /\ ident' = [ident EXCEPT ![p] = "free"]
    BY <1>1, <1>3, InInv
  <1>5. CASE proc' = [proc EXCEPT ![p] = Idle]
    BY <1>1, <1>2, <1>4, <1>5, Finishes DEF Finish, Release
  <1>6. CASE UNCHANGED proc BY <1>1, <1>2, <1>6, NobodyMoves
  <1>7. CASE proc' = [proc EXCEPT ![p] = [Idle EXCEPT !.pc = "stop", !.goal = "stop", !.task = t,
                                                      !.id = receipt[t]]]
    <2> DEFINE x == [Idle EXCEPT !.pc = "stop", !.goal = "stop", !.task = t, !.id = receipt[t]]
    <2>1. /\ x \in Local /\ x.pc = "stop" /\ x.goal = "stop" /\ x.task = t
          /\ proc' = [proc EXCEPT ![p] = x]
      BY <1>7, InInv DEF Idle, Local, PCs, RestTypes
    <2> HIDE DEF x
    <2>2. proc'[p] = x /\ cmd'[p] = NoCommand /\ boot'[p] = "free" /\ ident'[p] = "free"
      BY <2>1, <1>4, InInv
    <2>3. Placed(p)' /\ Commanded(p)' /\ Addressed(p)' /\ Aimed(p)'
      BY <2>1, <2>2 DEF Placed, Steps, BootHeld, IdentHeld, Working, Commanded, Addressed,
         Aimed, Running, NoCommand
    <2>4. Staged(p)' /\ Cleared(p)' /\ Fresh(p)' /\ Asked(p)'
      BY <1>2, <2>1, <2>2 DEF Staged, Enqueuing, Running, NoCommand, Cleared, Fresh, Permitted,
         Asked
    <2>5. Fits(p)' /\ Submits(p, x)
      BY <2>1, <2>3, <2>4 DEF Fits, Submits
    <2> QED BY <1>1, <1>2, <1>4, <2>1, <2>5, Continues
  <1>8. CASE proc' = [proc EXCEPT ![p] =
                        IF receipt[t] = NoId THEN Idle
                        ELSE [Idle EXCEPT !.pc = "stop", !.goal = "stop", !.task = t,
                                          !.id = receipt[t]]]
    BY <1>5, <1>7, <1>8
  <1> QED BY <1>6, <1>8 DEF PrepareStop

\* A stop finds the row of its task under the lock, or none.
LEMMA StopLockedKeeps ==
  ASSUME SubInv, NEW p \in Procs, StopLocked(p)
  PROVE  SubInv'
  <1>1. /\ rows' = rows /\ RestTypes' /\ RecordsGrow /\ proc[p].pc = "stop"
        /\ UNCHANGED <<submit, receipt, stops, published, tickets>>
    BY NothingRecorded DEF StopLocked, At, taskVars, eventVars
  <1>2. CASE Finish(p) BY <1>1, <1>2, Finishes
  <1>3. ASSUME NEW i \in Matches(proc[p].task, proc[p].id), StopAction(rows[i].state) # "none",
               boot' = [boot EXCEPT ![p] = "EX"], UNCHANGED ident, Goto(p, "stopping"),
               Start(p, StopAction(rows[i].state), proc[p].task,
                     {[id |-> i, task |-> proc[p].task]})
        PROVE  SubInv'
    <2> DEFINE x == [proc[p] EXCEPT !.pc = "stopping"]
               g == [id |-> i, task |-> proc[p].task]
               c == [op |-> StopAction(rows[i].state), task |-> proc[p].task, targets |-> {g},
                     stage |-> "running", id |-> NoId]
    <2>1. /\ proc[p].goal = "stop" /\ proc[p].task \in Tasks /\ Asked(p)
          /\ boot[p] = "free" /\ ident[p] = "free"
      BY <1>1, InInv DEF Fits, Placed, Steps, BootHeld, IdentHeld, Working
    <2>2. i \in Ids /\ rows[i] \in Row /\ rows[i].task = proc[p].task
      BY <2>1, Found
    <2>3. StopAction(rows[i].state) \in {"remove", "kill"} /\ rows[i] # NoRow
      BY <1>3, <2>2 DEF StopAction, Row, NoRow
    <2>4. /\ x \in Local /\ x.pc = "stopping" /\ x.goal = "stop" /\ x.task = proc[p].task
          /\ proc' = [proc EXCEPT ![p] = x]
      BY <1>3, <2>1, InInv DEF Local, PCs, Goto
    <2>5. /\ c \in Command \cup {NoCommand} /\ c.op \in {"remove", "kill"} /\ c.targets = {g}
          /\ c.stage = "running" /\ g.id = i /\ g.task = proc[p].task
          /\ cmd' = [cmd EXCEPT ![p] = c]
      BY <1>3, <2>1, <2>2, <2>3 DEF Command, Target, Start
    <2> HIDE DEF x, c, g
    <2>6. proc'[p] = x /\ cmd'[p] = c /\ boot'[p] = "EX" /\ ident'[p] = "free"
      BY <1>3, <2>1, <2>4, <2>5, InInv
    <2>7. Placed(p)' /\ Commanded(p)' /\ Addressed(p)' /\ Aimed(p)'
      BY <1>1, <2>1, <2>2, <2>3, <2>4, <2>5, <2>6 DEF Placed, Steps, BootHeld, IdentHeld,
         Working, Commanded, Addressed, Aimed, Running
    <2>8. Staged(p)' /\ Cleared(p)' /\ Fresh(p)' /\ Asked(p)'
      BY <1>1, <2>1, <2>4, <2>5, <2>6 DEF Staged, Enqueuing, Running, Cleared, Fresh, Permitted,
         Asked
    <2>9. Fits(p)' /\ Submits(p, x)
      BY <2>4, <2>7, <2>8 DEF Fits, Submits
    <2>10. Compatible(p, "EX", "free")
      BY <1>1, <2>1, LocksStand DEF Compatible, Grants, StopLocked
    <2>11. Writes(p, x, c, "EX", "free")
      BY <1>3, <2>1, <2>4, <2>5, InInv DEF Writes
    <2> QED BY <1>1, <2>4, <2>5, <2>9, <2>10, <2>11, OneMoves DEF Modes
  <1> QED BY <1>2, <1>3 DEF StopLocked

\* A process with nothing to enqueue or clear that is about no task in particular.
LEMMA Unconcerned ==
  ASSUME NEW p \in Procs, cmd'[p] = NoCommand,
         proc'[p].pc \in {"capture", "remove", "stale"}, proc'[p].goal \in {"pass", "bootstrap"}
  PROVE  Commanded(p)' /\ Addressed(p)' /\ Aimed(p)' /\ Staged(p)' /\ Cleared(p)' /\ Fresh(p)'
         /\ Asked(p)'
  BY DEF Commanded, Addressed, Aimed, Staged, Enqueuing, Running, NoCommand, Cleared, Fresh,
     Permitted, Asked

\* A cleanup pass begins.
LEMMA BeginCleanupKeeps ==
  ASSUME SubInv, NEW p \in Procs, BeginCleanup(p), Bounds
  PROVE  SubInv'
  <1>1. /\ rows' = rows /\ proc[p].pc = "idle" /\ passes < MaxPasses /\ passes' = passes + 1
        /\ UNCHANGED <<callbacks, ident, cmd, submit, receipt, stops, published, tickets, events,
                       crashes>>
    BY DEF BeginCleanup, At, taskVars, eventVars
  <1>2. RestTypes' /\ RecordsGrow
    BY <1>1, InInv DEF RestTypes, RecordsGrow, Bounds
  <1>3. cmd[p] = NoCommand /\ boot[p] = "free" /\ ident[p] = "free"
    BY <1>1, IdleHasNothing
  <1>4. /\ cmd' = [cmd EXCEPT ![p] = NoCommand] /\ cmd'[p] = NoCommand
        /\ ident' = [ident EXCEPT ![p] = "free"] /\ ident'[p] = "free"
    BY <1>1, <1>3, InInv
  <1>5. ASSUME NEW goal \in {"pass", "bootstrap"}, NEW b \in Modes,
               proc' = [proc EXCEPT ![p] = [Idle EXCEPT !.pc = "capture", !.goal = goal]],
               boot' = [boot EXCEPT ![p] = b],
               b = IF goal = "bootstrap" THEN "EX" ELSE "free",
               goal = "bootstrap" => Grants(boot, p, "EX")
        PROVE  SubInv'
    <2> DEFINE x == [Idle EXCEPT !.pc = "capture", !.goal = goal]
    <2>1. x \in Local /\ x.pc = "capture" /\ x.goal = goal /\ proc' = [proc EXCEPT ![p] = x]
      BY <1>5 DEF Idle, Local, PCs
    <2> HIDE DEF x
    <2>2. proc'[p] = x /\ boot'[p] = b
      BY <1>5, <2>1, InInv
    <2>3. Placed(p)'
      BY <1>4, <1>5, <2>1, <2>2 DEF Placed, Steps, BootHeld, IdentHeld, Working
    <2>4. Fits(p)' /\ Submits(p, x)
      BY <1>4, <2>1, <2>2, <2>3, Unconcerned DEF Fits, Submits
    <2>5. Compatible(p, b, "free")
      BY <1>5 DEF Compatible, Grants
    <2>6. Writes(p, x, NoCommand, b, "free")
      BY <1>4, <1>5, <2>1 DEF Writes
    <2> QED BY <1>1, <1>2, <2>1, <2>4, <2>5, <2>6, OneMoves DEF Modes
  <1>6. boot = [boot EXCEPT ![p] = "free"]
    BY <1>3, InInv
  <1>7. "pass" # "bootstrap" /\ "free" \in Modes /\ "EX" \in Modes
    BY DEF Modes
  <1> QED BY <1>5, <1>6, <1>7 DEF BeginCleanup

\* A cleanup at one of its steps.
LEMMA Cleaning ==
  ASSUME SubInv, NEW p \in Procs,
         proc[p].pc \in {"capture", "remove", "removing", "clear", "stale"}
  PROVE  proc[p].goal \in {"pass", "bootstrap"} /\ Fits(p) /\ Placed(p)
  <1>1. /\ Fits(p) /\ Placed(p) /\ proc[p].pc \in Steps(proc[p].goal)
        /\ proc[p].goal \in {"none", "add", "recover", "stop", "pass", "bootstrap"}
    BY InInv DEF Fits, Placed, Local
  <1> QED BY <1>1 DEF Steps

\* A cleanup captures the rows it may remove.
LEMMA CapturePrivateCleanupKeeps ==
  ASSUME SubInv, NEW p \in Procs, CapturePrivateCleanup(p)
  PROVE  SubInv'
  <1>1. PICK scope \in {Ids, EventRows} :
          proc' = [proc EXCEPT ![p].pc = "remove", ![p].plan = Candidates(scope)]
    BY DEF CapturePrivateCleanup
  <1> DEFINE x == [proc[p] EXCEPT !.pc = "remove", !.plan = Candidates(scope)]
  <1>2. /\ x \in Local /\ x.pc = "remove" /\ x.goal = proc[p].goal /\ x.task = proc[p].task
        /\ x.id = proc[p].id /\ proc' = [proc EXCEPT ![p] = x]
    BY <1>1, InInv DEF Local, PCs, Candidates
  <1>3. /\ rows' = rows /\ RestTypes' /\ RecordsGrow /\ proc[p].pc = "capture"
        /\ boot' = boot /\ ident' = ident /\ cmd' = cmd
    BY NothingRecorded DEF CapturePrivateCleanup, At, queueVars
  <1> HIDE DEF x
  <1>4. /\ proc[p].goal \in {"pass", "bootstrap"} /\ cmd[p] = NoCommand /\ Placed(p)
    BY <1>3, Cleaning DEF Fits, Commanded
  <1>5. /\ proc'[p] = x /\ cmd'[p] = NoCommand /\ boot'[p] = boot[p] /\ ident'[p] = ident[p]
        /\ cmd' = [cmd EXCEPT ![p] = NoCommand]
    BY <1>2, <1>3, <1>4, InInv
  <1>6. Placed(p)'
    BY <1>2, <1>3, <1>4, <1>5 DEF Placed, Steps, BootHeld, IdentHeld, Working
  <1>7. Fits(p)' /\ Submits(p, x)
    BY <1>2, <1>4, <1>5, <1>6, Unconcerned DEF Fits, Submits
  <1> QED BY <1>2, <1>3, <1>5, <1>7, Continues

\* The captured rows that are still authorized are asked to be removed.
LEMMA RemoveCapturedKeeps ==
  ASSUME SubInv, NEW p \in Procs, RemoveCaptured(p)
  PROVE  SubInv'
  <1> DEFINE plan == {g \in proc[p].plan : Authorized(g)}
  <1>1. /\ rows' = rows /\ RestTypes' /\ RecordsGrow /\ proc[p].pc = "remove"
        /\ UNCHANGED <<submit, receipt, stops, published, tickets>>
    BY NothingRecorded DEF RemoveCaptured, At, taskVars, eventVars
  <1>2. /\ proc[p].goal \in {"pass", "bootstrap"} /\ cmd[p] = NoCommand /\ Placed(p)
    BY <1>1, Cleaning DEF Fits, Commanded
  <1>3. CASE /\ proc' = [proc EXCEPT ![p].pc = "stale", ![p].plan = {}]
             /\ UNCHANGED <<boot, ident, cmd>>
    <2> DEFINE x == [proc[p] EXCEPT !.pc = "stale", !.plan = {}]
    <2>1. /\ x \in Local /\ x.pc = "stale" /\ x.goal = proc[p].goal
          /\ proc' = [proc EXCEPT ![p] = x]
      BY <1>3, InInv DEF Local, PCs
    <2> HIDE DEF x
    <2>2. /\ proc'[p] = x /\ cmd'[p] = NoCommand /\ boot'[p] = boot[p] /\ ident'[p] = ident[p]
          /\ cmd' = [cmd EXCEPT ![p] = NoCommand] /\ boot' = boot /\ ident' = ident
      BY <1>2, <1>3, <2>1, InInv
    <2>3. Placed(p)'
      BY <1>1, <1>2, <2>1, <2>2 DEF Placed, Steps, BootHeld, IdentHeld, Working
    <2>4. Fits(p)' /\ Submits(p, x)
      BY <1>2, <2>1, <2>2, <2>3, Unconcerned DEF Fits, Submits
    <2> QED BY <1>1, <2>1, <2>2, <2>4, Continues
  <1>4. CASE Finish(p) BY <1>1, <1>4, Finishes
  <1>5. CASE /\ StillCaptured(plan) /\ Take(p, CleanupLease(p), "EX")
             /\ Start(p, "remove", "none", plan)
             /\ proc' = [proc EXCEPT ![p].pc = "removing", ![p].plan = plan]
    <2> DEFINE x == [proc[p] EXCEPT !.pc = "removing", !.plan = plan]
               c == [op |-> "remove", task |-> "none", targets |-> plan, stage |-> "running",
                     id |-> NoId]
    <2>1. PICK b \in Modes : b = CleanupLease(p)
      BY DEF CleanupLease, Modes
    <2>2. plan \in SUBSET Target /\ \A g \in plan :
              /\ rows[g.id] = [task |-> g.task, state |-> "ended"] /\ g.task \in published
      BY <1>5, InInv DEF Local, StillCaptured, Candidates, Authorized, EndedTaskPublished
    <2>3. /\ x \in Local /\ x.pc = "removing" /\ x.goal = proc[p].goal /\ x.plan = plan
          /\ proc' = [proc EXCEPT ![p] = x]
      BY <1>5, <2>2, InInv DEF Local, PCs
    <2>4. /\ c \in Command \cup {NoCommand} /\ c.op = "remove" /\ c.targets = plan
          /\ c.stage = "running" /\ cmd' = [cmd EXCEPT ![p] = c]
      BY <1>5, <2>2 DEF Command, Start
    <2> HIDE DEF x, c, plan
    <2>5. /\ boot' = [boot EXCEPT ![p] = b] /\ ident' = [ident EXCEPT ![p] = "EX"]
          /\ Grants(boot, p, b) /\ Grants(ident, p, "EX")
      BY <1>5, <2>1 DEF Take
    <2>6. proc'[p] = x /\ cmd'[p] = c /\ boot'[p] = b /\ ident'[p] = "EX"
      BY <2>3, <2>4, <2>5, InInv
    <2>7. Placed(p)' /\ Commanded(p)' /\ Addressed(p)'
      BY <1>2, <2>1, <2>3, <2>4, <2>6 DEF Placed, Steps, BootHeld, IdentHeld, Working, Commanded,
         Addressed, CleanupLease
    <2>8. Aimed(p)'
      <3>1. \A i \in Ids, t \in Tasks : rows[i] = [task |-> t, state |-> "ended"] =>
                rows[i] # NoRow /\ rows[i].task = t /\ rows[i].state = "ended"
        BY DEF NoRow
      <3>2. \A g \in plan : /\ rows[g.id] # NoRow /\ rows[g.id].task = g.task
                            /\ rows[g.id].state = "ended" /\ g.task \in published
        BY <2>2, <3>1 DEF Target
      <3> QED BY <1>1, <2>4, <2>6, <3>2 DEF Aimed
    <2>9. Staged(p)' /\ Cleared(p)' /\ Fresh(p)' /\ Asked(p)'
      BY <1>2, <2>3, <2>4, <2>6 DEF Staged, Enqueuing, Running, Cleared, Fresh, Permitted, Asked
    <2>10. Fits(p)' /\ Submits(p, x)
      BY <1>2, <2>3, <2>7, <2>8, <2>9 DEF Fits, Submits
    <2>11. Compatible(p, b, "EX") /\ Writes(p, x, c, b, "EX")
      BY <2>1, <2>3, <2>4, <2>5 DEF Compatible, Grants, Writes, CleanupLease
    <2> QED BY <1>1, <2>3, <2>4, <2>10, <2>11, OneMoves DEF Modes
  <1> QED BY <1>3, <1>4, <1>5 DEF RemoveCaptured

\* The answer to a removal is read.
LEMMA RowsRemovedKeeps ==
  ASSUME SubInv, NEW p \in Procs, RowsRemoved(p)
  PROVE  SubInv'
  <1> DEFINE x == [proc[p] EXCEPT !.pc = "clear"]
  <1>1. /\ rows' = rows /\ RestTypes' /\ RecordsGrow /\ proc[p].pc = "removing"
        /\ cmd[p].stage = "done" /\ proc' = [proc EXCEPT ![p] = x]
        /\ cmd' = [cmd EXCEPT ![p] = NoCommand] /\ boot' = boot /\ ident' = ident
    BY NothingRecorded DEF RowsRemoved, At, Goto
  <1>2. /\ proc[p].goal \in {"pass", "bootstrap"} /\ Placed(p)
        /\ \A g \in proc[p].plan : rows[g.id] = NoRow
    BY <1>1, Cleaning DEF Fits, Cleared
  <1>3. /\ x \in Local /\ x.pc = "clear" /\ x.goal = proc[p].goal /\ x.plan = proc[p].plan
    BY InInv DEF Local, PCs
  <1> HIDE DEF x
  <1>4. proc'[p] = x /\ cmd'[p] = NoCommand /\ boot'[p] = boot[p] /\ ident'[p] = ident[p]
    BY <1>1, InInv
  <1>5. Placed(p)' /\ Commanded(p)' /\ Addressed(p)' /\ Aimed(p)'
    BY <1>1, <1>2, <1>3, <1>4 DEF Placed, Steps, BootHeld, IdentHeld, Working, Commanded,
       Addressed, Aimed, Running, NoCommand
  <1>6. Staged(p)' /\ Cleared(p)' /\ Fresh(p)' /\ Asked(p)'
    BY <1>1, <1>2, <1>3, <1>4 DEF Staged, Enqueuing, Running, NoCommand, Cleared, Fresh,
       Permitted, Asked
  <1>7. Fits(p)' /\ Submits(p, x)
    BY <1>2, <1>3, <1>5, <1>6 DEF Fits, Submits
  <1> QED BY <1>1, <1>3, <1>7, Continues

\* The tickets and events of the removed rows are dropped.
LEMMA ClearTerminalEventsKeeps ==
  ASSUME SubInv, NEW p \in Procs, ClearTerminalEvents(p)
  PROVE  SubInv'
  <1> DEFINE x == [proc[p] EXCEPT !.pc = "stale", !.plan = {}]
             ids == {g.id : g \in proc[p].plan}
  <1>1. /\ rows' = rows /\ proc[p].pc = "clear" /\ proc' = [proc EXCEPT ![p] = x]
        /\ tickets' = tickets \ ids /\ events' = events \ ids
        /\ boot' = [boot EXCEPT ![p] = BetweenPhases(p)]
        /\ ident' = [ident EXCEPT ![p] = "free"]
        /\ UNCHANGED <<callbacks, cmd, submit, receipt, stops, published, crashes, passes>>
    BY DEF ClearTerminalEvents, At, taskVars
  <1>2. /\ proc[p].goal \in {"pass", "bootstrap"} /\ Placed(p) /\ cmd[p] = NoCommand
        /\ \A g \in proc[p].plan : rows[g.id] = NoRow
    BY <1>1, Cleaning DEF Fits, Cleared, Commanded
  <1>3. /\ x \in Local /\ x.pc = "stale" /\ x.goal = proc[p].goal
    BY InInv DEF Local, PCs
  <1>4. \A i \in ids : rows[i] = NoRow
    BY <1>2
  <1> HIDE DEF x, ids
  <1>5. RestTypes' /\ RecordsGrow
    BY <1>1, <1>4, InInv DEF RestTypes, RecordsGrow
  <1>6. PICK b \in Modes : b = BetweenPhases(p)
    BY DEF BetweenPhases, Modes
  <1>7. /\ proc'[p] = x /\ cmd'[p] = NoCommand /\ boot'[p] = b /\ ident'[p] = "free"
        /\ cmd' = [cmd EXCEPT ![p] = NoCommand]
    BY <1>1, <1>2, <1>6, InInv
  <1>8. Placed(p)'
    BY <1>2, <1>3, <1>6, <1>7 DEF Placed, Steps, BootHeld, IdentHeld, Working, BetweenPhases
  <1>9. Fits(p)' /\ Submits(p, x)
    BY <1>2, <1>3, <1>7, <1>8, Unconcerned DEF Fits, Submits
  <1>10. Writes(p, x, NoCommand, b, "free")
    BY <1>1, <1>6, <1>7 DEF Writes
  <1>11. b = "free" \/ b = boot[p]
    BY <1>1, <1>2, <1>6 DEF BetweenPhases, Placed, BootHeld
  <1>12. Compatible(p, b, "free")
    BY <1>11, LocksStand DEF Compatible
  <1> QED BY <1>1, <1>3, <1>5, <1>9, <1>10, <1>12, OneMoves DEF Modes

\* Tickets and events of IDs without a row are dropped.
LEMMA ClearStaleEventsKeeps ==
  ASSUME SubInv, NEW p \in Procs, ClearStaleEvents(p)
  PROVE  SubInv'
  <1>1. PICK stale \in SUBSET Ids :
          /\ \A i \in stale : rows[i] = NoRow
          /\ tickets' = tickets \ stale /\ events' = events \ stale
    BY InInv DEF ClearStaleEvents, RestTypes
  <1>2. RestTypes' /\ RecordsGrow
    BY <1>1, InInv DEF ClearStaleEvents, RestTypes, RecordsGrow, taskVars
  <1> QED BY <1>2, Finishes DEF ClearStaleEvents

\* A published outcome, and a callback of the daemon.
LEMMA PublishKeeps ==
  ASSUME SubInv, NEW t \in Tasks, Publish(t)
  PROVE  SubInv'
  <1>1. RestTypes' /\ RecordsGrow
    BY InInv DEF SubInv, TypeOK, QueueTypeOK, Publish, RestTypes, RecordsGrow, queueVars, eventVars
  <1> QED BY <1>1, NobodyMoves DEF Publish, queueVars

\* The callback of an ended row leaves an event if there is a ticket.
LEMMA TerminalEventKeeps ==
  ASSUME SubInv, NEW i \in Ids, TerminalEvent(i)
  PROVE  SubInv'
  <1>1. RestTypes' /\ RecordsGrow
    BY DEF SubInv, TypeOK, QueueTypeOK, TerminalEvent, RestTypes, RecordsGrow, taskVars
  <1> QED BY <1>1, NobodyMoves DEF TerminalEvent

--------------------
(* The daemon's steps.                                                     *)

\* A row that is still there, for the same task; a stashed or an ended one as it was.
Keeps(i) ==
    /\ rows'[i] # NoRow /\ rows'[i].task = rows[i].task
    /\ rows[i].state \in {"stashed", "ended"} => rows'[i] = rows[i]

\* A step that leaves alone what process q at work has seen of the rows, and adds none for
\* the task that it submits.
Undisturbed(q) ==
    /\ Working(q) =>
          \A i \in Ids :
              rows[i] # NoRow /\ (proc[q].goal = "add" => rows[i].task = proc[q].task) => Keeps(i)
    /\ Working(q) /\ proc[q].goal \in {"pass", "bootstrap"} =>
          \A i \in Ids : rows[i] = NoRow => rows'[i] = NoRow
    /\ proc[q].goal = "add" =>
          \A i \in Ids : rows'[i] # NoRow /\ rows'[i].task = proc[q].task =>
              rows[i] # NoRow /\ rows[i].task = proc[q].task

\* The steps of an operation that does not hold its locks, and the others.
LEMMA AtWork ==
  ASSUME SubInv, NEW q \in Procs
  PROVE  /\ Running(q) => Working(q) /\ cmd[q].op \in {"add", "enqueue", "remove", "kill"}
         /\ Working(q) => proc[q].goal \in {"add", "recover", "stop", "pass", "bootstrap"}
         /\ proc[q].pc \in {"clear", "removing"} => proc[q].goal \in {"pass", "bootstrap"}
         /\ proc[q].pc = "adding" => proc[q].goal = "add"
         /\ proc[q].pc \in {"commit", "register", "enqueue"} => proc[q].goal \in {"add", "recover"}
  <1>1. Fits(q) /\ Placed(q) /\ Commanded(q) /\ proc[q] \in Local
        /\ cmd[q] \in Command \cup {NoCommand}
    BY InInv DEF Fits
  <1>2. Running(q) => Working(q) /\ cmd[q].op \in {"add", "enqueue", "remove", "kill"}
    BY <1>1 DEF Running, Commanded, Working, NoCommand, Command
  <1>3. /\ proc[q].pc \in Steps(proc[q].goal)
        /\ proc[q].goal \in {"none", "add", "recover", "stop", "pass", "bootstrap"}
    BY <1>1 DEF Placed, Local
  <1>4. Working(q) => proc[q].goal \in {"add", "recover", "stop", "pass", "bootstrap"}
    BY <1>3 DEF Working, Steps
  <1>5. proc[q].pc \in {"clear", "removing"} => proc[q].goal \in {"pass", "bootstrap"}
    BY <1>3 DEF Steps
  <1>6. proc[q].pc = "adding" => proc[q].goal = "add"
    BY <1>3 DEF Steps
  <1>7. proc[q].pc \in {"commit", "register", "enqueue"} => proc[q].goal \in {"add", "recover"}
    BY <1>3 DEF Steps
  <1> QED BY <1>2, <1>4, <1>5, <1>6, <1>7

\* What a process expects of rows it does not touch still fits.
LEMMA UndisturbedFits ==
  ASSUME SubInv, NEW q \in Procs, Stays(q), UNCHANGED <<taskVars, tickets>>, Undisturbed(q)
  PROVE  Fits(q)'
  <1>1. /\ Fits(q) /\ proc[q] \in Local /\ rows \in [Ids -> Row \cup {NoRow}]
        /\ cmd[q] \in Command \cup {NoCommand}
    BY InInv
  <1>2. Placed(q)' /\ Commanded(q)' /\ Addressed(q)' /\ Asked(q)'
    BY <1>1 DEF Fits, Placed, Commanded, Addressed, Asked, Stays, BootHeld, IdentHeld, Working,
       Steps, taskVars
  <1>3. Aimed(q)'
    <2> SUFFICES ASSUME Running(q), NEW g \in cmd[q].targets
                 PROVE  /\ rows'[g.id] # NoRow /\ rows'[g.id].task = g.task
                        /\ proc[q].goal \in {"pass", "bootstrap"} =>
                              rows'[g.id].state = "ended" /\ g.task \in published'
      BY DEF Aimed, Stays, Running
    <2>1. g.id \in Ids /\ Working(q) /\ cmd[q].op \in {"add", "enqueue", "remove", "kill"}
      BY <1>1, AtWork DEF Running, Command, NoCommand, Target
    <2>2. /\ rows[g.id] # NoRow /\ rows[g.id].task = g.task
          /\ proc[q].goal \in {"pass", "bootstrap"} =>
                rows[g.id].state = "ended" /\ g.task \in published
      BY <1>1 DEF Fits, Aimed
    <2>3. proc[q].goal = "add" => g.task = proc[q].task
      BY <1>1, <2>1 DEF Fits, Addressed
    <2>4. Keeps(g.id)
      BY <2>1, <2>2, <2>3 DEF Undisturbed
    <2> QED BY <2>2, <2>4 DEF Keeps, taskVars
  <1>4. Staged(q)'
    <2>1. proc[q].pc = "adding" /\ cmd[q].stage = "done" =>
            /\ cmd[q].id \in Ids /\ rows'[cmd[q].id] = [task |-> proc[q].task, state |-> "stashed"]
      <3> SUFFICES ASSUME proc[q].pc = "adding", cmd[q].stage = "done"
                   PROVE  /\ cmd[q].id \in Ids
                          /\ rows'[cmd[q].id] = [task |-> proc[q].task, state |-> "stashed"]
        OBVIOUS
      <3>1. /\ cmd[q].id \in Ids /\ Working(q)
            /\ rows[cmd[q].id] = [task |-> proc[q].task, state |-> "stashed"]
        BY <1>1 DEF Fits, Staged, Working
      <3>2. Keeps(cmd[q].id)
        BY <3>1 DEF Undisturbed, NoRow
      <3> QED BY <3>1, <3>2 DEF Keeps
    <2>2. proc[q].pc \in {"commit", "register"} \/ Enqueuing(q) =>
            /\ proc[q].id \in Ids
            /\ rows'[proc[q].id] = [task |-> proc[q].task, state |-> "stashed"]
      <3> SUFFICES ASSUME proc[q].pc \in {"commit", "register"} \/ Enqueuing(q)
                   PROVE  /\ proc[q].id \in Ids
                          /\ rows'[proc[q].id] = [task |-> proc[q].task, state |-> "stashed"]
        OBVIOUS
      <3>1. /\ proc[q].id \in Ids /\ Working(q)
            /\ rows[proc[q].id] = [task |-> proc[q].task, state |-> "stashed"]
        BY <1>1, AtWork DEF Fits, Staged, Working, Enqueuing
      <3>2. Keeps(proc[q].id)
        BY <3>1 DEF Undisturbed, NoRow
      <3> QED BY <3>1, <3>2 DEF Keeps
    <2>3. Enqueuing(q)' <=> Enqueuing(q)
      BY DEF Enqueuing, Running, Stays
    <2> QED BY <1>1, <2>1, <2>2, <2>3 DEF Fits, Staged, Stays, taskVars
  <1>5. Cleared(q)'
    <2> SUFFICES ASSUME proc[q].pc = "clear" \/ (proc[q].pc = "removing" /\ cmd[q].stage = "done"),
                        NEW g \in proc[q].plan
                 PROVE  rows'[g.id] = NoRow
      BY DEF Cleared, Stays
    <2>1. g.id \in Ids /\ Working(q) /\ proc[q].goal \in {"pass", "bootstrap"}
      BY <1>1, AtWork DEF Local, Target, Working
    <2>2. rows[g.id] = NoRow
      BY <1>1 DEF Fits, Cleared
    <2> QED BY <2>1, <2>2 DEF Undisturbed
  <1>6. Fresh(q)'
    <2>1. Permitted(q)' <=> Permitted(q)
      BY DEF Permitted, Running, Stays
    <2> QED BY <1>1, <2>1 DEF Fits, Fresh, Stays, Undisturbed, Permitted, taskVars
  <1> QED BY <1>2, <1>3, <1>4, <1>5, <1>6 DEF Fits

\* Two operations at work are submissions of two tasks: the locks exclude all others.
LEMMA Alone ==
  ASSUME SubInv, NEW p \in Procs, NEW q \in Procs, p # q, Working(p), Working(q)
  PROVE  proc[p].goal = "add" /\ proc[q].goal = "add" /\ proc[p].task # proc[q].task
  <1>1. /\ boot[p] = BootHeld(p) /\ ident[p] = IdentHeld(p)
        /\ boot[q] = BootHeld(q) /\ ident[q] = IdentHeld(q)
    BY InInv DEF Fits, Placed
  <1>2. /\ proc[p].goal \in {"add", "recover", "stop", "pass", "bootstrap"}
        /\ proc[q].goal \in {"add", "recover", "stop", "pass", "bootstrap"}
    BY AtWork
  <1>3. /\ boot[p] = "EX" => boot[q] = "free"
        /\ ident[p] = "EX" => ident[q] = "free"
        /\ boot[q] = "EX" => boot[p] = "free"
        /\ ident[q] = "EX" => ident[p] = "free"
    BY DEF SubInv, LocksExclude
  <1>4. proc[p].goal = "add" /\ proc[q].goal = "add"
    BY <1>1, <1>2, <1>3 DEF BootHeld, IdentHeld
  <1> QED BY <1>4 DEF SubInv, OnePermit

\* The part of the invariant that is about no row.
LEMMA LocksAndPermitsStand ==
  ASSUME SubInv, UNCHANGED <<boot, ident, proc>>
  PROVE  LocksExclude' /\ OnePermit'
  BY DEF SubInv, LocksExclude, OnePermit

\* The daemon starts a row, or a row ends.
LEMMA RowStepKeeps ==
  ASSUME SubInv, NEW i \in Ids, RowStep(i)
  PROVE  SubInv'
  <1>1. UNCHANGED <<boot, ident, cmd, proc, taskVars, eventVars, crashes, passes>>
    BY DEF RowStep, DaemonStart, DaemonEnd
  <1>2. PICK s \in {"running", "ended"} :
          /\ rows' = [rows EXCEPT ![i].state = s]
          /\ rows[i].state = IF s = "running" THEN "queued" ELSE "running"
          /\ callbacks' \subseteq callbacks \cup {i}
    BY DEF RowStep, DaemonStart, DaemonEnd
  <1>3. rows \in [Ids -> Row \cup {NoRow}] /\ rows[i] \in Row
    <2>1. NoRow.state = "absent" /\ rows[i].state # "absent"
      BY <1>2 DEF NoRow
    <2>2. rows \in [Ids -> Row \cup {NoRow}]
      BY DEF SubInv, TypeOK, QueueTypeOK
    <2> QED BY <2>1, <2>2
  <1>4. /\ rows'[i] \in Row /\ rows'[i].task = rows[i].task /\ rows'[i].state = s
        /\ \A j \in Ids \ {i} : rows'[j] = rows[j]
    BY <1>2, <1>3 DEF Row
  <1>5. \A j \in Ids : rows[j] # NoRow => Keeps(j)
    BY <1>2, <1>3, <1>4 DEF Keeps, NoRow, Row
  <1>6. \A j \in Ids : /\ rows[j] = NoRow => rows'[j] = NoRow
                       /\ rows'[j].task = rows[j].task
    BY <1>2, <1>3, <1>4 DEF NoRow, Row
  <1>7. TypeOK'
    <2>1. rows' \in [Ids -> Row \cup {NoRow}]
      BY <1>2, <1>3, <1>4
    <2> QED BY <1>1, <1>2, <2>1 DEF SubInv, TypeOK, QueueTypeOK, taskVars, eventVars
  <1>8. \A q \in Procs : Fits(q)'
    <2> SUFFICES ASSUME NEW q \in Procs
                 PROVE  Fits(q)'
      OBVIOUS
    <2>1. Undisturbed(q)
      BY <1>5, <1>6 DEF Undisturbed
    <2> QED BY <1>1, <2>1, UndisturbedFits DEF Stays, eventVars
  <1>9. RowsAreSubmitted' /\ OneRowPerTask'
    BY <1>1, <1>6 DEF SubInv, RowsAreSubmitted, OneRowPerTask, taskVars
  <1>10. RunnableRowIsKnown'
    BY <1>1, <1>2, <1>4 DEF SubInv, RunnableRowIsKnown, taskVars, eventVars
  <1> QED BY <1>1, <1>7, <1>8, <1>9, <1>10, LocksAndPermitsStand DEF SubInv

\* The daemon adds a row under a free numeric ID.
LEMMA ExecuteAddKeeps ==
  ASSUME SubInv, NEW p \in Procs, ExecuteAdd(p), Bounds,
         UNCHANGED <<proc, taskVars, eventVars, crashes, passes>>
  PROVE  SubInv'
  <1>1. /\ Running(p) /\ cmd[p].op = "add"
        /\ UNCHANGED <<callbacks, boot, ident, proc, taskVars, eventVars, crashes, passes>>
    BY DEF ExecuteAdd
  <1>2. PICK i \in Ids :
          /\ rows[i] = NoRow
          /\ rows' = [rows EXCEPT ![i] = [task |-> cmd[p].task, state |-> "stashed"]]
          /\ cmd' = [cmd EXCEPT ![p].stage = "done", ![p].id = i]
    BY DEF ExecuteAdd
  <1>3. /\ proc[p].goal = "add" /\ cmd[p].task = proc[p].task /\ proc[p].task \in Tasks
        /\ cmd[p].targets = {} /\ Working(p) /\ Permitted(p) /\ Fits(p)
        /\ cmd[p] \in Command /\ rows \in [Ids -> Row \cup {NoRow}]
        /\ cmd \in [Procs -> Command \cup {NoCommand}]
    BY <1>1, InInv, AtWork DEF Fits, Addressed, Placed, Permitted, NoCommand
  <1>4. /\ proc[p].task \in submit
        /\ \A j \in Ids : rows[j] # NoRow => rows[j].task # proc[p].task
    BY <1>3 DEF Fits, Fresh
  <1> DEFINE c == [cmd[p] EXCEPT !.stage = "done", !.id = i]
             r == [task |-> proc[p].task, state |-> "stashed"]
  <1>5. /\ c \in Command /\ c.op = "add" /\ c.task = proc[p].task /\ c.targets = {}
        /\ c.stage = "done" /\ c.id = i /\ cmd' = [cmd EXCEPT ![p] = c]
    BY <1>1, <1>2, <1>3 DEF Command
  <1>6. /\ r \in Row /\ r # NoRow /\ r.task = proc[p].task /\ r.state = "stashed"
        /\ rows' = [rows EXCEPT ![i] = r]
    BY <1>2, <1>3 DEF Row, NoRow
  <1>7. rows'[i] = [task |-> proc[p].task, state |-> "stashed"]
    BY <1>3, <1>6
  <1> HIDE DEF c, r
  <1>8. /\ cmd'[p] = c /\ \A q \in Procs \ {p} : cmd'[q] = cmd[q]
        /\ rows'[i] = r /\ \A j \in Ids \ {i} : rows'[j] = rows[j]
    BY <1>3, <1>5, <1>6
  <1>9. TypeOK'
    <2>1. rows' \in [Ids -> Row \cup {NoRow}] /\ cmd' \in [Procs -> Command \cup {NoCommand}]
      BY <1>3, <1>5, <1>6
    <2> QED BY <1>1, <2>1 DEF SubInv, TypeOK, QueueTypeOK, taskVars, eventVars
  <1>10. Fits(p)'
    <2>1. proc[p].pc \in {"adding", "retain"} /\ Placed(p) /\ Asked(p)
      BY <1>1, <1>3, InInv DEF Fits, Commanded, NoCommand
    <2>2. Placed(p)' /\ Commanded(p)' /\ Addressed(p)' /\ Aimed(p)'
      BY <1>1, <1>3, <1>5, <1>8, <2>1 DEF Placed, Steps, BootHeld, IdentHeld, Working, Commanded,
         Addressed, Aimed
    <2>3. Staged(p)' /\ Cleared(p)' /\ Fresh(p)' /\ Asked(p)'
      BY <1>1, <1>3, <1>4, <1>5, <1>7, <1>8, <2>1 DEF Staged, Enqueuing, Running, Cleared, Fresh,
         Permitted, Asked, taskVars
    <2> QED BY <2>2, <2>3 DEF Fits
  <1>11. \A q \in Procs : Fits(q)'
    <2> SUFFICES ASSUME NEW q \in Procs, q # p
                 PROVE  Fits(q)'
      BY <1>10
    <2>1. \A j \in Ids : rows[j] # NoRow => Keeps(j)
      BY <1>2, <1>8 DEF Keeps
    <2>2. Working(q) => proc[q].goal = "add"
      BY <1>3, Alone
    <2>3. proc[q].goal = "add" => proc[q].task # proc[p].task
      BY <1>3 DEF SubInv, OnePermit
    <2>4. Undisturbed(q)
      BY <1>2, <1>6, <1>8, <2>1, <2>2, <2>3 DEF Undisturbed
    <2> QED BY <1>1, <1>8, <2>4, UndisturbedFits DEF Stays, eventVars
  <1>12. RowsAreSubmitted' /\ OneRowPerTask'
    <2>1. \A j \in Ids \ {i} : rows'[j].task # proc[p].task
      BY <1>3, <1>4, <1>8 DEF Bounds
    <2>2. OneRowPerTask'
      BY <1>6, <1>8, <2>1 DEF SubInv, OneRowPerTask
    <2>3. RowsAreSubmitted'
      BY <1>1, <1>4, <1>6, <1>8 DEF SubInv, RowsAreSubmitted, taskVars
    <2> QED BY <2>2, <2>3
  <1>13. RunnableRowIsKnown'
    BY <1>1, <1>6, <1>8 DEF SubInv, RunnableRowIsKnown, taskVars, eventVars
  <1> QED BY <1>1, <1>9, <1>11, <1>12, <1>13, LocksAndPermitsStand DEF SubInv

\* The rows that an accepted command changes.
Addressees(p) == {g.id : g \in cmd[p].targets}

\* The daemon enqueues, kills or removes the rows a command names.
LEMMA ExecuteOnIdsKeeps ==
  ASSUME SubInv, NEW p \in Procs, ExecuteOnIds(p), Bounds,
         UNCHANGED <<proc, taskVars, eventVars, crashes, passes>>
  PROVE  SubInv'
  <1>1. /\ Running(p) /\ cmd[p].op # "add" /\ callbacks' \subseteq callbacks \cup Addressees(p)
        /\ UNCHANGED <<boot, ident, proc, taskVars, eventVars, crashes, passes>>
    BY DEF ExecuteOnIds, Addressees
  <1>2. PICK s \in {"done", "failed"} :
          /\ cmd' = [cmd EXCEPT ![p].stage = s]
          /\ s = "failed" => rows' = rows
          /\ s = "done" =>
                /\ \A i \in Addressees(p) : rows[i].state \in Accepts(cmd[p].op)
                /\ rows' = [i \in Ids |-> IF i \in Addressees(p) THEN After(cmd[p].op, rows[i])
                                          ELSE rows[i]]
    BY DEF ExecuteOnIds, Addressees
  <1>3. /\ Working(p) /\ cmd[p].op \in {"enqueue", "remove", "kill"} /\ Fits(p)
        /\ cmd[p] \in Command /\ rows \in [Ids -> Row \cup {NoRow}]
        /\ cmd \in [Procs -> Command \cup {NoCommand}] /\ proc[p] \in Local
    BY <1>1, InInv, AtWork DEF NoCommand, Running
  <1>4. Addressees(p) \subseteq Ids
    BY <1>3 DEF Addressees, Command, Target
  <1> DEFINE c == [cmd[p] EXCEPT !.stage = s]
  <1>5. /\ c \in Command /\ c.op = cmd[p].op /\ c.task = cmd[p].task
        /\ c.targets = cmd[p].targets /\ c.stage = s /\ cmd' = [cmd EXCEPT ![p] = c]
    BY <1>2, <1>3 DEF Command
  <1> HIDE DEF c
  <1>6. cmd'[p] = c /\ ~ Running(p)' /\ \A q \in Procs \ {p} : cmd'[q] = cmd[q]
    BY <1>3, <1>5 DEF Running
  <1>7. TypeOK'
    <2>1. rows' \in [Ids -> Row \cup {NoRow}]
      BY RowsStayTyped DEF SubInv, TypeOK
    <2>2. cmd' \in [Procs -> Command \cup {NoCommand}] /\ callbacks' \subseteq Ids
      BY <1>1, <1>3, <1>4, <1>5 DEF SubInv, TypeOK, QueueTypeOK
    <2> QED BY <1>1, <2>1, <2>2 DEF SubInv, TypeOK, QueueTypeOK, taskVars, eventVars
  \* What becomes of a row.
  <1>8. \A i \in Ids : \/ rows'[i] = rows[i]
                       \/ /\ i \in Addressees(p) /\ s = "done"
                          /\ rows[i] \in Row /\ rows[i].state \in Accepts(cmd[p].op)
                          /\ rows'[i] = After(cmd[p].op, rows[i])
    <2> SUFFICES ASSUME NEW i \in Ids, rows'[i] # rows[i]
                 PROVE  /\ i \in Addressees(p) /\ s = "done"
                        /\ rows[i] \in Row /\ rows[i].state \in Accepts(cmd[p].op)
                        /\ rows'[i] = After(cmd[p].op, rows[i])
      OBVIOUS
    <2>1. s = "done" /\ i \in Addressees(p)
      BY <1>2
    <2>2. rows[i].state \in Accepts(cmd[p].op) /\ rows'[i] = After(cmd[p].op, rows[i])
      BY <1>2, <2>1
    <2>3. NoRow.state = "absent" /\ "absent" \notin Accepts(cmd[p].op)
      BY DEF NoRow, Accepts
    <2> QED BY <1>3, <2>1, <2>2, <2>3
  <1>9. \A i \in Ids : rows'[i] # NoRow => rows[i] # NoRow /\ rows'[i].task = rows[i].task
    <2> SUFFICES ASSUME NEW i \in Ids, rows'[i] # NoRow, rows'[i] # rows[i]
                 PROVE  rows[i] # NoRow /\ rows'[i].task = rows[i].task
      OBVIOUS
    <2>1. /\ rows[i] \in Row /\ rows[i].state \in Accepts(cmd[p].op)
          /\ rows'[i] = After(cmd[p].op, rows[i])
      BY <1>8
    <2>2. rows[i] # NoRow
      BY <2>1 DEF NoRow, Accepts
    <2>3. cmd[p].op \in {"enqueue", "kill"}
      BY <1>3, <2>1 DEF After
    <2>4. rows'[i].task = rows[i].task
      BY <2>1, <2>3 DEF After, Row
    <2> QED BY <2>2, <2>4
  <1>10. Fits(p)'
    <2>1. /\ proc[p].pc \in {"enqueuing", "stopping", "removing", "retain"}
          /\ cmd[p].op # "none" /\ proc[p].goal = "add" => cmd[p].op = "enqueue"
      BY <1>1, <1>3 DEF Fits, Commanded, Addressed, NoCommand
    <2>2. Placed(p)' /\ Commanded(p)' /\ Addressed(p)' /\ Aimed(p)'
      BY <1>1, <1>3, <1>5, <1>6, <2>1 DEF Fits, Placed, Steps, BootHeld, IdentHeld, Working,
         Commanded, Addressed, Aimed
    <2>3. Staged(p)' /\ Fresh(p)' /\ Asked(p)'
      BY <1>1, <1>3, <1>5, <1>6, <2>1 DEF Fits, Staged, Enqueuing, Fresh, Permitted, Asked,
         taskVars
    <2>4. Cleared(p)'
      <3> SUFFICES ASSUME proc[p].pc = "removing", s = "done", NEW g \in proc[p].plan
                   PROVE  rows'[g.id] = NoRow
        BY <1>1, <1>5, <1>6, <2>1 DEF Cleared
      <3>1. cmd[p].op = "remove" /\ cmd[p].targets = proc[p].plan
        BY <1>3, AtWork DEF Fits, Commanded, Addressed
      <3>2. g.id \in Addressees(p)
        BY <3>1 DEF Addressees
      <3> QED BY <1>2, <1>4, <3>1, <3>2 DEF After
    <2> QED BY <2>2, <2>3, <2>4 DEF Fits
  <1>11. \A q \in Procs : Fits(q)'
    <2> SUFFICES ASSUME NEW q \in Procs, q # p
                 PROVE  Fits(q)'
      BY <1>10
    <2>1. Working(q) => /\ proc[p].goal = "add" /\ proc[q].goal = "add"
                        /\ proc[p].task # proc[q].task
      BY <1>3, Alone
    <2>2. proc[p].goal = "add" => \A i \in Addressees(p) : rows[i].task = proc[p].task
      <3>1. proc[p].goal = "add" => cmd[p].op = "enqueue"
        BY <1>3 DEF Fits, Addressed
      <3>2. proc[p].goal = "add" => \A g \in cmd[p].targets :
                rows[g.id].task = g.task /\ g.task = proc[p].task
        BY <1>1, <1>3, <3>1 DEF Fits, Addressed, Aimed
      <3> QED BY <3>2 DEF Addressees
    <2>3. Working(q) => \A i \in Ids : rows[i].task = proc[q].task => rows'[i] = rows[i]
      BY <1>8, <2>1, <2>2
    <2>4. Undisturbed(q)
      BY <1>9, <2>1, <2>3 DEF Undisturbed, Keeps
    <2> QED BY <1>1, <1>6, <2>4, UndisturbedFits DEF Stays, eventVars
  <1>12. RowsAreSubmitted' /\ OneRowPerTask'
    <2>1. RowsAreSubmitted'
      BY <1>1, <1>9 DEF SubInv, RowsAreSubmitted, taskVars
    <2>2. ASSUME NEW i \in Ids, NEW j \in Ids, rows'[i].task = rows'[j].task, rows'[i] # NoRow
          PROVE  i = j
      <3>1. rows'[i] \in Row /\ rows'[i].task \in Tasks
        BY <1>7, <2>2 DEF TypeOK, QueueTypeOK, Row
      <3>2. rows'[j] # NoRow
        BY <2>2, <3>1 DEF Bounds
      <3> QED BY <1>9, <2>2, <3>2 DEF SubInv, OneRowPerTask
    <2> QED BY <2>1, <2>2 DEF OneRowPerTask
  <1>13. RunnableRowIsKnown'
    <2> SUFFICES ASSUME NEW i \in Ids
                 PROVE  /\ rows'[i].state \in {"queued", "running", "ended"} =>
                             receipt[rows'[i].task] = i
                        /\ rows'[i].state \in {"queued", "running"} => i \in tickets
      BY <1>1 DEF RunnableRowIsKnown, taskVars, eventVars
    <2>1. /\ rows[i].state \in {"queued", "running", "ended"} => receipt[rows[i].task] = i
          /\ rows[i].state \in {"queued", "running"} => i \in tickets
      BY DEF SubInv, RunnableRowIsKnown
    <2>2. CASE rows'[i] = rows[i] BY <2>1, <2>2
    <2>3. CASE rows'[i] = NoRow BY <2>3 DEF NoRow
    <2>4. CASE rows'[i] # rows[i] /\ rows'[i] # NoRow
      <3>1. /\ i \in Addressees(p) /\ rows[i] \in Row /\ rows[i].state \in Accepts(cmd[p].op)
            /\ rows'[i] = After(cmd[p].op, rows[i])
        BY <1>8, <2>4
      <3>2. CASE cmd[p].op = "enqueue"
        <4>1. Enqueuing(p) /\ cmd[p].targets = {[id |-> proc[p].id, task |-> proc[p].task]}
          BY <1>1, <1>3, <3>2 DEF Enqueuing, Fits, Addressed
        <4>2. i = proc[p].id
          BY <3>1, <4>1 DEF Addressees
        <4>3. /\ rows[i].task = proc[p].task /\ receipt[proc[p].task] = i /\ i \in tickets
          BY <1>3, <4>1, <4>2 DEF Fits, Staged
        <4>4. rows'[i].task = rows[i].task
          BY <1>9, <2>4
        <4> QED BY <4>3, <4>4
      <3>3. CASE cmd[p].op = "kill"
        <4>1. rows[i].state = "running" /\ rows'[i].state = "ended"
          BY <3>1, <3>3 DEF Accepts, After, Row
        <4>2. rows'[i].task = rows[i].task
          BY <1>9, <2>4
        <4> QED BY <2>1, <4>1, <4>2
      <3>4. CASE cmd[p].op = "remove" BY <2>4, <3>1, <3>4 DEF After
      <3> QED BY <1>3, <3>2, <3>3, <3>4
    <2> QED BY <2>2, <2>3, <2>4
  <1> QED BY <1>1, <1>7, <1>11, <1>12, <1>13, LocksAndPermitsStand DEF SubInv

--------------------
(* The theorems.                                                           *)

\* The invariant holds of the empty queue.
LEMMA SubmissionStarts ==
  ASSUME Bounds, Init
  PROVE  SubInv
  <1>1. TypeOK
    BY DEF Bounds, Init, TypeOK, QueueInit, QueueTypeOK, Idle, Local, PCs, Modes
  <1>2. \A p \in Procs : proc[p] = Idle /\ cmd[p] = NoCommand /\ boot[p] = "free"
                         /\ ident[p] = "free"
    BY DEF Init, QueueInit
  <1>3. \A p \in Procs : Fits(p)
    BY <1>2 DEF Fits, Placed, Steps, BootHeld, IdentHeld, Working, Commanded, Addressed, Aimed,
       Staged, Enqueuing, Cleared, Fresh, Permitted, Asked, Running, Idle, NoCommand
  <1>4. LocksExclude /\ OnePermit
    BY <1>2 DEF LocksExclude, OnePermit, Idle
  <1>5. RowsAreSubmitted /\ OneRowPerTask /\ RunnableRowIsKnown
    BY DEF Init, QueueInit, RowsAreSubmitted, OneRowPerTask, RunnableRowIsKnown, NoRow
  <1> QED BY <1>1, <1>3, <1>4, <1>5 DEF SubInv

\* Every step of the queue and of its users keeps the invariant.
LEMMA SubmissionSteps ==
  ASSUME Bounds, SubInv, [Next]_vars
  PROVE  SubInv'
  <1>1. CASE UNCHANGED vars
    <2>1. RestTypes' /\ RecordsGrow /\ UNCHANGED <<rows, proc, cmd, boot, ident>>
      BY <1>1, NothingRecorded DEF vars, queueVars
    <2> QED BY <2>1, NobodyMoves
  <1>2. ASSUME NEW p \in Procs, Operate(p)
        PROVE  SubInv'
    BY <1>2, RequireTaskLaunchPermissionKeeps, SubmitStagedKeeps, StagedAddedKeeps,
       CommitReceiptKeeps, RegisterTerminalEventKeeps, EnqueueStagedKeeps, CommandConcludesKeeps,
       RecoverStagedKeeps, StopLockedKeeps, CapturePrivateCleanupKeeps, RemoveCapturedKeeps,
       RowsRemovedKeeps, ClearTerminalEventsKeeps, ClearStaleEventsKeeps DEF Operate
  <1>3. ASSUME NEW p \in Procs, Daemon(p)
        PROVE  SubInv'
    BY <1>3, ExecuteAddKeeps, ExecuteOnIdsKeeps, CommandFailsKeeps DEF Daemon
  <1>4. ASSUME NEW p \in Procs, BeginCleanup(p) \/ CommandPending(p) \/ Crash(p)
        PROVE  SubInv'
    BY <1>4, BeginCleanupKeeps, CommandPendingKeeps, CrashKeeps
  <1>5. ASSUME NEW p \in Procs, NEW t \in Tasks,
               PrepareSubmission(p, t) \/ ReconcileSubmitted(p, t) \/ PrepareStop(p, t)
        PROVE  SubInv'
    BY <1>5, PrepareSubmissionKeeps, ReconcileSubmittedKeeps, PrepareStopKeeps
  <1>6. ASSUME NEW i \in Ids, RowStep(i) \/ TerminalEvent(i)
        PROVE  SubInv'
    BY <1>6, RowStepKeeps, TerminalEventKeeps
  <1>7. CASE Next BY <1>2, <1>3, <1>4, <1>5, <1>6, <1>7, PublishKeeps DEF Next
  <1> QED BY <1>1, <1>7

\* What the queue promises follows.
LEMMA SubmissionSound ==
  ASSUME SubInv
  PROVE  TypeOK /\ CommandsReachTheirRow /\ OneRowPerTask /\ RunnableRowIsKnown
  BY DEF SubInv, Fits, Aimed, CommandsReachTheirRow

\* Only a remove takes a row away: a stop's, or a cleanup's of an ended and published task.
LEMMA RemovalHasCause ==
  ASSUME SubInv, [Next]_vars
  PROVE  RowLeavesForCause
  <1> SUFFICES ASSUME NEW i \in Ids, rows[i] # NoRow, rows'[i] = NoRow
               PROVE  /\ rows[i].state # "running"
                      /\ \/ rows[i].state = "ended" /\ rows[i].task \in published
                         \/ stops[rows[i].task] > 0
    BY DEF RowLeavesForCause
  <1>1. rows \in [Ids -> Row \cup {NoRow}]
    BY DEF SubInv, TypeOK, QueueTypeOK
  <1>2. ~ \E j \in Ids : RowStep(j)
    <2> SUFFICES ASSUME NEW j \in Ids, RowStep(j)
                 PROVE  FALSE
      OBVIOUS
    <2>1. PICK s \in {"running", "ended"} : rows' = [rows EXCEPT ![j].state = s]
      BY DEF RowStep, DaemonStart, DaemonEnd
    <2>2. j = i /\ rows'[i].state = s
      BY <1>1, <2>1 DEF Row
    <2> QED BY <2>2 DEF NoRow
  <1>3. ~ \E p \in Procs : ExecuteAdd(p)
    <2> SUFFICES ASSUME NEW p \in Procs, NEW j \in Ids, rows[j] = NoRow,
                        rows' = [rows EXCEPT ![j] = [task |-> cmd[p].task, state |-> "stashed"]]
                 PROVE  FALSE
      BY DEF ExecuteAdd
    <2> QED BY <1>1
  <1>4. rows' # rows
    OBVIOUS
  <1>5. PICK p \in Procs : ExecuteOnIds(p)
    <2>1. ASSUME NEW p \in Procs
          PROVE  /\ Operate(p) => rows' = rows
                 /\ BeginCleanup(p) \/ CommandPending(p) \/ Crash(p) => rows' = rows
                 /\ CommandFails(p) => rows' = rows
      BY DEF Operate, RequireTaskLaunchPermission, SubmitStaged, StagedAdded, CommitReceipt,
         RegisterTerminalEvent, EnqueueStaged, CommandConcludes, RecoverStaged, StopLocked,
         CapturePrivateCleanup, RemoveCaptured, RowsRemoved, ClearTerminalEvents,
         ClearStaleEvents, ReleaseRetained, BeginCleanup, CommandPending, Crash, CommandFails,
         queueVars
    <2>2. ASSUME NEW p \in Procs, NEW t \in Tasks
          PROVE  PrepareSubmission(p, t) \/ ReconcileSubmitted(p, t) \/ PrepareStop(p, t) =>
                    rows' = rows
      BY DEF PrepareSubmission, ReconcileSubmitted, PrepareStop, queueVars
    <2>3. \A t \in Tasks : Publish(t) => rows' = rows
      BY DEF Publish, queueVars
    <2>4. \A j \in Ids : TerminalEvent(j) => rows' = rows
      BY DEF TerminalEvent
    <2>5. Next
      BY <1>4 DEF vars, queueVars
    <2> QED BY <1>2, <1>3, <1>4, <2>1, <2>2, <2>3, <2>4, <2>5 DEF Next, Daemon
  <1>6. PICK g \in cmd[p].targets :
          /\ i = g.id /\ rows[i].state \in Accepts(cmd[p].op)
          /\ After(cmd[p].op, rows[i]) = NoRow
    BY <1>5 DEF ExecuteOnIds
  <1>7. Running(p) /\ cmd[p] \in Command /\ rows[i] \in Row /\ cmd[p].op # "add"
    BY <1>1, <1>5, InInv DEF ExecuteOnIds, Running, NoCommand
  <1>8. cmd[p].op = "remove"
    BY <1>6, <1>7 DEF After, Row, NoRow, Command, Accepts
  <1>9. /\ Fits(p) /\ rows[i].task = g.task /\ proc[p].goal \in {"stop", "pass", "bootstrap"}
        /\ proc[p].goal = "stop" => g.task = proc[p].task
        /\ proc[p].goal # "stop" => rows[i].state = "ended" /\ g.task \in published
    BY <1>6, <1>7, <1>8, InInv DEF Fits, Addressed, Aimed
  <1>10. rows[i].state # "running"
    BY <1>6, <1>8 DEF Accepts
  <1> QED BY <1>9, <1>10 DEF Fits, Asked

\* The three facts about the invariant and the one about a step, with constant hypotheses.
LEMMA SubmissionInductive ==
  ASSUME MaxCrashes \in Nat, MaxStops \in Nat, MaxPasses \in Nat, "none" \notin Ids,
         "none" \notin Tasks
  PROVE  /\ Init => SubInv
         /\ SubInv /\ [Next]_vars => SubInv'
         /\ SubInv => TypeOK /\ CommandsReachTheirRow /\ OneRowPerTask /\ RunnableRowIsKnown
         /\ SubInv /\ [Next]_vars => RowLeavesForCause
  <1>1. Bounds
    BY DEF Bounds, NoId, NoRow
  <1> QED BY <1>1, SubmissionStarts, SubmissionSteps, SubmissionSound, RemovalHasCause

\* A command reaches only the rows it was meant for, although the daemon reuses their IDs and
\* the caller may be gone; a task has one row; a row that may run is known to its task and,
\* while it can end, has its ticket.
THEOREM RowsAreTheirTasks ==
  ASSUME MaxCrashes \in Nat, MaxStops \in Nat, MaxPasses \in Nat, "none" \notin Ids,
         "none" \notin Tasks
  PROVE  Spec => [](CommandsReachTheirRow /\ OneRowPerTask /\ RunnableRowIsKnown)
  <1>1. Init => SubInv
    BY SubmissionInductive
  <1>2. SubInv /\ [Next]_vars => SubInv'
    BY SubmissionInductive
  <1>3. SubInv => CommandsReachTheirRow /\ OneRowPerTask /\ RunnableRowIsKnown
    BY SubmissionInductive
  <1> QED BY <1>1, <1>2, <1>3, PTL DEF Spec

\* A row leaves the queue when its task has ended and is published, or was asked to stop, and
\* never while it runs.
THEOREM RowsLeaveOnlyForCause ==
  ASSUME MaxCrashes \in Nat, MaxStops \in Nat, MaxPasses \in Nat, "none" \notin Ids,
         "none" \notin Tasks
  PROVE  Spec => RowsLeaveForCause
  <1>1. Init => SubInv
    BY SubmissionInductive
  <1>2. SubInv /\ [Next]_vars => SubInv'
    BY SubmissionInductive
  <1>3. SubInv /\ [Next]_vars => [RowLeavesForCause]_vars
    BY SubmissionInductive
  <1> QED BY <1>1, <1>2, <1>3, PTL DEF Spec, RowsLeaveForCause
============
