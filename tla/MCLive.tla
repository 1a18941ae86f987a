------------------------------- MODULE MCLive -------------------------------
(***************************************************************************)
(* Progress of the queue locks, of the owner's server and of a provider    *)
(* run, one component after the other: the initial state chooses the       *)
(* component in focus, and only that one moves.  The components take turns *)
(* in the variables s1, s2, ... that each substitutes for its own.         *)
(***************************************************************************)
EXTENDS Naturals

VARIABLES
    focus,   \* the component under check
    s1, s2, s3, s4, s5, s6, s7, s8, s9, s10, s11, s12, s13, s14, s15, s16, s17, s18,
    s19, s20, s21, s22, s23, s24, s25, s26, s27, s28, s29   \* its variables

Locks == INSTANCE QueueLocks WITH
    Clients <- 1..3, MaxWrites <- 2, MaxLockFaults <- 1,
    intentFile <- s1, intent <- s2, gate <- s3, identity <- s4, lockPc <- s5, writes <- s6,
    lockFaults <- s7

Server == INSTANCE OwnerServer WITH
    Conns <- 1..2, PreauthLimit <- 1, OperationLimit <- 1, ControlLimit <- 1,
    MaxServeFaults <- 1,
    closing <- s1, serving <- s2, drained <- s3, initial <- s4, initDone <- s5, terminal <- s6,
    delivered <- s7, deadline <- s8, owners <- s9, conns <- s10, prep <- s11, runner <- s12,
    worker <- s13, daemon <- s14, registrationClosed <- s15, serveFaults <- s16

Run == INSTANCE ProviderRun WITH
    Messages <- {}, MaxFrames <- 2, Capacity <- 1, MaxRunFaults <- 1,
    mode <- s1, main <- s2, startErr <- s3, failed <- s4, expired <- s5, budget <- s6,
    observer <- s7, provider <- s8, orphan <- s9, killed <- s10, emitted <- s11, stdout <- s12,
    copier <- s13, chunks <- s14, chunksClosed <- s15, protocol <- s16, finished <- s17,
    fault <- s18, outbound <- s19, outClosed <- s20, writer <- s21, stdin <- s22,
    inputClosed <- s23, written <- s24, closer <- s25, delivery <- s26, journalClosed <- s27,
    runFaults <- s28, sends <- s29

-----------------------------------------------------------------------------
\* A component with k variables leaves the others at rest.
Unused(k) ==
    /\ IF k < 8 THEN s8 = 0 ELSE TRUE
    /\ IF k < 9 THEN s9 = 0 ELSE TRUE
    /\ IF k < 10 THEN s10 = 0 ELSE TRUE
    /\ IF k < 11 THEN s11 = 0 ELSE TRUE
    /\ IF k < 12 THEN s12 = 0 ELSE TRUE
    /\ IF k < 13 THEN s13 = 0 ELSE TRUE
    /\ IF k < 14 THEN s14 = 0 ELSE TRUE
    /\ IF k < 15 THEN s15 = 0 ELSE TRUE
    /\ IF k < 16 THEN s16 = 0 ELSE TRUE
    /\ IF k < 17 THEN s17 = 0 ELSE TRUE
    /\ IF k < 18 THEN s18 = 0 ELSE TRUE
    /\ IF k < 19 THEN s19 = 0 ELSE TRUE
    /\ IF k < 20 THEN s20 = 0 ELSE TRUE
    /\ IF k < 21 THEN s21 = 0 ELSE TRUE
    /\ IF k < 22 THEN s22 = 0 ELSE TRUE
    /\ IF k < 23 THEN s23 = 0 ELSE TRUE
    /\ IF k < 24 THEN s24 = 0 ELSE TRUE
    /\ IF k < 25 THEN s25 = 0 ELSE TRUE
    /\ IF k < 26 THEN s26 = 0 ELSE TRUE
    /\ IF k < 27 THEN s27 = 0 ELSE TRUE
    /\ IF k < 28 THEN s28 = 0 ELSE TRUE
    /\ IF k < 29 THEN s29 = 0 ELSE TRUE

AtRest(k) ==
    /\ UNCHANGED focus
    /\ IF k < 8 THEN UNCHANGED s8 ELSE TRUE
    /\ IF k < 9 THEN UNCHANGED s9 ELSE TRUE
    /\ IF k < 10 THEN UNCHANGED s10 ELSE TRUE
    /\ IF k < 11 THEN UNCHANGED s11 ELSE TRUE
    /\ IF k < 12 THEN UNCHANGED s12 ELSE TRUE
    /\ IF k < 13 THEN UNCHANGED s13 ELSE TRUE
    /\ IF k < 14 THEN UNCHANGED s14 ELSE TRUE
    /\ IF k < 15 THEN UNCHANGED s15 ELSE TRUE
    /\ IF k < 16 THEN UNCHANGED s16 ELSE TRUE
    /\ IF k < 17 THEN UNCHANGED s17 ELSE TRUE
    /\ IF k < 18 THEN UNCHANGED s18 ELSE TRUE
    /\ IF k < 19 THEN UNCHANGED s19 ELSE TRUE
    /\ IF k < 20 THEN UNCHANGED s20 ELSE TRUE
    /\ IF k < 21 THEN UNCHANGED s21 ELSE TRUE
    /\ IF k < 22 THEN UNCHANGED s22 ELSE TRUE
    /\ IF k < 23 THEN UNCHANGED s23 ELSE TRUE
    /\ IF k < 24 THEN UNCHANGED s24 ELSE TRUE
    /\ IF k < 25 THEN UNCHANGED s25 ELSE TRUE
    /\ IF k < 26 THEN UNCHANGED s26 ELSE TRUE
    /\ IF k < 27 THEN UNCHANGED s27 ELSE TRUE
    /\ IF k < 28 THEN UNCHANGED s28 ELSE TRUE
    /\ IF k < 29 THEN UNCHANGED s29 ELSE TRUE

Init ==
    \/ focus = "locks" /\ Locks!LockInit /\ Unused(7)
    \/ focus = "server" /\ Server!ServeInit /\ Unused(16)
    \/ focus = "run" /\ Run!RunInit /\ Unused(29)

Next ==
    \/ focus = "locks" /\ Locks!LockNext /\ AtRest(7)
    \/ focus = "server" /\ Server!ServeNext /\ AtRest(16)
    \/ focus = "run" /\ Run!RunNext /\ AtRest(29)

vars == <<focus, s1, s2, s3, s4, s5, s6, s7, s8, s9, s10, s11, s12, s13, s14, s15, s16, s17, s18,
          s19, s20, s21, s22, s23, s24, s25, s26, s27, s28, s29>>

\* The k-th process, goroutine, connection or deadline of the component in focus.
Thread(k) ==
    \/ /\ focus = "locks"
       /\ k \in 1..3 /\ Locks!Proceed(k)
       /\ AtRest(7)
    \/ /\ focus = "server"
       /\ \/ k \in 1..2 /\ Server!ConnStep(k)
          \/ k = 3 /\ Server!ServerStep
          \/ k = 4 /\ Server!DeadlinePasses
          \/ k \in 5..7 /\ Server!WorkerStep(k - 5)
       /\ AtRest(16)
    \/ /\ focus = "run"
       /\ \/ k = 1 /\ Run!RunnerStep
          \/ k = 2 /\ Run!ObserverStep
          \/ k = 3 /\ Run!CopierStep
          \/ k = 4 /\ Run!ProtocolStep
          \/ k = 5 /\ Run!WriterStep
          \/ k = 6 /\ Run!CloseInput
          \/ k = 7 /\ Run!DeadlinePasses
          \/ k = 8 /\ Run!KilledExits
       /\ AtRest(29)

\* Every step of a goroutine, process or deadline that is enabled for good is taken.
Fairness ==
    \A k \in 1..8 : WF_vars(Thread(k))

Spec == Init /\ [][Next]_vars /\ Fairness

-----------------------------------------------------------------------------
\* Whoever is let through stays alone.  A reader never uses the queue beside a writer, and a
\* writer at work is announced (private_locking.go).  When the owner's server takes no daemon's
\* wait any more nothing runs that could start one, not even a worker that outlived its
\* callback, and every daemon that was started has somebody who waits for it
\* (entry_cleanup_completion.go, owner_daemon_waits.go).  What a provider run seals is complete
\* and still (execution/run.go).
WaitersAreSafe ==
    /\ focus = "locks" => Locks!LockTypeOK /\ Locks!WriterExcludes
    /\ focus = "server" => Server!ServeTypeOK /\ Server!NothingLeftBehind
    /\ focus = "run" => Run!RunTypeOK /\ Run!RunIsSafe

\* What is owed: a client of the queue waits for an identity lock, the server has closed
\* admission, a provider was started.
Owed ==
    \/ focus = "locks" /\ (Locks!WriterWaits(1) \/ Locks!ReaderWaits(1))
    \/ focus = "server" /\ Server!AdmissionClosed
    \/ focus = "run"

\* How it is paid: the client is served, the server has given up its role, the run returned.
Paid ==
    \/ focus = "locks" /\ (Locks!WriterServed(1) \/ Locks!ReaderServed(1))
    \/ focus = "server" /\ Server!RoleGivenUp
    \/ focus = "run" /\ Run!Returned

\* Everybody who is made to wait is served, in each of three places where processes wait for
\* one another.  A writer of the queue that has announced itself is served however many readers
\* come and go, and a reader whatever intent a dead writer left (private_locking.go; clients
\* are interchangeable, so what is checked of client 1 holds of all).  Once admission is closed
\* the owner's server gives up the role, or keeps it for what could not be closed, although
\* connections, the initial handoff, the drain and the join of the workers wait for one another
\* (owner_server.go, entry_cleanup_completion.go).  A provider run comes to an end whatever the
\* provider does, unless its stop could not be recorded (execution/run.go).
EverybodyIsServed == Owed ~> Paid
=============================================================================
