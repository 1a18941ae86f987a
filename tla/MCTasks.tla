------------------------------ MODULE MCTasks -------------------------------
(***************************************************************************)
(* Tasks, their records, workspaces, conversations and provider streams,   *)
(* one component after the other: the initial state chooses the component  *)
(* in focus, and only that one moves.  The components take turns in the    *)
(* variables s1, s2, ... that each substitutes for its own.                *)
(***************************************************************************)
EXTENDS Integers, TLC

CONSTANTS
    Processes,   \* commands, callers or other processes of a component
    Objects,     \* tasks, rows or installations of a component
    Nil          \* nothing

VARIABLES
    focus,   \* the component under check
    s1, s2, s3, s4, s5, s6, s7, s8, s9, s10, s11, s12, s13, s14, s15, s16, s17, s18,
    s19, s20, s21, s22, s23, s24, s25, s26, s27, s28, s29   \* its variables

Run == INSTANCE ProviderRun WITH
    Messages <- {"m1"}, MaxFrames <- 1, Capacity <- 1, MaxRunFaults <- 0,
    mode <- s1, main <- s2, startErr <- s3, failed <- s4, expired <- s5, budget <- s6,
    observer <- s7, provider <- s8, orphan <- s9, killed <- s10, emitted <- s11, stdout <- s12,
    copier <- s13, chunks <- s14, chunksClosed <- s15, protocol <- s16, finished <- s17,
    fault <- s18, outbound <- s19, outClosed <- s20, writer <- s21, stdin <- s22,
    inputClosed <- s23, written <- s24, closer <- s25, delivery <- s26, journalClosed <- s27,
    runFaults <- s28, sends <- s29

Dir == INSTANCE TaskDirectory WITH
    Creators <- Processes, RunWorkers <- Objects, Collectors <- {"k1"}, Recheckers <- {"r1"},
    Requests <- {"q1", "q2"}, MaxDirFaults <- 2,
    seen <- s1, disk <- s2, raw <- s3, stages <- s4, litter <- s5, maintSH <- s6,
    admission <- s7, runLock <- s8, actor <- s9, dirFaults <- s10, starts <- s11,
    reported <- s12, assessed <- s13

Cont == INSTANCE Continuation WITH
    Tasks <- Objects \cup {"t0"}, First <- "t0", None <- Nil, Commands <- Processes,
    MaxContFaults <- 0,
    records <- s1, claims <- s2, releases <- s3, sessionLock <- s4, runners <- s5, turn <- s6,
    commands <- s7, contFaults <- s8

ContCrash == INSTANCE Continuation WITH
    Tasks <- Objects \cup {"t0"}, First <- "t0", None <- Nil, Commands <- {"c1"},
    MaxContFaults <- 1,
    records <- s1, claims <- s2, releases <- s3, sessionLock <- s4, runners <- s5, turn <- s6,
    commands <- s7, contFaults <- s8

ContRace == INSTANCE Continuation WITH
    Tasks <- {"t0", "t1"}, First <- "t0", None <- Nil, Commands <- Processes, MaxContFaults <- 1,
    records <- s1, claims <- s2, releases <- s3, sessionLock <- s4, runners <- s5, turn <- s6,
    commands <- s7, contFaults <- s8

Ws == INSTANCE WorkspaceUse WITH
    WsTasks <- {"t1"}, Clients <- Processes, NoClient <- Nil, MaxUses <- 2, MaxTries <- 1,
    uses <- s1, tasks <- s2, helpers <- s3, place <- s4, work <- s5, snapshots <- s6, refs <- s7,
    ending <- s8, useOwner <- s9, clients <- s10

Check == INSTANCE Checkpoints WITH
    Removers <- Processes, MaxEdits <- 2, MaxAttempts <- 2,
    folder <- s1, creation <- s2, candidate <- s3, snapshot <- s4, receipt <- s5, removals <- s6,
    removers <- s7

Claude == INSTANCE ClaudeStream WITH
    Agents <- {"a1"}, Questions <- {"q1"}, MaxResults <- 1,
    parser <- s1, machine <- s2, said <- s3, ended <- s4

Codex == INSTANCE CodexStream WITH
    Items <- {"i1"}, Inputs <- {"n1"}, Steers <- {"s1"}, MaxFinals <- 2,
    program <- s1, readers <- s2, live <- s3, observed <- s4, said <- s5, sealed <- s6

Pi == INSTANCE PiStream WITH
    Texts <- {"p", "q"},
    parsers <- s1, told <- s2, exit <- s3

Open == INSTANCE OpenCodeStream WITH
    MessageIds <- Objects, Settings <- 1, MaxChunks <- 3, MaxEvents <- 4,
    dialect <- s1, expected <- s2, agent <- s3, replayed <- s4, steps <- s5, log <- s6,
    recorded <- s7, uttered <- s8, outcome <- s9

Env == INSTANCE EnvelopeReaders WITH
    MaxNesting <- 2, Marker <- <<1, 1, 0, 1>>, MaxStderr <- 5,
    channel <- s1, conversation <- s2, scanner <- s3, envelope <- s4, document <- s5,
    noted <- s6, ending <- s7, stderr <- s8, matcher <- s9

-----------------------------------------------------------------------------
\* A component with k variables leaves the others at rest.
Unused(k) ==
    /\ IF k < 4 THEN s4 = 0 ELSE TRUE
    /\ IF k < 5 THEN s5 = 0 ELSE TRUE
    /\ IF k < 6 THEN s6 = 0 ELSE TRUE
    /\ IF k < 7 THEN s7 = 0 ELSE TRUE
    /\ IF k < 8 THEN s8 = 0 ELSE TRUE
    /\ IF k < 9 THEN s9 = 0 ELSE TRUE
    /\ IF k < 10 THEN s10 = 0 ELSE TRUE
    /\ IF k < 11 THEN s11 = 0 ELSE TRUE
    /\ IF k < 12 THEN s12 = 0 ELSE TRUE
    /\ IF k < 13 THEN s13 = 0 ELSE TRUE
    /\ IF k < 14 THEN s14 = 0 ELSE TRUE
    /\ IF k < 15 THEN s15 = 0 ELSE TRUE
    /\ IF k < 16 THEN s16 = 0 ELSE TRUE
    /\ IF k < 17 THEN s17 = 0 ELSE TRUE
    /\ IF k < 18 THEN s18 = 0 ELSE TRUE
    /\ IF k < 19 THEN s19 = 0 ELSE TRUE
    /\ IF k < 20 THEN s20 = 0 ELSE TRUE
    /\ IF k < 21 THEN s21 = 0 ELSE TRUE
    /\ IF k < 22 THEN s22 = 0 ELSE TRUE
    /\ IF k < 23 THEN s23 = 0 ELSE TRUE
    /\ IF k < 24 THEN s24 = 0 ELSE TRUE
    /\ IF k < 25 THEN s25 = 0 ELSE TRUE
    /\ IF k < 26 THEN s26 = 0 ELSE TRUE
    /\ IF k < 27 THEN s27 = 0 ELSE TRUE
    /\ IF k < 28 THEN s28 = 0 ELSE TRUE
    /\ IF k < 29 THEN s29 = 0 ELSE TRUE

AtRest(k) ==
    /\ UNCHANGED focus
    /\ IF k < 4 THEN UNCHANGED s4 ELSE TRUE
    /\ IF k < 5 THEN UNCHANGED s5 ELSE TRUE
    /\ IF k < 6 THEN UNCHANGED s6 ELSE TRUE
    /\ IF k < 7 THEN UNCHANGED s7 ELSE TRUE
    /\ IF k < 8 THEN UNCHANGED s8 ELSE TRUE
    /\ IF k < 9 THEN UNCHANGED s9 ELSE TRUE
    /\ IF k < 10 THEN UNCHANGED s10 ELSE TRUE
    /\ IF k < 11 THEN UNCHANGED s11 ELSE TRUE
    /\ IF k < 12 THEN UNCHANGED s12 ELSE TRUE
    /\ IF k < 13 THEN UNCHANGED s13 ELSE TRUE
    /\ IF k < 14 THEN UNCHANGED s14 ELSE TRUE
    /\ IF k < 15 THEN UNCHANGED s15 ELSE TRUE
    /\ IF k < 16 THEN UNCHANGED s16 ELSE TRUE
    /\ IF k < 17 THEN UNCHANGED s17 ELSE TRUE
    /\ IF k < 18 THEN UNCHANGED s18 ELSE TRUE
    /\ IF k < 19 THEN UNCHANGED s19 ELSE TRUE
    /\ IF k < 20 THEN UNCHANGED s20 ELSE TRUE
    /\ IF k < 21 THEN UNCHANGED s21 ELSE TRUE
    /\ IF k < 22 THEN UNCHANGED s22 ELSE TRUE
    /\ IF k < 23 THEN UNCHANGED s23 ELSE TRUE
    /\ IF k < 24 THEN UNCHANGED s24 ELSE TRUE
    /\ IF k < 25 THEN UNCHANGED s25 ELSE TRUE
    /\ IF k < 26 THEN UNCHANGED s26 ELSE TRUE
    /\ IF k < 27 THEN UNCHANGED s27 ELSE TRUE
    /\ IF k < 28 THEN UNCHANGED s28 ELSE TRUE
    /\ IF k < 29 THEN UNCHANGED s29 ELSE TRUE

Init ==
    \/ focus = "run" /\ Run!RunInit /\ Unused(29)
    \/ focus = "directory" /\ Dir!DirInit /\ Unused(13)
    \/ focus = "continuation" /\ Cont!ContInit /\ Unused(8)
    \/ focus = "continuationCrash" /\ ContCrash!ContInit /\ Unused(8)
    \/ focus = "continuationRace" /\ ContRace!ContInit /\ Unused(8)
    \/ focus = "workspace" /\ Ws!WsInit /\ Unused(10)
    \/ focus = "checkpoint" /\ Check!CheckpointInit /\ Unused(7)
    \/ focus = "claude" /\ Claude!ClaudeInit /\ Unused(4)
    \/ focus = "codex" /\ Codex!CodexInit /\ Unused(6)
    \/ focus = "pi" /\ Pi!PiInit /\ Unused(3)
    \/ focus = "opencode" /\ Open!OpenCodeInit /\ Unused(9)
    \/ focus = "envelope" /\ Env!EnvelopeInit /\ Unused(9)

Next ==
    \/ focus = "run" /\ Run!RunNext /\ AtRest(29)
    \/ focus = "directory" /\ Dir!DirNext /\ AtRest(13)
    \/ focus = "continuation" /\ Cont!ContNext /\ AtRest(8)
    \/ focus = "continuationCrash" /\ ContCrash!ContNext /\ AtRest(8)
    \/ focus = "continuationRace" /\ ContRace!ContNext /\ AtRest(8)
    \/ focus = "workspace" /\ Ws!WsNext /\ AtRest(10)
    \/ focus = "checkpoint" /\ Check!CheckpointNext /\ AtRest(7)
    \/ focus = "claude" /\ Claude!ClaudeNext /\ AtRest(4)
    \/ focus = "codex" /\ Codex!CodexNext /\ AtRest(6)
    \/ focus = "pi" /\ Pi!PiNext /\ AtRest(3)
    \/ focus = "opencode" /\ Open!OpenCodeNext /\ AtRest(9)
    \/ focus = "envelope" /\ Env!EnvelopeNext /\ AtRest(9)

vars == <<focus, s1, s2, s3, s4, s5, s6, s7, s8, s9, s10, s11, s12, s13, s14, s15, s16, s17, s18,
          s19, s20, s21, s22, s23, s24, s25, s26, s27, s28, s29>>

Spec == Init /\ [][Next]_vars

\* Processes and tasks are interchangeable in every component.
Symmetry == Permutations(Processes) \cup Permutations(Objects)

-----------------------------------------------------------------------------
\* What a provider run seals is complete and still, and a message reaches the provider at most
\* once and never unrecorded (execution/run.go, execution/interaction.go,
\* taskdir/interaction.go).
RunIsSafe == focus = "run" => Run!RunTypeOK /\ Run!RunIsSafe

\* What a reader was told of a task or its outcome is still so after a power failure, every
\* outcome is backed by its records, and however often its creation is repeated, raced or
\* scavenged, a task is started by one worker at most (taskdir.go, lock.go, publication.go,
\* execution.go).
TaskRecordsHold == focus = "directory" => Dir!DirTypeOK /\ Dir!OutcomeHolds /\ Dir!TaskStartsOnce

\* A conversation is in the hands of one task at a time, however commands that continue it
\* interleave, and a proven release stays provable (taskdir/session.go,
\* tasklifecycle/continue.go, predecessor.go).
ConversationIsSafe ==
    /\ focus = "continuation" => Cont!ContTypeOK /\ Cont!ConversationIsSafe
    /\ focus = "continuationCrash" => ContCrash!ContTypeOK /\ ContCrash!ConversationIsSafe
    /\ focus = "continuationRace" => ContRace!ContTypeOK /\ ContRace!ConversationIsSafe

\* A workspace has one occupant, is released only with its final capture complete, and no
\* snapshot or ref is lost by whoever removes it (resource.go, capture.go, release.go,
\* forget.go).
WorkspaceIsSafe == focus = "workspace" => Ws!WsTypeOK /\ Ws!WorkspaceIsSafe

\* A checkpoint that is reported is pinned, one that is reported removed is gone for good, and
\* removals are serial (checkpoint_qualify.go, checkpoint_removal.go, git_checkpoint.go).
CheckpointIsTrue == focus = "checkpoint" => Check!CheckpointTypeOK /\ Check!CheckpointIsTrue

\* A Claude run is committed only whole: no failure stated, the last answer kept, no agent or
\* question left open (claude/current_parser.go, claude/interaction.go).
ClaudeIsTrue == focus = "claude" => Claude!ClaudeTypeOK /\ Claude!ClaudeIsTrue

\* A Codex turn is committed only with its last answer, the readers of all revisions agree, and
\* the live machine agrees with the sealed stream (codex/events_current.go,
\* codex/interaction_current.go).
CodexIsTrue == focus = "codex" => Codex!CodexTypeOK /\ Codex!CodexIsTrue

\* A Pi run is committed only with the text of its last cycle and without a stated failure, and
\* both revisions agree (pi/current_parser.go, pi/predicate.go).
PiIsTrue == focus = "pi" => Pi!PiTypeOK /\ Pi!PiIsTrue

\* The answer selected from chunks is exactly the last message, and revisions commit what
\* earlier ones did (opencode/current_events.go, opencode/acp_transitions.go).
OpenCodeIsTrue == focus = "opencode" => Open!OpenCodeTypeOK /\ Open!OpenCodeIsTrue

\* The conversation recorded while a document streams is the one both readers find in it, and
\* the timeout mark is found however it is cut (providerjson/value.go, antigravity/identity.go,
\* stream_parser_timeout.go).
EnvelopeIsTrue == focus = "envelope" => Env!EnvelopeTypeOK /\ Env!EnvelopeIsTrue

=============================================================================
