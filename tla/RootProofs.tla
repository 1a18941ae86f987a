----------------------------- MODULE RootProofs -----------------------------
(***************************************************************************)
(* Theorems about what else lives under a state root, for any number of    *)
(* processes, callers, owners and faults: the scheduler's host, the status *)
(* of a task, and the custody of executables.                              *)
(*                                                                         *)
(* The host (SchedulerHost): what a stop report means, that a stop record  *)
(* ends the launches of its host, that the last word of a child counts,    *)
(* and that a host that shows itself ready has a runtime.  The execution   *)
(* lease E orders the processes, the records of a run and of its child say *)
(* what each may still do, and the journal says whose records they are;    *)
(* together they are inductive.                                            *)
(*                                                                         *)
(* The status (TaskStatus): a call knows when it began to listen and what  *)
(* it has read since, whoever observes for it.  The custody (Custody): a   *)
(* disposer knows whose closure it has proven, and its gate holds new      *)
(* views off while it removes images.                                      *)
(***************************************************************************)
EXTENDS SchedulerHost, TaskStatus, Custody, SequenceTheorems, FiniteSetTheorems, TLAPS


(* What the values are *)

RunPCs == {"off", "serving", "joining", "awaiting", "releasing", "foreground", "finishing",
           "gone"}
ChildWords == {"none", "known", "uncertain"}
FenceRecords == [attempt : Nat, child : ChildWords]
RunRecords == [pc : RunPCs, epoch : Nat, attempt : 0 .. MaxLaunches,
               state : {"starting", "ready", "backoff", "degraded", "stopping"},
               permanent : BOOLEAN, accepted : BOOLEAN, intent : FenceRecords,
               timer : {"none", "retry", "readiness"}, closeErr : BOOLEAN]
Inboxes == {<<>>, <<"ready">>, <<"eof">>, <<"ready", "eof">>, <<"incompatible", "eof">>,
            <<"cleanup", "eof">>}
ResidentRecords == [pc : {"none", "spawned", "owning", "waiting", "running", "exited"},
                    frames : Inboxes, input : {"open", "closed"}, confirmed : BOOLEAN,
                    known : BOOLEAN, code : {"ok", "busy", "failed"}, doomed : BOOLEAN]
StopPCs == {"idle", "asking", "fence", "pending", "leaving", "stopped"}

HostTypes ==
    /\ hLease \in HostRuns \cup {NoRun}
    /\ eLease \in [kind : {"free", "child", "foreground", "host"}, run : HostRuns \cup {NoRun}]
    /\ epochs \in Seq([kind : {"managed", "foreground"}, run : HostRuns])
    /\ fences \in Seq(FenceRecords)
    /\ Len(fences) = Len(epochs)
    /\ closures \subseteq DOMAIN epochs
    /\ runs \in [HostRuns -> RunRecords]
    /\ residents \in [HostRuns -> ResidentRecords]
    /\ stopping \in [pc : StopPCs, epoch : Nat, host : HostRuns \cup {NoRun}]
    /\ hostFaults \in 0 .. MaxHostFaults

--------------------
(* The inductive invariant *)

\* What a child has said goes with how far it is.
Talks(c) ==
    /\ c.pc \in {"none", "spawned", "owning", "running"} => c.frames = <<>>
    /\ c.pc \in {"spawned", "owning"} => ~c.confirmed
    /\ c.pc = "waiting" => c.frames = <<>> \/ (c.frames = <<"ready">> /\ ~c.confirmed)

\* A run without a child, and one that waits for its next launch.
Childless(h, c) ==
    /\ h.pc \in {"off", "awaiting", "releasing", "foreground", "finishing"} => c.pc = "none"
    /\ h.pc = "off" => h = NewRun /\ ~c.doomed
    /\ h.pc = "serving" /\ h.timer = "retry" => c.pc = "none" /\ ~c.doomed

\* A child's last word was heard, or is still to be read.
Heard(h, c) ==
    h.pc = "serving" /\ c.doomed => h.permanent \/ h.accepted \/ TerminalFrames(c.frames)

\* Readiness is shown of a confirmed child, and no longer once the host is ending.
Shown(h, c) ==
    /\ h.permanent \/ h.accepted => h.state # "ready"
    /\ h.pc = "serving" /\ h.state = "ready" =>
         c.pc = "exited" \/ (c.pc \in {"waiting", "running"} /\ c.confirmed)

\* The stop record a run will write, or wrote, is of its last launch.
Bound(h) == h.intent # NoFence => (h.permanent \/ h.accepted) /\ h.intent.attempt = h.attempt

Fits(h, c) == Talks(c) /\ Childless(h, c) /\ Heard(h, c) /\ Shown(h, c) /\ Bound(h)

\* Who needs E has it.
HoldsLease(h, c, lease, r) ==
    /\ c.pc \in {"owning", "waiting", "running"} => lease = E("child", r)
    /\ h.pc = "foreground" => lease = E("foreground", r)
    /\ h.pc = "releasing" => lease = E("host", r)

\* A run knows its epoch, and a process that serves has one.
Dated(h, r) ==
    /\ h.pc \in {"serving", "joining", "awaiting", "releasing", "foreground", "finishing"} =>
         h.epoch # 0
    /\ h.epoch # 0 => h.epoch \in DOMAIN epochs /\ epochs[h.epoch].run = r

Sound(r) ==
    /\ Fits(runs[r], residents[r])
    /\ HoldsLease(runs[r], residents[r], eLease, r)
    /\ Dated(runs[r], r)

\* An epoch is of one run, its stop record is that run's, and it is closed when
\* that run has no child and starts none.
Recorded(e) ==
    LET h == runs[epochs[e].run]
    IN  /\ h.pc # "off" /\ h.epoch \in {0, e}
        /\ fences[e] # NoFence => h.epoch = e /\ h.intent = fences[e]
        /\ e \in closures =>
             h.epoch = e /\ h.pc \in {"releasing", "gone"} /\ residents[epochs[e].run].pc = "none"

\* The stop command follows one epoch, and goes on from what it read.
Followed ==
    /\ stopping.pc # "idle" =>
         stopping.epoch \in DOMAIN epochs /\ stopping.host = epochs[stopping.epoch].run
    /\ stopping.pc \in {"leaving", "stopped"} => stopping.epoch \in closures
    /\ stopping.pc = "stopped" => runs[stopping.host].pc = "gone"

HostInv ==
    /\ HostTypes
    /\ \A r \in HostRuns : Sound(r)
    /\ \A e \in DOMAIN epochs : Recorded(e)
    /\ Followed

--------------------
(* One process moves at a time *)

Processing == {"serving", "joining", "awaiting", "releasing", "foreground", "finishing"}
Over == {"releasing", "gone"}

\* A run goes on from where it was: it stays in its epoch, does not come back,
\* and has no child again once it has none and serves no longer.
GoesOn(r, h, c) ==
    /\ h.epoch = runs[r].epoch /\ h.pc # "off"
    /\ h.pc = "gone" \/ runs[r].pc \in Processing
    /\ runs[r].pc = "gone" => h.pc = "gone"
    /\ runs[r].pc \in Over /\ residents[r].pc = "none" => h.pc \in Over /\ c.pc = "none"

\* E passes only through the hands of the one that moves.
LeaseMoves(r) ==
    /\ eLease' \in [kind : {"free", "child", "foreground", "host"}, run : HostRuns \cup {NoRun}]
    /\ eLease' = eLease \/ eLease.kind = "free" \/ eLease.run = r

\* The records that a move of r leaves, and what they say of it.
Becomes(r, h, c) ==
    /\ runs' = [runs EXCEPT ![r] = h] /\ residents' = [residents EXCEPT ![r] = c]
    /\ h \in RunRecords /\ c \in ResidentRecords
    /\ Fits(h, c) /\ HoldsLease(h, c, eLease', r) /\ GoesOn(r, h, c)
    /\ LeaseMoves(r)
    /\ hLease' \in HostRuns \cup {NoRun} /\ hostFaults' \in 0 .. MaxHostFaults
    /\ epochs' = epochs

\* The stop records and the closed records change for r's epoch alone.
Journals(r, h, c) ==
    /\ fences' \in Seq(FenceRecords) /\ Len(fences') = Len(fences)
    /\ \A e \in DOMAIN epochs : epochs[e].run # r => fences'[e] = fences[e]
    /\ \A e \in DOMAIN epochs : epochs[e].run = r /\ fences'[e] # NoFence =>
         h.epoch = e /\ h.intent = fences'[e]
    /\ closures' \subseteq DOMAIN epochs /\ closures \subseteq closures'
    /\ \A e \in closures' : e \in closures
         \/ (epochs[e].run = r /\ h.epoch = e /\ h.pc \in Over /\ c.pc = "none")

\* The journal's records by their sequence numbers.
LEMMA JournalTypes ==
  ASSUME HostTypes
  PROVE  /\ DOMAIN epochs = 1 .. Len(epochs) /\ DOMAIN fences = 1 .. Len(epochs)
         /\ Len(epochs) \in Nat
         /\ \A e \in DOMAIN epochs : epochs[e].run \in HostRuns /\ fences[e] \in FenceRecords
         /\ \A e \in DOMAIN epochs :
              epochs[e] \in [kind : {"managed", "foreground"}, run : HostRuns]
  <1> DEFINE Es == [kind : {"managed", "foreground"}, run : HostRuns]
  <1>1. epochs \in Seq(Es) /\ fences \in Seq(FenceRecords) /\ Len(fences) = Len(epochs)
    BY DEF HostTypes
  <1>2. \A x \in Es : x.run \in HostRuns
    OBVIOUS
  <1> HIDE DEF Es
  <1>3. /\ DOMAIN epochs = 1 .. Len(epochs) /\ DOMAIN fences = 1 .. Len(epochs)
        /\ Len(epochs) \in Nat
        /\ \A e \in DOMAIN epochs : epochs[e] \in Es /\ fences[e] \in FenceRecords
    BY <1>1
  <1> QED BY <1>2, <1>3 DEF Es

\* A move of one process leaves every process sound.
LEMMA OthersStaySound ==
  ASSUME HostInv, NEW r \in HostRuns, NEW h, NEW c, Becomes(r, h, c)
  PROVE  \A o \in HostRuns : Sound(o)'
  <1> SUFFICES ASSUME NEW o \in HostRuns PROVE Sound(o)'
    OBVIOUS
  <1>1. /\ runs \in [HostRuns -> RunRecords] /\ residents \in [HostRuns -> ResidentRecords]
        /\ Sound(o) /\ Sound(r)
    BY DEF HostInv, HostTypes
  <1>2. CASE o = r
    <2>1. runs'[o] = h /\ residents'[o] = c
      BY <1>1, <1>2 DEF Becomes
    <2>2. Fits(runs'[o], residents'[o]) /\ HoldsLease(runs'[o], residents'[o], eLease', o)
      BY <2>1, <1>2 DEF Becomes
    <2>3. /\ h.pc \in Processing => h.epoch # 0
          /\ h.epoch # 0 => h.epoch \in DOMAIN epochs /\ epochs[h.epoch].run = r
      BY <1>1 DEF Becomes, GoesOn, Sound, Dated, Processing
    <2>4. Dated(h, r)'
      BY <2>3 DEF Dated, Processing, Becomes
    <2>5. Dated(runs[o], o)'
      BY <2>1, <2>3, <1>2 DEF Dated, Processing, Becomes
    <2> QED BY <2>2, <2>5 DEF Sound
  <1>3. CASE o # r
    <2>1. runs'[o] = runs[o] /\ residents'[o] = residents[o]
      BY <1>1, <1>3 DEF Becomes
    <2>2. Fits(runs'[o], residents'[o])
      BY <2>1, <1>1 DEF Sound
    <2>3. HoldsLease(runs[o], residents[o], eLease', o)
      BY <1>1, <1>3 DEF Becomes, LeaseMoves, HoldsLease, Sound, E, FreeE
    <2>4. Dated(runs[o], o)'
      BY <1>1, <2>1 DEF Sound, Dated, Becomes
    <2> QED BY <2>1, <2>2, <2>3, <2>4 DEF Sound
  <1> QED BY <1>2, <1>3

\* And the journal goes on saying whose its records are.
LEMMA JournalStaysSound ==
  ASSUME HostInv, NEW r \in HostRuns, NEW h, NEW c, Becomes(r, h, c), Journals(r, h, c)
  PROVE  \A e \in DOMAIN epochs : Recorded(e)'
  <1> SUFFICES ASSUME NEW e \in DOMAIN epochs PROVE Recorded(e)'
    OBVIOUS
  <1> DEFINE o == epochs[e].run
  <1>1. /\ runs \in [HostRuns -> RunRecords] /\ residents \in [HostRuns -> ResidentRecords]
        /\ o \in HostRuns /\ epochs' = epochs
    BY JournalTypes DEF HostInv, HostTypes, Becomes
  <1>2. /\ runs[o].pc # "off" /\ runs[o].epoch \in {0, e}
        /\ fences[e] # NoFence => runs[o].epoch = e /\ runs[o].intent = fences[e]
        /\ e \in closures => runs[o].epoch = e /\ runs[o].pc \in Over /\ residents[o].pc = "none"
    BY DEF HostInv, Recorded, Over
  <1>3. CASE o = r
    <2>1. runs'[o] = h /\ residents'[o] = c
      BY <1>1, <1>3 DEF Becomes
    <2>2. h.pc # "off" /\ h.epoch \in {0, e}
      BY <1>2, <1>3 DEF Becomes, GoesOn
    <2>3. fences'[e] # NoFence => h.epoch = e /\ h.intent = fences'[e]
      BY <1>3 DEF Journals
    <2>4. e \in closures' => h.epoch = e /\ h.pc \in Over /\ c.pc = "none"
      BY <1>2, <1>3 DEF Journals, Becomes, GoesOn
    <2> QED BY <1>1, <1>3, <2>1, <2>2, <2>3, <2>4 DEF Recorded, Over
  <1>4. CASE o # r
    <2>1. runs'[o] = runs[o] /\ residents'[o] = residents[o]
      BY <1>1, <1>4 DEF Becomes
    <2>2. fences'[e] = fences[e] /\ (e \in closures' => e \in closures)
      BY <1>4 DEF Journals
    <2> QED BY <1>1, <1>2, <2>1, <2>2 DEF Recorded, Over
  <1> QED BY <1>3, <1>4

\* What the stop command has read stays true.
LEMMA StopStaysSound ==
  ASSUME HostInv, NEW r \in HostRuns, NEW h, NEW c, Becomes(r, h, c), Journals(r, h, c),
         stopping' = stopping
  PROVE  Followed'
  <1>1. /\ runs \in [HostRuns -> RunRecords] /\ epochs' = epochs /\ closures \subseteq closures'
        /\ Followed
    BY DEF HostInv, HostTypes, Becomes, Journals
  <1>2. ASSUME stopping.pc = "stopped" PROVE runs'[stopping.host].pc = "gone"
    <2>1. stopping.host \in HostRuns /\ runs[stopping.host].pc = "gone"
      BY <1>1, <1>2, JournalTypes DEF Followed, HostInv
    <2>2. CASE stopping.host = r BY <1>1, <2>1, <2>2 DEF Becomes, GoesOn
    <2>3. CASE stopping.host # r BY <1>1, <2>1, <2>3 DEF Becomes
    <2> QED BY <2>2, <2>3
  <1> QED BY <1>1, <1>2 DEF Followed

\* A move keeps the values in range.
LEMMA TypesAreKept ==
  ASSUME HostInv, NEW r \in HostRuns, NEW h, NEW c, Becomes(r, h, c), Journals(r, h, c),
         stopping' \in [pc : StopPCs, epoch : Nat, host : HostRuns \cup {NoRun}]
  PROVE  HostTypes'
  <1>1. HostTypes
    BY DEF HostInv
  <1>2. runs' \in [HostRuns -> RunRecords] /\ residents' \in [HostRuns -> ResidentRecords]
    BY <1>1 DEF HostTypes, Becomes
  <1> QED BY <1>1, <1>2 DEF HostTypes, Becomes, Journals, LeaseMoves

\* The invariant survives a move that the stop command has no part in.
LEMMA MoveKeeps ==
  ASSUME HostInv, NEW r \in HostRuns, NEW h, NEW c, Becomes(r, h, c), Journals(r, h, c),
         stopping' = stopping
  PROVE  HostInv'
  <1>1. HostTypes'
    BY TypesAreKept DEF HostInv, HostTypes
  <1>2. epochs' = epochs
    BY DEF Becomes
  <1> QED BY <1>1, <1>2, OthersStaySound, JournalStaysSound, StopStaysSound DEF HostInv

\* A move that leaves the journal alone.
LEMMA QuietJournal ==
  ASSUME HostInv, NEW r \in HostRuns, NEW h, NEW c, Becomes(r, h, c),
         h.intent = runs[r].intent, fences' = fences, closures' = closures
  PROVE  Journals(r, h, c)
  <1>1. /\ fences \in Seq(FenceRecords) /\ Len(fences') = Len(fences)
        /\ closures \subseteq DOMAIN epochs /\ h.epoch = runs[r].epoch
        /\ \A e \in DOMAIN epochs : fences[e] # NoFence /\ epochs[e].run = r =>
             runs[r].epoch = e /\ runs[r].intent = fences[e]
    BY DEF HostInv, HostTypes, Becomes, GoesOn, Recorded
  <1> QED BY <1>1 DEF Journals

\* The invariant survives such a move.
LEMMA QuietMoveKeeps ==
  ASSUME HostInv, NEW r \in HostRuns, NEW h, NEW c, Becomes(r, h, c),
         h.intent = runs[r].intent, fences' = fences, closures' = closures,
         stopping' = stopping
  PROVE  HostInv'
  BY QuietJournal, MoveKeeps

--------------------
(* What a child tells its host *)

\* Which of the frames a child may send are its last word.
LEMMA Inbox ==
  /\ ~TerminalFrames(<<>>) /\ ~TerminalFrames(<<"ready">>) /\ ~TerminalFrames(<<"eof">>)
  /\ ~TerminalFrames(<<"ready", "eof">>)
  /\ TerminalFrames(<<"incompatible", "eof">>) /\ TerminalFrames(<<"cleanup", "eof">>)
  /\ TerminalFrames(<<"incompatible">>) /\ TerminalFrames(<<"cleanup">>)
  <1>1. /\ DOMAIN <<>> = {} /\ DOMAIN <<"ready">> = {1} /\ DOMAIN <<"eof">> = {1}
        /\ DOMAIN <<"ready", "eof">> = {1, 2} /\ DOMAIN <<"incompatible", "eof">> = {1, 2}
        /\ DOMAIN <<"cleanup", "eof">> = {1, 2} /\ DOMAIN <<"incompatible">> = {1}
        /\ DOMAIN <<"cleanup">> = {1}
    OBVIOUS
  <1> QED BY <1>1 DEF TerminalFrames

\* Frames are sent one after the other, and read in that order.
LEMMA TwoFrames ==
  ASSUME NEW S, NEW a \in S, NEW b \in S
  PROVE  <<a>> \o <<b>> = <<a, b>>
  <1>1. <<a>> \in Seq(S) /\ <<b>> \in Seq(S) /\ <<a, b>> \in Seq(S)
    OBVIOUS
  <1>2. Len(<<a>>) = 1 /\ Len(<<b>>) = 1 /\ Len(<<a, b>>) = 2
    OBVIOUS
  <1>3. /\ <<a>> \o <<b>> \in Seq(S) /\ Len(<<a>> \o <<b>>) = 2
        /\ (<<a>> \o <<b>>)[1] = a /\ (<<a>> \o <<b>>)[2] = b
    BY <1>1, <1>2, ConcatProperties
  <1>4. \A i \in 1 .. 2 : (<<a>> \o <<b>>)[i] = <<a, b>>[i]
    BY <1>3
  <1> QED BY <1>1, <1>2, <1>3, <1>4, SeqEqual

\* What a child's frames become when it adds to them.
LEMMA Frames ==
  /\ Append(<<>>, "ready") = <<"ready">>
  /\ <<>> \o <<>> \o <<"eof">> = <<"eof">>
  /\ <<"ready">> \o <<>> \o <<"eof">> = <<"ready", "eof">>
  /\ <<>> \o <<"incompatible">> \o <<"eof">> = <<"incompatible", "eof">>
  /\ <<>> \o <<"cleanup">> \o <<"eof">> = <<"cleanup", "eof">>
  <1> DEFINE Words == {"ready", "incompatible", "cleanup", "eof"}
  <1>1. Append(<<>>, "ready") = <<"ready">>
    OBVIOUS
  <1>2. /\ "ready" \in Words /\ "incompatible" \in Words /\ "cleanup" \in Words
        /\ "eof" \in Words
    OBVIOUS
  <1>3. /\ <<>> \in Seq(Words) /\ <<"ready">> \in Seq(Words)
        /\ <<"incompatible">> \in Seq(Words) /\ <<"cleanup">> \in Seq(Words)
        /\ <<"eof">> \in Seq(Words)
    OBVIOUS
  <1> HIDE DEF Words
  <1>4. /\ <<>> \o <<>> = <<>> /\ <<"ready">> \o <<>> = <<"ready">>
        /\ <<>> \o <<"incompatible">> = <<"incompatible">>
        /\ <<>> \o <<"cleanup">> = <<"cleanup">> /\ <<>> \o <<"eof">> = <<"eof">>
    BY <1>3, ConcatEmptySeq, Zenon
  <1>5. /\ <<"ready">> \o <<"eof">> = <<"ready", "eof">>
        /\ <<"incompatible">> \o <<"eof">> = <<"incompatible", "eof">>
        /\ <<"cleanup">> \o <<"eof">> = <<"cleanup", "eof">>
    BY <1>2, TwoFrames, Zenon
  <1> QED BY <1>1, <1>4, <1>5, Zenon

\* And when the host reads one.
LEMMA FramesRead ==
  /\ Head(<<"ready">>) = "ready" /\ Tail(<<"ready">>) = <<>>
  /\ Head(<<"eof">>) = "eof" /\ Tail(<<"eof">>) = <<>>
  /\ Head(<<"ready", "eof">>) = "ready" /\ Tail(<<"ready", "eof">>) = <<"eof">>
  /\ Head(<<"incompatible", "eof">>) = "incompatible"
  /\ Tail(<<"incompatible", "eof">>) = <<"eof">>
  /\ Head(<<"cleanup", "eof">>) = "cleanup" /\ Tail(<<"cleanup", "eof">>) = <<"eof">>
  OBVIOUS

\* What is known of a process.
LEMMA ProcessTypes ==
  ASSUME HostInv, NEW r \in HostRuns
  PROVE  /\ runs \in [HostRuns -> RunRecords] /\ residents \in [HostRuns -> ResidentRecords]
         /\ runs[r] \in RunRecords /\ residents[r] \in ResidentRecords
         /\ Fits(runs[r], residents[r]) /\ HoldsLease(runs[r], residents[r], eLease, r)
         /\ Dated(runs[r], r)
         /\ eLease \in [kind : {"free", "child", "foreground", "host"}, run : HostRuns \cup {NoRun}]
         /\ hLease \in HostRuns \cup {NoRun} /\ hostFaults \in 0 .. MaxHostFaults
  BY DEF HostInv, HostTypes, Sound

\* The count of failures stays in bounds.
LEMMA Faults ==
  ASSUME MaxHostFaults \in Nat, HostInv, Fail \/ NoFail
  PROVE  hostFaults' \in 0 .. MaxHostFaults
  BY DEF Fail, NoFail, HostInv, HostTypes

--------------------
(* The moves of a host that the journal does not see *)

\* A run that finds H taken is gone.
LEMMA LeaseBusyKeeps ==
  ASSUME MaxHostFaults \in Nat, HostInv, NEW r \in HostRuns, LeaseBusy(r)
  PROVE  HostInv'
  <1>1. PICK h : h = [runs[r] EXCEPT !.pc = "gone"]
    OBVIOUS
  <1>2. PICK c : c = residents[r]
    OBVIOUS
  <1>3. runs' = [runs EXCEPT ![r] = h] /\ residents' = [residents EXCEPT ![r] = c]
    BY <1>1, <1>2, ProcessTypes DEF LeaseBusy, NewRun, NoFence
  <1>4. h \in RunRecords /\ c \in ResidentRecords
    <2>1. runs[r] \in RunRecords /\ residents[r] \in ResidentRecords
      BY ProcessTypes
    <2>2. h \in RunRecords
      BY <1>1, <2>1 DEF RunRecords, RunPCs
    <2>3. c \in ResidentRecords
      BY <1>2, <2>1 DEF ResidentRecords
    <2> QED BY <2>2, <2>3
  <1>5. Fits(h, c)
    <2>1. Talks(c)
      BY <1>1, <1>2, ProcessTypes DEF Fits, Talks, LeaseBusy, NewRun, NoFence
    <2>2. Childless(h, c)
      BY <1>1, <1>2, ProcessTypes DEF Fits, Childless, RunRecords, ResidentRecords, LeaseBusy,
         NewRun, NoFence
    <2>3. Heard(h, c)
      BY <1>1, <1>2, ProcessTypes DEF Fits, Heard, RunRecords, ResidentRecords, LeaseBusy, NewRun,
         NoFence
    <2>4. Shown(h, c)
      BY <1>1, <1>2, ProcessTypes DEF Fits, Shown, RunRecords, ResidentRecords, LeaseBusy, NewRun,
         NoFence
    <2>5. Bound(h)
      BY <1>1, <1>2, ProcessTypes DEF Fits, Bound, RunRecords, ResidentRecords, LeaseBusy, NewRun,
         NoFence
    <2> QED BY <2>1, <2>2, <2>3, <2>4, <2>5 DEF Fits
  <1>6. HoldsLease(h, c, eLease', r)
    BY <1>1, <1>2, ProcessTypes DEF HoldsLease, Fits, Childless, RunRecords, ResidentRecords, E,
       FreeE, LeaseBusy, NewRun, NoFence
  <1>7. GoesOn(r, h, c) /\ h.intent = runs[r].intent
    BY <1>1, <1>2, ProcessTypes DEF GoesOn, Processing, Over, Fits, Childless, RunRecords, RunPCs,
       ResidentRecords, LeaseBusy, NewRun, NoFence
  <1>8. LeaseMoves(r) /\ hLease' \in HostRuns \cup {NoRun}
    BY ProcessTypes DEF LeaseMoves, E, FreeE, LeaseBusy, NewRun, NoFence
  <1>9. hostFaults' \in 0 .. MaxHostFaults
    BY ProcessTypes DEF LeaseBusy, NewRun, NoFence
  <1>10. Becomes(r, h, c)
    BY <1>3, <1>4, <1>5, <1>6, <1>7, <1>8, <1>9 DEF Becomes, LeaseBusy, NewRun, NoFence
  <1> QED BY <1>7, <1>10, QuietMoveKeeps DEF LeaseBusy, NewRun, NoFence

\* A foreground run gives E up.
LEMMA ForegroundEndsKeeps ==
  ASSUME MaxHostFaults \in Nat, HostInv, NEW r \in HostRuns, ForegroundEnds(r)
  PROVE  HostInv'
  <1>1. PICK h : h = [runs[r] EXCEPT !.pc = "finishing"]
    OBVIOUS
  <1>2. PICK c : c = residents[r]
    OBVIOUS
  <1>3. runs' = [runs EXCEPT ![r] = h] /\ residents' = [residents EXCEPT ![r] = c]
    BY <1>1, <1>2, ProcessTypes DEF ForegroundEnds
  <1>4. h \in RunRecords /\ c \in ResidentRecords
    <2>1. runs[r] \in RunRecords /\ residents[r] \in ResidentRecords
      BY ProcessTypes
    <2>2. h \in RunRecords
      BY <1>1, <2>1 DEF RunRecords, RunPCs
    <2>3. c \in ResidentRecords
      BY <1>2, <2>1 DEF ResidentRecords
    <2> QED BY <2>2, <2>3
  <1>5. Fits(h, c)
    <2>1. Talks(c)
      BY <1>1, <1>2, ProcessTypes DEF Fits, Talks, ForegroundEnds
    <2>2. Childless(h, c)
      BY <1>1, <1>2, ProcessTypes DEF Fits, Childless, RunRecords, ResidentRecords, ForegroundEnds
    <2>3. Heard(h, c)
      BY <1>1, <1>2, ProcessTypes DEF Fits, Heard, RunRecords, ResidentRecords, ForegroundEnds
    <2>4. Shown(h, c)
      BY <1>1, <1>2, ProcessTypes DEF Fits, Shown, RunRecords, ResidentRecords, ForegroundEnds
    <2>5. Bound(h)
      BY <1>1, <1>2, ProcessTypes DEF Fits, Bound, RunRecords, ResidentRecords, ForegroundEnds
    <2> QED BY <2>1, <2>2, <2>3, <2>4, <2>5 DEF Fits
  <1>6. HoldsLease(h, c, eLease', r)
    <2>1. h.pc = "finishing" /\ c.pc = "none"
      BY <1>1, <1>2, ProcessTypes DEF Fits, Childless, RunRecords, ForegroundEnds
    <2> QED BY <2>1 DEF HoldsLease
  <1>7. GoesOn(r, h, c) /\ h.intent = runs[r].intent
    BY <1>1, <1>2, ProcessTypes DEF GoesOn, Processing, Over, Fits, Childless, RunRecords, RunPCs,
       ResidentRecords, ForegroundEnds
  <1>8. LeaseMoves(r) /\ hLease' \in HostRuns \cup {NoRun}
    BY ProcessTypes DEF LeaseMoves, E, FreeE, ForegroundEnds
  <1>9. hostFaults' \in 0 .. MaxHostFaults
    BY ProcessTypes DEF ForegroundEnds
  <1>10. Becomes(r, h, c)
    BY <1>3, <1>4, <1>5, <1>6, <1>7, <1>8, <1>9 DEF Becomes, ForegroundEnds
  <1> QED BY <1>7, <1>10, QuietMoveKeeps DEF ForegroundEnds

\* The readiness timer is shown and nothing else.
LEMMA ReadinessExpiresKeeps ==
  ASSUME MaxHostFaults \in Nat, HostInv, NEW r \in HostRuns, ReadinessExpires(r)
  PROVE  HostInv'
  <1>1. PICK h : h = [runs[r] EXCEPT !.timer = "none", !.state = "degraded"]
    OBVIOUS
  <1>2. PICK c : c = residents[r]
    OBVIOUS
  <1>3. runs' = [runs EXCEPT ![r] = h] /\ residents' = [residents EXCEPT ![r] = c]
    BY <1>1, <1>2, ProcessTypes DEF ReadinessExpires, Serving
  <1>4. h \in RunRecords /\ c \in ResidentRecords
    <2>1. runs[r] \in RunRecords /\ residents[r] \in ResidentRecords
      BY ProcessTypes
    <2>2. h \in RunRecords
      BY <1>1, <2>1 DEF RunRecords, RunPCs
    <2>3. c \in ResidentRecords
      BY <1>2, <2>1 DEF ResidentRecords
    <2> QED BY <2>2, <2>3
  <1>5. Fits(h, c)
    <2>1. Talks(c)
      BY <1>1, <1>2, ProcessTypes DEF Fits, Talks, ReadinessExpires, Serving
    <2>2. Childless(h, c)
      BY <1>1, <1>2, ProcessTypes DEF Fits, Childless, RunRecords, ResidentRecords,
         ReadinessExpires, Serving
    <2>3. Heard(h, c)
      BY <1>1, <1>2, ProcessTypes DEF Fits, Heard, RunRecords, ResidentRecords, ReadinessExpires,
         Serving
    <2>4. Shown(h, c)
      BY <1>1, <1>2, ProcessTypes DEF Fits, Shown, RunRecords, ResidentRecords, ReadinessExpires,
         Serving
    <2>5. Bound(h)
      BY <1>1, <1>2, ProcessTypes DEF Fits, Bound, RunRecords, ResidentRecords, ReadinessExpires,
         Serving
    <2> QED BY <2>1, <2>2, <2>3, <2>4, <2>5 DEF Fits
  <1>6. HoldsLease(h, c, eLease', r)
    BY <1>1, <1>2, ProcessTypes DEF HoldsLease, Fits, Childless, RunRecords, ResidentRecords, E,
       FreeE, ReadinessExpires, Serving
  <1>7. GoesOn(r, h, c) /\ h.intent = runs[r].intent
    BY <1>1, <1>2, ProcessTypes DEF GoesOn, Processing, Over, Fits, Childless, RunRecords, RunPCs,
       ResidentRecords, ReadinessExpires, Serving
  <1>8. LeaseMoves(r) /\ hLease' \in HostRuns \cup {NoRun}
    BY ProcessTypes DEF LeaseMoves, E, FreeE, ReadinessExpires, Serving
  <1>9. hostFaults' \in 0 .. MaxHostFaults
    BY ProcessTypes DEF ReadinessExpires, Serving
  <1>10. Becomes(r, h, c)
    BY <1>3, <1>4, <1>5, <1>6, <1>7, <1>8, <1>9 DEF Becomes, ReadinessExpires, Serving
  <1> QED BY <1>7, <1>10, QuietMoveKeeps DEF ReadinessExpires, Serving

\* A host that ends joins its child.
LEMMA JoinChildKeeps ==
  ASSUME MaxHostFaults \in Nat, HostInv, NEW r \in HostRuns, JoinChild(r)
  PROVE  HostInv'
  <1>1. PICK h : h = [runs[r] EXCEPT !.pc = "awaiting", !.closeErr = residents[r].code = "failed"]
    OBVIOUS
  <1>2. PICK c : c = NoResident
    OBVIOUS
  <1>3. runs' = [runs EXCEPT ![r] = h] /\ residents' = [residents EXCEPT ![r] = c]
    BY <1>1, <1>2, ProcessTypes DEF JoinChild, NoResident
  <1>4. h \in RunRecords /\ c \in ResidentRecords
    <2>1. runs[r] \in RunRecords /\ residents[r] \in ResidentRecords
      BY ProcessTypes
    <2>2. h \in RunRecords
      BY <1>1, <2>1 DEF RunRecords, RunPCs
    <2>3. c \in ResidentRecords
      BY <1>2, <2>1 DEF ResidentRecords, NoResident, Inboxes
    <2> QED BY <2>2, <2>3
  <1>5. Fits(h, c)
    <2>1. Talks(c)
      BY <1>1, <1>2, ProcessTypes DEF Fits, Talks, JoinChild, NoResident
    <2>2. Childless(h, c)
      BY <1>1, <1>2, ProcessTypes DEF Fits, Childless, RunRecords, ResidentRecords, JoinChild,
         NoResident
    <2>3. Heard(h, c)
      BY <1>1, <1>2, ProcessTypes DEF Fits, Heard, RunRecords, ResidentRecords, JoinChild,
         NoResident
    <2>4. Shown(h, c)
      BY <1>1, <1>2, ProcessTypes DEF Fits, Shown, RunRecords, ResidentRecords, JoinChild,
         NoResident
    <2>5. Bound(h)
      BY <1>1, <1>2, ProcessTypes DEF Fits, Bound, RunRecords, ResidentRecords, JoinChild,
         NoResident
    <2> QED BY <2>1, <2>2, <2>3, <2>4, <2>5 DEF Fits
  <1>6. HoldsLease(h, c, eLease', r)
    BY <1>1, <1>2, ProcessTypes DEF HoldsLease, Fits, Childless, RunRecords, ResidentRecords, E,
       FreeE, JoinChild, NoResident
  <1>7. GoesOn(r, h, c) /\ h.intent = runs[r].intent
    BY <1>1, <1>2, ProcessTypes DEF GoesOn, Processing, Over, Fits, Childless, RunRecords, RunPCs,
       ResidentRecords, JoinChild, NoResident
  <1>8. LeaseMoves(r) /\ hLease' \in HostRuns \cup {NoRun}
    BY ProcessTypes DEF LeaseMoves, E, FreeE, JoinChild, NoResident
  <1>9. hostFaults' \in 0 .. MaxHostFaults
    BY ProcessTypes DEF JoinChild, NoResident
  <1>10. Becomes(r, h, c)
    BY <1>3, <1>4, <1>5, <1>6, <1>7, <1>8, <1>9 DEF Becomes, JoinChild, NoResident
  <1> QED BY <1>7, <1>10, QuietMoveKeeps DEF JoinChild, NoResident

\* A host releases E and H and is gone.
LEMMA HostEndsKeeps ==
  ASSUME MaxHostFaults \in Nat, HostInv, NEW r \in HostRuns, HostEnds(r)
  PROVE  HostInv'
  <1>1. PICK h : h = [runs[r] EXCEPT !.pc = "gone"]
    OBVIOUS
  <1>2. PICK c : c = residents[r]
    OBVIOUS
  <1>3. runs' = [runs EXCEPT ![r] = h] /\ residents' = [residents EXCEPT ![r] = c]
    BY <1>1, <1>2, ProcessTypes DEF HostEnds
  <1>4. h \in RunRecords /\ c \in ResidentRecords
    <2>1. runs[r] \in RunRecords /\ residents[r] \in ResidentRecords
      BY ProcessTypes
    <2>2. h \in RunRecords
      BY <1>1, <2>1 DEF RunRecords, RunPCs
    <2>3. c \in ResidentRecords
      BY <1>2, <2>1 DEF ResidentRecords
    <2> QED BY <2>2, <2>3
  <1>5. Fits(h, c)
    <2>1. Talks(c)
      BY <1>1, <1>2, ProcessTypes DEF Fits, Talks, HostEnds
    <2>2. Childless(h, c)
      BY <1>1, <1>2, ProcessTypes DEF Fits, Childless, RunRecords, ResidentRecords, HostEnds
    <2>3. Heard(h, c)
      BY <1>1, <1>2, ProcessTypes DEF Fits, Heard, RunRecords, ResidentRecords, HostEnds
    <2>4. Shown(h, c)
      BY <1>1, <1>2, ProcessTypes DEF Fits, Shown, RunRecords, ResidentRecords, HostEnds
    <2>5. Bound(h)
      BY <1>1, <1>2, ProcessTypes DEF Fits, Bound, RunRecords, ResidentRecords, HostEnds
    <2> QED BY <2>1, <2>2, <2>3, <2>4, <2>5 DEF Fits
  <1>6. HoldsLease(h, c, eLease', r)
    BY <1>1, <1>2, ProcessTypes DEF HoldsLease, Fits, Childless, RunRecords, ResidentRecords, E,
       FreeE, HostEnds
  <1>7. GoesOn(r, h, c) /\ h.intent = runs[r].intent
    BY <1>1, <1>2, ProcessTypes DEF GoesOn, Processing, Over, Fits, Childless, RunRecords, RunPCs,
       ResidentRecords, HostEnds
  <1>8. LeaseMoves(r) /\ hLease' \in HostRuns \cup {NoRun}
    BY ProcessTypes DEF LeaseMoves, E, FreeE, HostEnds
  <1>9. hostFaults' \in 0 .. MaxHostFaults
    BY ProcessTypes DEF HostEnds
  <1>10. Becomes(r, h, c)
    BY <1>3, <1>4, <1>5, <1>6, <1>7, <1>8, <1>9 DEF Becomes, HostEnds
  <1> QED BY <1>7, <1>10, QuietMoveKeeps DEF HostEnds

\* A run dies at any point; its child does not.
LEMMA RunDiesKeeps ==
  ASSUME MaxHostFaults \in Nat, HostInv, NEW r \in HostRuns, RunDies(r)
  PROVE  HostInv'
  <1>1. PICK h : h = [runs[r] EXCEPT !.pc = "gone"]
    OBVIOUS
  <1>2. PICK c : c = residents[r]
    OBVIOUS
  <1>3. runs' = [runs EXCEPT ![r] = h] /\ residents' = [residents EXCEPT ![r] = c]
    BY <1>1, <1>2, ProcessTypes DEF RunDies, Alive
  <1>4. h \in RunRecords /\ c \in ResidentRecords
    <2>1. runs[r] \in RunRecords /\ residents[r] \in ResidentRecords
      BY ProcessTypes
    <2>2. h \in RunRecords
      BY <1>1, <2>1 DEF RunRecords, RunPCs
    <2>3. c \in ResidentRecords
      BY <1>2, <2>1 DEF ResidentRecords
    <2> QED BY <2>2, <2>3
  <1>5. Fits(h, c)
    <2>1. Talks(c)
      BY <1>1, <1>2, ProcessTypes DEF Fits, Talks, RunDies, Alive
    <2>2. Childless(h, c)
      BY <1>1, <1>2, ProcessTypes DEF Fits, Childless, RunRecords, ResidentRecords, RunDies, Alive
    <2>3. Heard(h, c)
      BY <1>1, <1>2, ProcessTypes DEF Fits, Heard, RunRecords, ResidentRecords, RunDies, Alive
    <2>4. Shown(h, c)
      BY <1>1, <1>2, ProcessTypes DEF Fits, Shown, RunRecords, ResidentRecords, RunDies, Alive
    <2>5. Bound(h)
      BY <1>1, <1>2, ProcessTypes DEF Fits, Bound, RunRecords, ResidentRecords, RunDies, Alive
    <2> QED BY <2>1, <2>2, <2>3, <2>4, <2>5 DEF Fits
  <1>6. HoldsLease(h, c, eLease', r)
    BY <1>1, <1>2, ProcessTypes DEF HoldsLease, Fits, Childless, RunRecords, ResidentRecords, E,
       FreeE, RunDies, Alive
  <1>7. GoesOn(r, h, c) /\ h.intent = runs[r].intent
    BY <1>1, <1>2, ProcessTypes DEF GoesOn, Processing, Over, Fits, Childless, RunRecords, RunPCs,
       ResidentRecords, RunDies, Alive
  <1>8. LeaseMoves(r) /\ hLease' \in HostRuns \cup {NoRun}
    BY ProcessTypes DEF LeaseMoves, E, FreeE, RunDies, Alive
  <1>9. hostFaults' \in 0 .. MaxHostFaults
    BY Faults DEF RunDies, Alive
  <1>10. Becomes(r, h, c)
    BY <1>3, <1>4, <1>5, <1>6, <1>7, <1>8, <1>9 DEF Becomes, RunDies, Alive
  <1> QED BY <1>7, <1>10, QuietMoveKeeps DEF RunDies, Alive

--------------------
(* The moves of a child *)

\* A step of a child that is there, whatever its run does.
ChildMoves(r, c) ==
    /\ runs' = runs /\ residents' = [residents EXCEPT ![r] = c]
    /\ ChildAlive(r) /\ c \in ResidentRecords
    /\ Talks(c) /\ Heard(runs[r], c) /\ Shown(runs[r], c)
    /\ c.pc \in {"owning", "waiting", "running"} => eLease' = E("child", r)
    /\ LeaseMoves(r) /\ (Fail \/ NoFail)
    /\ UNCHANGED <<hLease, epochs, fences, closures, stopping>>

\* Such a move of a child keeps the invariant.
LEMMA ChildMovesKeep ==
  ASSUME MaxHostFaults \in Nat, HostInv, NEW r \in HostRuns, NEW c, ChildMoves(r, c)
  PROVE  HostInv'
  <1>1. PICK h : h = runs[r]
    OBVIOUS
  <1>2. /\ runs[r].pc \notin {"off", "awaiting", "releasing", "foreground", "finishing"}
        /\ ~(runs[r].pc = "serving" /\ runs[r].timer = "retry")
        /\ runs[r].pc \in {"serving", "joining", "gone"}
    BY ProcessTypes DEF Fits, Childless, RunRecords, RunPCs, ResidentRecords, ChildAlive, ChildMoves
  <1>3. runs' = [runs EXCEPT ![r] = h] /\ residents' = [residents EXCEPT ![r] = c]
    BY <1>1, ProcessTypes DEF ChildMoves
  <1>4. h \in RunRecords /\ c \in ResidentRecords
    BY <1>1, ProcessTypes DEF ChildMoves
  <1>5. Fits(h, c)
    BY <1>1, <1>2, ProcessTypes DEF Fits, Childless, ChildMoves
  <1>6. HoldsLease(h, c, eLease', r)
    BY <1>1, <1>2 DEF HoldsLease, ChildMoves
  <1>7. GoesOn(r, h, c) /\ h.intent = runs[r].intent
    BY <1>1, <1>2, ProcessTypes DEF GoesOn, Processing, Over, ChildMoves, ChildAlive
  <1>8. Becomes(r, h, c)
    BY <1>3, <1>4, <1>5, <1>6, <1>7, ProcessTypes, Faults DEF Becomes, ChildMoves
  <1> QED BY <1>7, <1>8, QuietMoveKeeps DEF ChildMoves

\* However a child ends, its host can still read what it last said.
LEMMA ExitKeeps ==
  ASSUME MaxHostFaults \in Nat, HostInv, NEW r \in HostRuns,
         NEW code \in {"ok", "busy", "failed"}, NEW last, ExitWith(r, code, last),
         ChildAlive(r), Fail \/ NoFail,
         \/ last = <<>>
         \/ last \in {<<"incompatible">>, <<"cleanup">>} /\ residents[r].frames = <<>>,
         UNCHANGED <<hLease, epochs, fences, closures, runs, stopping>>
  PROVE  HostInv'
  <1>1. PICK c : c = Ended(residents[r], code, last)
    OBVIOUS
  <1>2. PICK d : d = residents[r]
    OBVIOUS
  <1>3. /\ d \in ResidentRecords /\ Fits(runs[r], d) /\ d.pc \notin {"none", "exited"}
    BY <1>2, ProcessTypes DEF ChildAlive
  <1>4. d.frames = <<>> \/ d.frames = <<"ready">>
    BY <1>3 DEF Fits, Talks, ResidentRecords
  <1>5. PICK fs : fs = d.frames \o last \o <<"eof">>
    OBVIOUS
  <1>6. fs \in Inboxes /\ (last # <<>> => TerminalFrames(fs))
    <2>1. CASE last = <<>> BY <1>4, <1>5, <2>1, Frames DEF Inboxes
    <2>2. CASE last \in {<<"incompatible">>, <<"cleanup">>} /\ d.frames = <<>>
      BY <1>5, <2>2, Frames, Inbox DEF Inboxes
    <2> QED BY <1>2, <2>1, <2>2
  <1>7. c = [d EXCEPT !.pc = "exited", !.code = code, !.frames = fs,
                      !.doomed = @ \/ last # <<>>, !.confirmed = FALSE]
    BY <1>1, <1>2, <1>5 DEF Ended
  <1>8. /\ c.pc = "exited" /\ c.frames = fs
        /\ c.doomed => d.doomed \/ TerminalFrames(fs)
    BY <1>3, <1>6, <1>7 DEF ResidentRecords
  <1>9. c \in ResidentRecords
    <2>1. (d.doomed \/ last # <<>>) \in BOOLEAN
      OBVIOUS
    <2> QED BY <1>3, <1>6, <1>7, <2>1 DEF ResidentRecords
  <1>10. residents' = [residents EXCEPT ![r] = c]
    BY <1>1 DEF ExitWith
  <1>11. Talks(c)
    BY <1>8 DEF Talks
  <1>12. Heard(runs[r], c)
    <2>1. ~TerminalFrames(d.frames)
      BY <1>4, Inbox
    <2> QED BY <1>3, <1>8, <2>1 DEF Heard, Fits
  <1>13. Shown(runs[r], c)
    BY <1>3, <1>8 DEF Shown, Fits
  <1>14. LeaseMoves(r)
    BY ProcessTypes DEF LeaseMoves, ExitWith, E, FreeE
  <1>15. ChildMoves(r, c)
    BY <1>8, <1>9, <1>10, <1>11, <1>12, <1>13, <1>14 DEF ChildMoves
  <1> QED BY <1>15, ChildMovesKeep

\* A child that has not ended ends without a word at any point.
LEMMA ChildDiesKeeps ==
  ASSUME MaxHostFaults \in Nat, HostInv, NEW r \in HostRuns, ChildDies(r)
  PROVE  HostInv'
  BY ExitKeeps DEF ChildDies

\* A child takes E when it is free, and ends when it is not.
LEMMA TakeExecutionKeeps ==
  ASSUME MaxHostFaults \in Nat, HostInv, NEW r \in HostRuns, TakeExecution(r)
  PROVE  HostInv'
  <1>1. ChildAlive(r) /\ residents[r].pc = "spawned" /\ NoFail
    BY DEF TakeExecution, ChildAlive, NoFail
  <1>2. CASE eLease = FreeE
    <2>1. PICK c : c = [residents[r] EXCEPT !.pc = "owning"]
      OBVIOUS
    <2>2. residents[r] \in ResidentRecords /\ Fits(runs[r], residents[r])
      BY ProcessTypes
    <2>3. c \in ResidentRecords /\ c.pc = "owning" /\ c.frames = residents[r].frames
          /\ c.doomed = residents[r].doomed /\ c.confirmed = residents[r].confirmed
      BY <2>1, <2>2 DEF ResidentRecords
    <2>4. Talks(c) /\ Heard(runs[r], c) /\ Shown(runs[r], c)
      BY <1>1, <2>2, <2>3 DEF Fits, Talks, Heard, Shown
    <2>5. LeaseMoves(r)
      BY <1>2 DEF LeaseMoves, E, FreeE, TakeExecution
    <2>6. ChildMoves(r, c)
      BY <1>1, <1>2, <2>1, <2>3, <2>4, <2>5 DEF ChildMoves, TakeExecution
    <2> QED BY <2>6, ChildMovesKeep
  <1>3. CASE eLease # FreeE BY <1>1, <1>3, ExitKeeps DEF TakeExecution
  <1> QED BY <1>2, <1>3

\* A child that could confirm its host says so once, and one that could not ends.
LEMMA ConfirmHostKeeps ==
  ASSUME MaxHostFaults \in Nat, HostInv, NEW r \in HostRuns, ConfirmHost(r)
  PROVE  HostInv'
  <1>1. ChildAlive(r) /\ residents[r].pc = "owning" /\ (Fail \/ NoFail)
        /\ UNCHANGED <<hLease, epochs, fences, closures, runs, stopping>>
    BY DEF ConfirmHost, ChildAlive
  <1>2. residents[r] \in ResidentRecords /\ Fits(runs[r], residents[r])
        /\ residents[r].frames = <<>> /\ HoldsLease(runs[r], residents[r], eLease, r)
    BY <1>1, ProcessTypes DEF Fits, Talks
  <1>3. CASE /\ residents' = [residents EXCEPT ![r].pc = "waiting",
                                               ![r].frames = Append(@, "ready")]
             /\ UNCHANGED eLease
    <2>1. PICK c : c = [residents[r] EXCEPT !.pc = "waiting", !.frames = Append(@, "ready")]
      OBVIOUS
    <2>2. c = [residents[r] EXCEPT !.pc = "waiting", !.frames = <<"ready">>]
      BY <1>2, <2>1, Frames
    <2>3. c \in ResidentRecords /\ c.pc = "waiting" /\ c.frames = <<"ready">>
          /\ c.doomed = residents[r].doomed /\ c.confirmed = residents[r].confirmed
      BY <1>2, <2>2 DEF ResidentRecords, Inboxes
    <2>4. Talks(c) /\ Heard(runs[r], c) /\ Shown(runs[r], c)
      BY <1>1, <1>2, <2>3, Inbox DEF Fits, Talks, Heard, Shown
    <2>5. LeaseMoves(r)
      BY <1>3, ProcessTypes DEF LeaseMoves
    <2>6. eLease' = E("child", r)
      BY <1>1, <1>2, <1>3 DEF HoldsLease
    <2>7. residents' = [residents EXCEPT ![r] = c]
      BY <1>3, <2>1, ProcessTypes
    <2>8. ChildMoves(r, c)
      BY <1>1, <2>3, <2>4, <2>5, <2>6, <2>7 DEF ChildMoves
    <2> QED BY <2>8, ChildMovesKeep
  <1>4. CASE ExitWith(r, "failed", <<"incompatible">>) BY <1>1, <1>2, <1>4, ExitKeeps
  <1>5. CASE ExitWith(r, "failed", <<>>) BY <1>1, <1>5, ExitKeeps
  <1>6. CASE ExitWith(r, "ok", <<>>) BY <1>1, <1>6, ExitKeeps
  <1> QED BY <1>3, <1>4, <1>5, <1>6 DEF ConfirmHost

\* A confirmed child runs; one whose host is gone ends.
LEMMA AwaitConfirmationKeeps ==
  ASSUME MaxHostFaults \in Nat, HostInv, NEW r \in HostRuns, AwaitConfirmation(r)
  PROVE  HostInv'
  <1>1. ChildAlive(r) /\ residents[r].pc = "waiting" /\ NoFail
        /\ UNCHANGED <<hLease, epochs, fences, closures, runs, stopping>>
    BY DEF AwaitConfirmation, ChildAlive, NoFail
  <1>2. residents[r] \in ResidentRecords /\ Fits(runs[r], residents[r])
        /\ HoldsLease(runs[r], residents[r], eLease, r)
    BY ProcessTypes
  <1>3. CASE /\ residents[r].confirmed
             /\ residents' = [residents EXCEPT ![r].pc = "running"]
             /\ UNCHANGED eLease
    <2>1. PICK c : c = [residents[r] EXCEPT !.pc = "running"]
      OBVIOUS
    <2>2. c \in ResidentRecords /\ c.pc = "running" /\ c.frames = residents[r].frames
          /\ c.doomed = residents[r].doomed /\ c.confirmed
      BY <1>2, <1>3, <2>1 DEF ResidentRecords
    <2>3. Talks(c) /\ Heard(runs[r], c) /\ Shown(runs[r], c)
      BY <1>1, <1>2, <1>3, <2>2 DEF Fits, Talks, Heard, Shown
    <2>4. LeaseMoves(r)
      BY <1>3, ProcessTypes DEF LeaseMoves
    <2>5. eLease' = E("child", r)
      BY <1>1, <1>2, <1>3 DEF HoldsLease
    <2>6. ChildMoves(r, c)
      BY <1>1, <1>3, <2>1, <2>2, <2>3, <2>4, <2>5 DEF ChildMoves
    <2> QED BY <2>6, ChildMovesKeep
  <1>4. CASE ExitWith(r, "ok", <<>>) BY <1>1, <1>4, ExitKeeps
  <1> QED BY <1>3, <1>4 DEF AwaitConfirmation

\* A runtime ends with its host or by itself, and may say that it could not clean up.
LEMMA RuntimeEndsKeeps ==
  ASSUME MaxHostFaults \in Nat, HostInv, NEW r \in HostRuns, RuntimeEnds(r)
  PROVE  HostInv'
  <1>1. ChildAlive(r) /\ residents[r].frames = <<>> /\ (Fail \/ NoFail)
        /\ UNCHANGED <<hLease, epochs, fences, closures, runs, stopping>>
    BY ProcessTypes DEF RuntimeEnds, ChildAlive, Fits, Talks
  <1>2. CASE ExitWith(r, "failed", <<"cleanup">>) BY <1>1, <1>2, ExitKeeps
  <1>3. CASE ExitWith(r, "failed", <<>>) BY <1>1, <1>3, ExitKeeps
  <1>4. CASE ExitWith(r, "ok", <<>>) BY <1>1, <1>4, ExitKeeps
  <1> QED BY <1>2, <1>3, <1>4 DEF RuntimeEnds

--------------------
(* The loop of a host that serves *)

\* A turn of the loop: the lease and the journal stay as they were.
Turns(r, h, c) ==
    /\ runs' = [runs EXCEPT ![r] = h] /\ residents' = [residents EXCEPT ![r] = c]
    /\ h \in RunRecords /\ c \in ResidentRecords /\ Fits(h, c)
    /\ Serving(r) /\ h.pc = "serving" /\ h.epoch = runs[r].epoch /\ h.intent = runs[r].intent
    /\ c.pc \in {"owning", "waiting", "running"} => c.pc = residents[r].pc
    /\ Fail \/ NoFail
    /\ UNCHANGED <<hLease, eLease, epochs, fences, closures, stopping>>

\* A turn of the host, which only changes its own records, keeps the invariant.
LEMMA TurnsKeep ==
  ASSUME MaxHostFaults \in Nat, HostInv, NEW r \in HostRuns, NEW h, NEW c, Turns(r, h, c)
  PROVE  HostInv'
  <1>1. HoldsLease(h, c, eLease', r)
    BY ProcessTypes DEF Turns, HoldsLease
  <1>2. GoesOn(r, h, c)
    BY DEF Turns, GoesOn, Serving, Processing, Over
  <1>3. LeaseMoves(r)
    BY ProcessTypes DEF LeaseMoves, Turns
  <1>4. Becomes(r, h, c)
    BY <1>1, <1>2, <1>3, ProcessTypes, Faults DEF Becomes, Turns
  <1> QED BY <1>4, QuietMoveKeeps DEF Turns

\* A host is degraded for good, or waits for the next launch.
LEMMA DegradedFits ==
  ASSUME NEW h \in RunRecords, h.pc = "serving"
  PROVE  /\ Degraded(h) \in RunRecords /\ Degraded(h).pc = "serving" /\ Degraded(h).permanent
         /\ Degraded(h).epoch = h.epoch /\ Degraded(h).intent = h.intent
         /\ Degraded(h).attempt = h.attempt /\ Degraded(h).state = "degraded"
         /\ Degraded(h).timer # "retry" /\ Degraded(h).accepted = h.accepted
  BY DEF Degraded, RunRecords

\* A host that schedules its next launch goes on serving.
LEMMA ScheduledFits ==
  ASSUME NEW h \in RunRecords, h.pc = "serving"
  PROVE  /\ Scheduled(h) \in RunRecords /\ Scheduled(h).pc = "serving"
         /\ Scheduled(h).epoch = h.epoch /\ Scheduled(h).intent = h.intent
         /\ Scheduled(h).attempt = h.attempt /\ Scheduled(h).state = "backoff"
         /\ Scheduled(h).permanent = h.permanent /\ Scheduled(h).accepted = h.accepted
  BY DEF Scheduled, RunRecords

\* A launch starts a child only when none is there and no stop record was tried.
LEMMA LaunchKeeps ==
  ASSUME MaxLaunches \in Nat, MaxHostFaults \in Nat, HostInv, NEW r \in HostRuns, Launch(r)
  PROVE  HostInv'
  <1>1. PICK n : n = runs[r]
    OBVIOUS
  <1>2. PICK d : d = residents[r]
    OBVIOUS
  <1>3. /\ n \in RunRecords /\ d \in ResidentRecords /\ Fits(n, d)
        /\ n.pc = "serving" /\ n.timer = "retry" /\ n.attempt < MaxLaunches
        /\ d.pc = "none" /\ ~d.doomed /\ d.frames = <<>>
    BY <1>1, <1>2, ProcessTypes DEF Launch, Serving, Fits, Childless, Talks
  <1>4. /\ Serving(r) /\ (Fail \/ NoFail)
        /\ UNCHANGED <<hLease, eLease, epochs, fences, closures, stopping>>
    BY DEF Launch
  <1>5. PICK h : h = [n EXCEPT !.timer = "none", !.attempt = @ + 1]
    OBVIOUS
  <1>6. /\ h \in RunRecords /\ h.pc = "serving" /\ h.epoch = n.epoch /\ h.intent = n.intent
        /\ h.permanent = n.permanent /\ h.accepted = n.accepted
    <2>1. n.attempt + 1 \in 0 .. MaxLaunches
      BY <1>3 DEF RunRecords
    <2> QED BY <1>3, <1>5, <2>1 DEF RunRecords
  <1>7. CASE n.permanent \/ n.accepted
    <2>1. PICK g : g = [n EXCEPT !.timer = "none"]
      OBVIOUS
    <2>2. /\ g \in RunRecords /\ g.pc = "serving" /\ g.epoch = n.epoch /\ g.intent = n.intent
          /\ g.permanent = n.permanent /\ g.accepted = n.accepted /\ g.timer = "none"
          /\ g.state = n.state /\ g.attempt = n.attempt
      BY <1>3, <2>1 DEF RunRecords
    <2>3. Fits(g, d)
      BY <1>3, <2>2 DEF Fits, Talks, Childless, Heard, Shown, Bound
    <2>4. runs' = [runs EXCEPT ![r] = g] /\ residents' = [residents EXCEPT ![r] = d]
      BY <1>1, <1>2, <1>7, <2>1, ProcessTypes DEF Launch
    <2>5. Turns(r, g, d)
      BY <1>1, <1>2, <1>3, <1>4, <2>2, <2>3, <2>4 DEF Turns
    <2> QED BY <2>5, TurnsKeep
  <1>8. CASE ~(n.permanent \/ n.accepted)
    <2>1. n.intent = NoFence
      BY <1>3, <1>8 DEF Fits, Bound
    <2>2. ASSUME NEW c \in ResidentRecords, c.pc = "spawned", c.frames = <<>>, ~c.confirmed,
                 ~c.doomed, NEW g \in RunRecords,
                 g.pc = "serving", g.epoch = n.epoch, g.intent = n.intent,
                 g.timer # "retry", g.state # "ready",
                 runs' = [runs EXCEPT ![r] = g],
                 residents' = [residents EXCEPT ![r] = c]
          PROVE  HostInv'
      <3>1. Fits(g, c)
        BY <2>1, <2>2 DEF Fits, Talks, Childless, Heard, Shown, Bound
      <3>2. Turns(r, g, c)
        BY <1>1, <1>4, <2>2, <3>1 DEF Turns
      <3> QED BY <3>2, TurnsKeep
    <2>3. CASE /\ runs' = [runs EXCEPT ![r] = [h EXCEPT !.state = "starting",
                                                        !.timer = "readiness"]]
               /\ residents' = [residents EXCEPT ![r] =
                     [NoResident EXCEPT !.pc = "spawned", !.input = "open",
                                        !.doomed = residents[r].doomed]]
      <3>1. PICK g : g = [h EXCEPT !.state = "starting", !.timer = "readiness"]
        OBVIOUS
      <3>2. /\ g \in RunRecords /\ g.pc = "serving" /\ g.epoch = n.epoch /\ g.intent = n.intent
            /\ g.timer # "retry" /\ g.state # "ready"
        BY <1>6, <3>1 DEF RunRecords
      <3>3. PICK c : c = [NoResident EXCEPT !.pc = "spawned", !.input = "open",
                                            !.doomed = residents[r].doomed]
        OBVIOUS
      <3>4. /\ c \in ResidentRecords /\ c.pc = "spawned" /\ c.frames = <<>> /\ ~c.confirmed
            /\ ~c.doomed
        BY <1>2, <1>3, <3>3 DEF NoResident, ResidentRecords, Inboxes
      <3> QED BY <2>2, <2>3, <3>1, <3>2, <3>3, <3>4
    <2>4. CASE runs' = [runs EXCEPT ![r] = Degraded(h)] /\ UNCHANGED residents
      <3>1. Fits(Degraded(h), d)
        BY <1>3, <1>6, <2>1, DegradedFits DEF Fits, Talks, Childless, Heard, Shown, Bound
      <3>2. residents' = [residents EXCEPT ![r] = d]
        BY <1>2, <2>4, ProcessTypes
      <3>3. Turns(r, Degraded(h), d)
        BY <1>1, <1>2, <1>3, <1>4, <1>6, <2>4, <3>1, <3>2, DegradedFits DEF Turns
      <3> QED BY <3>3, TurnsKeep
    <2>5. CASE runs' = [runs EXCEPT ![r] = Scheduled(h)] /\ UNCHANGED residents
      <3>1. Fits(Scheduled(h), d)
        BY <1>3, <1>6, <1>8, <2>1, ScheduledFits DEF Fits, Talks, Childless, Heard, Shown, Bound
      <3>2. residents' = [residents EXCEPT ![r] = d]
        BY <1>2, <2>5, ProcessTypes
      <3>3. Turns(r, Scheduled(h), d)
        BY <1>1, <1>2, <1>3, <1>4, <1>6, <2>5, <3>1, <3>2, ScheduledFits DEF Turns
      <3> QED BY <3>3, TurnsKeep
    <2>6. ASSUME NEW k \in BOOLEAN,
                 runs' = [runs EXCEPT ![r] = Degraded(h)],
                 residents' = [residents EXCEPT ![r] =
                     [[NoResident EXCEPT !.pc = "spawned", !.input = "open",
                                         !.doomed = residents[r].doomed]
                          EXCEPT !.input = "closed", !.known = k]]
          PROVE  HostInv'
      <3>1. PICK c : c = [[NoResident EXCEPT !.pc = "spawned", !.input = "open",
                                             !.doomed = residents[r].doomed]
                              EXCEPT !.input = "closed", !.known = k]
        OBVIOUS
      <3>2. /\ c \in ResidentRecords /\ c.pc = "spawned" /\ c.frames = <<>> /\ ~c.confirmed
            /\ ~c.doomed
        BY <1>2, <1>3, <2>6, <3>1 DEF NoResident, ResidentRecords, Inboxes
      <3>3. /\ Degraded(h) \in RunRecords /\ Degraded(h).pc = "serving"
            /\ Degraded(h).epoch = n.epoch /\ Degraded(h).intent = n.intent
            /\ Degraded(h).timer # "retry" /\ Degraded(h).state # "ready"
        BY <1>6, DegradedFits
      <3> QED BY <2>2, <2>6, <3>1, <3>2, <3>3
    <2> QED BY <1>1, <1>5, <1>8, <2>3, <2>4, <2>5, <2>6 DEF Launch
  <1> QED BY <1>7, <1>8

\* What a child may have said, read one frame at a time.
LEMMA NextFrame ==
  ASSUME NEW c \in ResidentRecords, Talks(c), c.frames # <<>>
  PROVE  /\ Tail(c.frames) \in {<<>>, <<"eof">>} /\ ~TerminalFrames(Tail(c.frames))
         /\ c.pc \in {"waiting", "exited"} /\ (c.pc = "waiting" => Tail(c.frames) = <<>>)
         /\ TerminalFrames(c.frames) <=> Head(c.frames) \in {"incompatible", "cleanup"}
         /\ Head(c.frames) \in {"incompatible", "cleanup", "ready", "eof"}
         /\ Head(c.frames) # "ready" => c.pc = "exited"
  <1>1. /\ c.frames \in {<<"ready">>, <<"eof">>, <<"ready", "eof">>, <<"incompatible", "eof">>,
                         <<"cleanup", "eof">>}
        /\ c.pc \in {"none", "spawned", "owning", "waiting", "running", "exited"}
    BY DEF ResidentRecords, Inboxes
  <1>2. c.pc \in {"waiting", "exited"} /\ (c.pc = "waiting" => c.frames = <<"ready">>)
    BY <1>1 DEF Talks
  <1>3. CASE c.frames = <<"ready">> BY <1>2, <1>3, FramesRead, Inbox
  <1>4. CASE c.frames = <<"eof">> BY <1>2, <1>4, FramesRead, Inbox
  <1>5. CASE c.frames = <<"ready", "eof">> BY <1>2, <1>5, FramesRead, Inbox
  <1>6. CASE c.frames = <<"incompatible", "eof">> BY <1>2, <1>6, FramesRead, Inbox
  <1>7. CASE c.frames = <<"cleanup", "eof">> BY <1>2, <1>7, FramesRead, Inbox
  <1> QED BY <1>1, <1>3, <1>4, <1>5, <1>6, <1>7

\* A frame moves the host as the frame says: the last word of a child degrades it
\* for good, and a ready frame of a child that is there makes it ready.
LEMMA ChildEventKeeps ==
  ASSUME MaxHostFaults \in Nat, HostInv, NEW r \in HostRuns, ChildEvent(r)
  PROVE  HostInv'
  <1>1. PICK n : n = runs[r]
    OBVIOUS
  <1>2. PICK d : d = residents[r]
    OBVIOUS
  <1>3. /\ n \in RunRecords /\ d \in ResidentRecords /\ Fits(n, d)
        /\ n.pc = "serving" /\ d.frames # <<>> /\ n.timer # "retry"
    BY <1>1, <1>2, ProcessTypes DEF ChildEvent, Serving, Fits, Childless, Talks
  <1>4. /\ Serving(r) /\ (Fail \/ NoFail)
        /\ UNCHANGED <<hLease, eLease, epochs, fences, closures, stopping>>
    BY DEF ChildEvent, NoFail
  <1>5. PICK f : f = Head(d.frames)
    OBVIOUS
  <1>6. PICK c : c = [d EXCEPT !.frames = Tail(@), !.confirmed = @ \/ FALSE]
    OBVIOUS
  <1>7. /\ Tail(d.frames) \in {<<>>, <<"eof">>} /\ ~TerminalFrames(Tail(d.frames))
        /\ d.pc \in {"waiting", "exited"} /\ (d.pc = "waiting" => Tail(d.frames) = <<>>)
        /\ TerminalFrames(d.frames) <=> f \in {"incompatible", "cleanup"}
        /\ f \in {"incompatible", "cleanup", "ready", "eof"}
        /\ f # "ready" => d.pc = "exited"
    BY <1>3, <1>5, NextFrame DEF Fits
  <1>8. /\ c \in ResidentRecords /\ c.pc = d.pc /\ c.frames = Tail(d.frames)
        /\ c.doomed = d.doomed /\ c.confirmed = d.confirmed
    BY <1>3, <1>6, <1>7 DEF ResidentRecords, Inboxes
  <1>9. Talks(c)
    BY <1>7, <1>8 DEF Talks
  <1>10. ASSUME NEW g \in RunRecords, g.pc = "serving", g.epoch = n.epoch, g.intent = n.intent,
                g.attempt = n.attempt, g.timer # "retry",
                g.permanent = n.permanent, g.accepted = n.accepted,
                g.state = n.state \/ g.state = "degraded", f \notin {"incompatible", "cleanup"},
                runs' = [runs EXCEPT ![r] = g], residents' = [residents EXCEPT ![r] = c]
         PROVE  HostInv'
    <2>1. Childless(g, c) /\ Bound(g)
      BY <1>3, <1>10 DEF Fits, Childless, Bound
    <2>2. Heard(g, c) /\ Shown(g, c)
      BY <1>3, <1>7, <1>8, <1>10 DEF Fits, Heard, Shown
    <2>3. Turns(r, g, c)
      BY <1>1, <1>2, <1>4, <1>8, <1>9, <1>10, <2>1, <2>2 DEF Turns, Fits
    <2> QED BY <2>3, TurnsKeep
  <1>11. ASSUME NEW g \in RunRecords, g.pc = "serving", g.epoch = n.epoch, g.intent = n.intent,
                g.attempt = n.attempt, g.timer # "retry", g.permanent \/ g.accepted,
                g.state # "ready",
                runs' = [runs EXCEPT ![r] = g], residents' = [residents EXCEPT ![r] = c]
         PROVE  HostInv'
    <2>1. Childless(g, c) /\ Bound(g)
      BY <1>3, <1>11 DEF Fits, Childless, Bound
    <2>2. Heard(g, c) /\ Shown(g, c)
      BY <1>11 DEF Heard, Shown
    <2>3. Turns(r, g, c)
      BY <1>1, <1>2, <1>4, <1>8, <1>9, <1>11, <2>1, <2>2 DEF Turns, Fits
    <2> QED BY <2>3, TurnsKeep
  <1>12. CASE /\ f \in {"incompatible", "cleanup"}
              /\ runs' = [runs EXCEPT ![r] = PermanentFault(@, <<f>>)]
              /\ residents' = [residents EXCEPT ![r] = c]
    <2>1. PICK g : g = PermanentFault(n, <<f>>)
      OBVIOUS
    <2>2. /\ g \in RunRecords /\ g.pc = "serving" /\ g.epoch = n.epoch /\ g.intent = n.intent
          /\ g.attempt = n.attempt /\ g.timer # "retry" /\ (g.permanent \/ g.accepted)
          /\ g.state # "ready"
      <3>1. TerminalFrames(<<f>>)
        BY <1>12, Inbox
      <3>2. CASE n.accepted BY <1>3, <2>1, <3>2 DEF PermanentFault, Fits, Shown
      <3>3. CASE ~n.accepted BY <1>3, <2>1, <3>1, <3>3, DegradedFits DEF PermanentFault
      <3> QED BY <3>2, <3>3
    <2> QED BY <1>1, <1>11, <1>12, <2>1, <2>2
  <1>13. CASE /\ f = "ready" /\ runs' = runs
              /\ residents' = [residents EXCEPT ![r] = c]
    <2>1. runs' = [runs EXCEPT ![r] = n]
      BY <1>1, <1>13, ProcessTypes
    <2> QED BY <1>3, <1>10, <1>13, <2>1
  <1>14. CASE /\ f = "ready" /\ runs' = [runs EXCEPT ![r] = Degraded(@)]
              /\ residents' = [residents EXCEPT ![r] = c]
    BY <1>1, <1>3, <1>11, <1>14, DegradedFits
  <1>15. CASE /\ f = "ready" /\ runs' = [runs EXCEPT ![r].state = "degraded"]
              /\ residents' = [residents EXCEPT ![r] = c]
    <2>1. PICK g : g = [n EXCEPT !.state = "degraded"]
      OBVIOUS
    <2>2. /\ g \in RunRecords /\ g.pc = "serving" /\ g.epoch = n.epoch /\ g.intent = n.intent
          /\ g.attempt = n.attempt /\ g.timer # "retry"
          /\ g.permanent = n.permanent /\ g.accepted = n.accepted /\ g.state = "degraded"
      BY <1>3, <2>1 DEF RunRecords
    <2>3. runs' = [runs EXCEPT ![r] = g]
      BY <1>1, <1>15, <2>1
    <2> QED BY <1>10, <1>15, <2>2, <2>3
  <1>16. CASE /\ f = "ready" /\ ~n.permanent /\ ~n.accepted /\ d.pc # "exited"
              /\ runs' = [runs EXCEPT ![r].state = "ready", ![r].timer = "none"]
              /\ residents' = [residents EXCEPT ![r].frames = Tail(@),
                                                ![r].confirmed = @ \/ TRUE]
    <2>1. PICK g : g = [n EXCEPT !.state = "ready", !.timer = "none"]
      OBVIOUS
    <2>2. PICK k : k = [d EXCEPT !.frames = Tail(@), !.confirmed = @ \/ TRUE]
      OBVIOUS
    <2>3. runs' = [runs EXCEPT ![r] = g] /\ residents' = [residents EXCEPT ![r] = k]
      BY <1>1, <1>2, <1>16, <2>1, <2>2
    <2>4. /\ g \in RunRecords /\ g.pc = "serving" /\ g.epoch = n.epoch /\ g.intent = n.intent
          /\ g.attempt = n.attempt /\ g.timer = "none"
          /\ g.permanent = n.permanent /\ g.accepted = n.accepted /\ g.state = "ready"
      BY <1>3, <2>1 DEF RunRecords
    <2>5. /\ k \in ResidentRecords /\ k.pc = "waiting" /\ k.frames = <<>>
          /\ k.doomed = d.doomed /\ k.confirmed
      BY <1>3, <1>7, <1>16, <2>2 DEF ResidentRecords, Inboxes
    <2>6. Talks(k) /\ Childless(g, k) /\ Bound(g) /\ Shown(g, k)
      BY <1>3, <1>16, <2>4, <2>5 DEF Fits, Talks, Childless, Bound, Shown
    <2>7. Heard(g, k)
      BY <1>3, <1>7, <1>16, <2>4, <2>5 DEF Fits, Heard
    <2>8. Turns(r, g, k)
      BY <1>1, <1>2, <1>4, <1>7, <1>16, <2>3, <2>4, <2>5, <2>6, <2>7 DEF Turns, Fits
    <2> QED BY <2>8, TurnsKeep
  <1>17. CASE /\ f = "eof"
              /\ runs' = [runs EXCEPT ![r].state = IF n.permanent THEN @ ELSE "degraded"]
              /\ residents' = [residents EXCEPT ![r] = c]
    <2>1. PICK g : g = [n EXCEPT !.state = IF n.permanent THEN @ ELSE "degraded"]
      OBVIOUS
    <2>2. /\ g \in RunRecords /\ g.pc = "serving" /\ g.epoch = n.epoch /\ g.intent = n.intent
          /\ g.attempt = n.attempt /\ g.timer # "retry"
          /\ g.permanent = n.permanent /\ g.accepted = n.accepted
          /\ g.state = n.state \/ g.state = "degraded"
      BY <1>3, <2>1 DEF RunRecords
    <2>3. runs' = [runs EXCEPT ![r] = g]
      BY <1>1, <1>17, <2>1
    <2> QED BY <1>10, <1>17, <2>2, <2>3
  <1>18. \/ residents' = [residents EXCEPT ![r] = c]
         \/ /\ f = "ready" /\ ~n.permanent /\ ~n.accepted /\ d.pc # "exited"
            /\ runs' = [runs EXCEPT ![r].state = "ready", ![r].timer = "none"]
            /\ residents' = [residents EXCEPT ![r].frames = Tail(@),
                                              ![r].confirmed = @ \/ TRUE]
    BY <1>1, <1>2, <1>5, <1>6 DEF ChildEvent
  <1> QED BY <1>1, <1>2, <1>5, <1>7, <1>12, <1>13, <1>14, <1>15, <1>16, <1>17, <1>18 DEF ChildEvent

\* The exit of a child is taken after all it said.
LEMMA ChildWaitedKeeps ==
  ASSUME MaxHostFaults \in Nat, HostInv, NEW r \in HostRuns, ChildWaited(r)
  PROVE  HostInv'
  <1>1. PICK n : n = runs[r]
    OBVIOUS
  <1>2. PICK d : d = residents[r]
    OBVIOUS
  <1>3. /\ n \in RunRecords /\ d \in ResidentRecords /\ Fits(n, d)
        /\ n.pc = "serving" /\ d.pc = "exited" /\ n.timer # "retry"
    BY <1>1, <1>2, ProcessTypes DEF ChildWaited, Serving, Fits, Childless
  <1>4. /\ Serving(r) /\ (Fail \/ NoFail)
        /\ UNCHANGED <<hLease, eLease, epochs, fences, closures, stopping>>
    BY DEF ChildWaited
  <1>5. PICK c : c = [NoResident EXCEPT !.doomed = d.doomed]
    OBVIOUS
  <1>6. /\ c \in ResidentRecords /\ c.pc = "none" /\ c.frames = <<>> /\ c.doomed = d.doomed
    BY <1>3, <1>5 DEF ResidentRecords, NoResident, Inboxes
  <1>7. residents' = [residents EXCEPT ![r] = c]
    BY <1>2, <1>5 DEF ChildWaited
  <1>8. PICK m : m = PermanentFault(n, d.frames)
    OBVIOUS
  <1>9. /\ m \in RunRecords /\ m.pc = "serving" /\ m.epoch = n.epoch /\ m.intent = n.intent
        /\ m.attempt = n.attempt /\ m.timer # "retry"
        /\ (n.permanent \/ n.accepted => m.permanent \/ m.accepted)
        /\ (TerminalFrames(d.frames) => m.permanent \/ m.accepted)
        /\ (m.permanent \/ m.accepted => m.state # "ready")
    <2>1. CASE TerminalFrames(d.frames) /\ ~n.accepted
      BY <1>3, <1>8, <2>1, DegradedFits DEF PermanentFault
    <2>2. CASE ~(TerminalFrames(d.frames) /\ ~n.accepted)
      BY <1>3, <1>8, <2>2 DEF PermanentFault, Fits, Shown
    <2> QED BY <2>1, <2>2
  <1>10. PICK i : i = [m EXCEPT !.timer = IF @ = "readiness" THEN "none" ELSE @]
    OBVIOUS
  <1>11. /\ i \in RunRecords /\ i.pc = "serving" /\ i.epoch = n.epoch /\ i.intent = n.intent
         /\ i.attempt = n.attempt /\ i.timer # "retry"
         /\ i.permanent = m.permanent /\ i.accepted = m.accepted /\ i.state = m.state
    BY <1>9, <1>10 DEF RunRecords
  <1>12. PICK g : g = Exited(n, d)
    OBVIOUS
  <1>13. /\ g \in RunRecords /\ g.pc = "serving" /\ g.epoch = n.epoch /\ g.intent = n.intent
         /\ g.attempt = n.attempt
         /\ g.permanent = m.permanent /\ g.accepted = m.accepted
         /\ g.timer = "retry" => ~(m.permanent \/ m.accepted)
         /\ g.state # "ready"
    <2>1. CASE i.permanent \/ i.accepted
      <3>1. g = i
        BY <1>8, <1>10, <1>12, <2>1 DEF Exited
      <3> QED BY <1>9, <1>11, <2>1, <3>1
    <2>2. CASE ~(i.permanent \/ i.accepted)
      <3>1. g = Scheduled(i)
        BY <1>8, <1>10, <1>12, <2>2 DEF Exited
      <3> QED BY <1>11, <2>2, <3>1, ScheduledFits
    <2> QED BY <2>1, <2>2
  <1>14. d.doomed => m.permanent \/ m.accepted
    BY <1>3, <1>9 DEF Fits, Heard
  <1>15. n.intent # NoFence => (m.permanent \/ m.accepted) /\ n.intent.attempt = n.attempt
    BY <1>3, <1>9 DEF Fits, Bound
  <1>16. ASSUME NEW k \in RunRecords, k.pc = "serving", k.epoch = n.epoch, k.intent = n.intent,
                k.attempt = n.attempt, m.permanent \/ m.accepted => k.permanent \/ k.accepted,
                k.timer = "retry" => ~(m.permanent \/ m.accepted), k.state # "ready",
                runs' = [runs EXCEPT ![r] = k]
         PROVE  HostInv'
    <2>1. Talks(c) /\ Childless(k, c) /\ Heard(k, c) /\ Shown(k, c)
      BY <1>6, <1>14, <1>16 DEF Talks, Childless, Heard, Shown
    <2>2. Bound(k)
      BY <1>15, <1>16 DEF Bound
    <2>3. Turns(r, k, c)
      BY <1>1, <1>4, <1>6, <1>7, <1>16, <2>1, <2>2 DEF Turns, Fits
    <2> QED BY <2>3, TurnsKeep
  <1>17. CASE runs' = [runs EXCEPT ![r] = Exited(@, residents[r])]
    <2>1. runs' = [runs EXCEPT ![r] = g]
      BY <1>1, <1>2, <1>12, <1>17
    <2> QED BY <1>13, <1>16, <2>1
  <1>18. CASE runs' = [runs EXCEPT ![r] = Degraded(Exited(@, residents[r]))]
    <2>1. runs' = [runs EXCEPT ![r] = Degraded(g)]
      BY <1>1, <1>2, <1>12, <1>18
    <2> QED BY <1>13, <1>16, <2>1, DegradedFits
  <1> QED BY <1>17, <1>18 DEF ChildWaited

--------------------
(* The stop record *)

\* The stop record that a host writes, or wrote, is of its last launch.
LEMMA IntentFits ==
  ASSUME MaxLaunches \in Nat, HostInv, NEW r \in HostRuns, Looping(r)
  PROVE  /\ Intent(r) \in FenceRecords /\ Intent(r) # NoFence
         /\ Intent(r).attempt = runs[r].attempt
         /\ runs[r].epoch \in DOMAIN epochs /\ epochs[runs[r].epoch].run = r
         /\ fences[runs[r].epoch] # NoFence => fences[runs[r].epoch] = Intent(r)
         /\ \A e \in DOMAIN epochs : epochs[e].run = r => e = runs[r].epoch
  <1>1. /\ runs[r] \in RunRecords /\ Bound(runs[r]) /\ Dated(runs[r], r)
        /\ runs[r].pc = "serving" /\ runs[r].attempt > 0
    BY ProcessTypes DEF Looping, Serving, Fits
  <1>2. /\ runs[r].attempt \in Nat /\ runs[r].intent \in FenceRecords
    BY <1>1 DEF RunRecords
  <1>3. Intent(r) \in FenceRecords /\ Intent(r).attempt = runs[r].attempt
    <2>1. CASE runs[r].intent # NoFence BY <1>1, <1>2, <2>1 DEF Intent, Bound
    <2>2. CASE runs[r].intent = NoFence
      <3>1. PICK w \in ChildWords : Intent(r) = [attempt |-> runs[r].attempt, child |-> w]
        BY <2>2 DEF Intent, ChildWords
      <3> QED BY <1>2, <3>1 DEF FenceRecords
    <2> QED BY <2>1, <2>2
  <1>4. NoFence.attempt = 0
    BY DEF NoFence
  <1>5. Intent(r) # NoFence
    BY <1>1, <1>2, <1>3, <1>4
  <1>6. runs[r].epoch \in DOMAIN epochs /\ epochs[runs[r].epoch].run = r
    BY <1>1 DEF Dated
  <1>7. fences[runs[r].epoch] # NoFence => fences[runs[r].epoch] = Intent(r)
    <2>1. fences[runs[r].epoch] # NoFence => runs[r].intent = fences[runs[r].epoch]
      BY <1>6 DEF HostInv, Recorded
    <2> QED BY <2>1 DEF Intent
  <1>8. \A e \in DOMAIN epochs : epochs[e].run = r => e = runs[r].epoch
    BY <1>1 DEF HostInv, Recorded, Dated
  <1> QED BY <1>3, <1>5, <1>6, <1>7, <1>8

\* Publishing a stop record ends the launches of its host, whether the record is there for
\* certain or not; told to end itself, the host leaves its loop as well.
LEMMA Publishing ==
  ASSUME MaxLaunches \in Nat, MaxHostFaults \in Nat, HostInv, NEW r \in HostRuns, NEW told,
         Looping(r), PublishStop(r, told), UNCHANGED <<hLease, eLease, epochs, closures>>
  PROVE  \E h, c : Becomes(r, h, c) /\ Journals(r, h, c)
  <1>1. PICK i : i = Intent(r)
    OBVIOUS
  <1>2. PICK n : n = runs[r]
    OBVIOUS
  <1>3. PICK d : d = residents[r]
    OBVIOUS
  <1>4. /\ i \in FenceRecords /\ i # NoFence /\ i.attempt = n.attempt
        /\ n.epoch \in DOMAIN epochs /\ epochs[n.epoch].run = r
        /\ fences[n.epoch] # NoFence => fences[n.epoch] = i
        /\ \A e \in DOMAIN epochs : epochs[e].run = r => e = n.epoch
    BY <1>1, <1>2, IntentFits
  <1>5. /\ n \in RunRecords /\ d \in ResidentRecords /\ Fits(n, d) /\ n.pc = "serving"
    BY <1>2, <1>3, ProcessTypes DEF Looping, Serving
  <1>6. PICK stored \in BOOLEAN, committed \in BOOLEAN :
          /\ IF committed THEN stored /\ NoFail ELSE Fail
          /\ fences' = IF stored THEN [fences EXCEPT ![n.epoch] = IF @ = NoFence THEN i ELSE @]
                       ELSE fences
          /\ runs' = [runs EXCEPT ![r] =
                  IF committed \/ told = "signal"
                  THEN [FenceStop(n, i, committed) EXCEPT !.pc = "joining"]
                  ELSE FenceStop(n, i, committed)]
          /\ residents' = [residents EXCEPT ![r].input =
                  IF committed \/ told = "signal" THEN "closed" ELSE @]
    BY <1>1, <1>2 DEF PublishStop
  <1>7. PICK m : m = FenceStop(n, i, committed)
    OBVIOUS
  <1>8. /\ m \in RunRecords /\ m.pc = "serving" /\ m.epoch = n.epoch /\ m.intent = i
        /\ m.attempt = n.attempt /\ (m.permanent \/ m.accepted) /\ m.state # "ready"
        /\ m.timer # "retry"
    <2>1. PICK k : k = [n EXCEPT !.intent = i]
      OBVIOUS
    <2>2. /\ k \in RunRecords /\ k.pc = "serving" /\ k.epoch = n.epoch /\ k.intent = i
          /\ k.attempt = n.attempt
      BY <1>4, <1>5, <2>1 DEF RunRecords
    <2>3. CASE committed
      <3>1. m = [k EXCEPT !.accepted = TRUE, !.state = "stopping", !.timer = "none"]
        BY <1>7, <2>1, <2>3 DEF FenceStop
      <3> QED BY <2>2, <3>1 DEF RunRecords
    <2>4. CASE ~committed
      <3>1. m = Degraded(k)
        BY <1>7, <2>1, <2>4 DEF FenceStop
      <3> QED BY <2>2, <3>1, DegradedFits
    <2> QED BY <2>3, <2>4
  <1>9. PICK h : h = IF committed \/ told = "signal" THEN [m EXCEPT !.pc = "joining"] ELSE m
    OBVIOUS
  <1>10. /\ h \in RunRecords /\ h.pc \in {"serving", "joining"} /\ h.epoch = n.epoch
         /\ h.intent = i /\ h.attempt = n.attempt /\ (h.permanent \/ h.accepted)
         /\ h.state # "ready" /\ h.timer # "retry"
    BY <1>8, <1>9 DEF RunRecords, RunPCs
  <1>11. PICK c : c = [d EXCEPT !.input = IF committed \/ told = "signal" THEN "closed" ELSE @]
    OBVIOUS
  <1>12. /\ c \in ResidentRecords /\ c.pc = d.pc /\ c.frames = d.frames
         /\ c.confirmed = d.confirmed
    BY <1>5, <1>11 DEF ResidentRecords
  <1>13. runs' = [runs EXCEPT ![r] = h] /\ residents' = [residents EXCEPT ![r] = c]
    BY <1>3, <1>6, <1>7, <1>9, <1>11
  <1>14. Fits(h, c)
    BY <1>4, <1>5, <1>10, <1>12 DEF Fits, Talks, Childless, Heard, Shown, Bound
  <1>15. HoldsLease(h, c, eLease', r)
    BY <1>3, <1>10, <1>12, ProcessTypes DEF HoldsLease
  <1>16. GoesOn(r, h, c)
    BY <1>2, <1>5, <1>10 DEF GoesOn, Processing, Over
  <1>17. LeaseMoves(r)
    BY ProcessTypes DEF LeaseMoves
  <1>18. Becomes(r, h, c)
    BY <1>6, <1>10, <1>12, <1>13, <1>14, <1>15, <1>16, <1>17, ProcessTypes, Faults DEF Becomes
  <1>19. Journals(r, h, c)
    <2>1. /\ fences \in Seq(FenceRecords) /\ n.epoch \in 1 .. Len(fences)
          /\ fences[n.epoch] \in FenceRecords
          /\ closures \subseteq DOMAIN epochs /\ DOMAIN epochs = 1 .. Len(fences)
      BY <1>4, JournalTypes DEF HostInv, HostTypes
    <2>2. CASE ~stored
      <3>1. fences' = fences
        BY <1>6, <2>2
      <3> QED BY <1>4, <1>10, <2>1, <3>1 DEF Journals
    <2>3. CASE stored
      <3>1. PICK v \in FenceRecords : v = IF fences[n.epoch] = NoFence THEN i ELSE fences[n.epoch]
        BY <1>4, <2>1
      <3>2. fences' = [fences EXCEPT ![n.epoch] = v]
        BY <1>6, <2>3, <3>1
      <3>3. v = i
        BY <1>4, <3>1
      <3>4. /\ fences' \in Seq(FenceRecords) /\ Len(fences') = Len(fences)
            /\ \A j \in 1 .. Len(fences) : fences'[j] = IF j = n.epoch THEN v ELSE fences[j]
        BY <2>1, <3>2, ExceptSeq
      <3>5. \A e \in DOMAIN epochs : epochs[e].run # r => fences'[e] = fences[e]
        BY <1>4, <2>1, <3>4
      <3>6. \A e \in DOMAIN epochs : epochs[e].run = r => h.epoch = e /\ fences'[e] = h.intent
        BY <1>4, <1>10, <2>1, <3>3, <3>4
      <3> QED BY <2>1, <3>4, <3>5, <3>6 DEF Journals
    <2> QED BY <2>2, <2>3
  <1> QED BY <1>18, <1>19

\* A host told to end publishes its stop record and leaves its loop.
LEMMA SignalledKeeps ==
  ASSUME MaxLaunches \in Nat, MaxHostFaults \in Nat, HostInv, NEW r \in HostRuns, Signalled(r)
  PROVE  HostInv'
  BY Publishing, MoveKeeps DEF Signalled

--------------------
(* The epoch's first record and its last *)

\* Closing an epoch is the last thing that happens to it.
LEMMA ClosingJournals ==
  ASSUME HostInv, NEW r \in HostRuns, NEW h, NEW c, Becomes(r, h, c),
         runs[r].pc \in Processing, h.intent = runs[r].intent, fences' = fences,
         closures' \in {closures, closures \cup {runs[r].epoch}}, h.pc \in Over, c.pc = "none"
  PROVE  Journals(r, h, c)
  <1>1. /\ fences \in Seq(FenceRecords) /\ Len(fences') = Len(fences)
        /\ closures \subseteq DOMAIN epochs /\ h.epoch = runs[r].epoch
        /\ \A e \in DOMAIN epochs : fences[e] # NoFence /\ epochs[e].run = r =>
             runs[r].epoch = e /\ runs[r].intent = fences[e]
    BY DEF HostInv, HostTypes, Becomes, GoesOn, Recorded
  <1>2. runs[r].epoch \in DOMAIN epochs /\ epochs[runs[r].epoch].run = r
    BY ProcessTypes DEF Dated, Processing
  <1> QED BY <1>1, <1>2 DEF Journals

\* A host closes its epoch only when nobody holds E, and then holds it itself.
LEMMA CloseEpochKeeps ==
  ASSUME MaxHostFaults \in Nat, HostInv, NEW r \in HostRuns, CloseEpoch(r)
  PROVE  HostInv'
  <1>1. PICK h : h = [runs[r] EXCEPT !.pc = "releasing"]
    OBVIOUS
  <1>2. PICK c : c = residents[r]
    OBVIOUS
  <1>3. /\ runs[r] \in RunRecords /\ c \in ResidentRecords /\ Fits(runs[r], c)
        /\ runs[r].pc = "awaiting" /\ c.pc = "none" /\ (Fail \/ NoFail) /\ eLease = FreeE
        /\ UNCHANGED <<hLease, epochs, fences, residents, stopping>>
    BY <1>2, ProcessTypes DEF CloseEpoch, MayClose, Fits, Childless
  <1>4. /\ h \in RunRecords /\ h.pc = "releasing" /\ h.epoch = runs[r].epoch
        /\ h.intent = runs[r].intent /\ h.attempt = runs[r].attempt /\ h.state = runs[r].state
        /\ h.permanent = runs[r].permanent /\ h.accepted = runs[r].accepted
    BY <1>1, <1>3 DEF RunRecords, RunPCs
  <1>5. runs' = [runs EXCEPT ![r] = h] /\ residents' = [residents EXCEPT ![r] = c]
    BY <1>1, <1>2, <1>3, ProcessTypes DEF CloseEpoch
  <1>6. Fits(h, c)
    BY <1>3, <1>4 DEF Fits, Talks, Childless, Heard, Shown, Bound
  <1>7. eLease' = E("host", r)
    BY <1>3 DEF CloseEpoch
  <1>8. HoldsLease(h, c, eLease', r)
    BY <1>3, <1>4, <1>7 DEF HoldsLease
  <1>9. GoesOn(r, h, c)
    BY <1>3, <1>4 DEF GoesOn, Processing, Over
  <1>10. LeaseMoves(r)
    BY <1>3, <1>7 DEF LeaseMoves, E, FreeE
  <1>11. Becomes(r, h, c)
    BY <1>3, <1>4, <1>5, <1>6, <1>8, <1>9, <1>10, ProcessTypes, Faults DEF Becomes
  <1>12. closures' \in {closures, closures \cup {runs[r].epoch}}
    BY DEF CloseEpoch
  <1>13. Journals(r, h, c)
    BY <1>3, <1>4, <1>11, <1>12, ClosingJournals DEF Over, Processing
  <1> QED BY <1>3, <1>11, <1>13, MoveKeeps

\* A foreground run records its epoch finished, or fails to.
LEMMA FinishKeeps ==
  ASSUME MaxHostFaults \in Nat, HostInv, NEW r \in HostRuns, Finish(r)
  PROVE  HostInv'
  <1>1. PICK h : h = [runs[r] EXCEPT !.pc = "gone"]
    OBVIOUS
  <1>2. PICK c : c = residents[r]
    OBVIOUS
  <1>3. /\ runs[r] \in RunRecords /\ c \in ResidentRecords /\ Fits(runs[r], c)
        /\ runs[r].pc = "finishing" /\ c.pc = "none" /\ (Fail \/ NoFail) /\ hLease' = NoRun
        /\ UNCHANGED <<eLease, epochs, fences, residents, stopping>>
    BY <1>2, ProcessTypes DEF Finish, Fits, Childless
  <1>4. /\ h \in RunRecords /\ h.pc = "gone" /\ h.epoch = runs[r].epoch
        /\ h.intent = runs[r].intent /\ h.attempt = runs[r].attempt /\ h.state = runs[r].state
        /\ h.permanent = runs[r].permanent /\ h.accepted = runs[r].accepted
    BY <1>1, <1>3 DEF RunRecords, RunPCs
  <1>5. runs' = [runs EXCEPT ![r] = h] /\ residents' = [residents EXCEPT ![r] = c]
    BY <1>1, <1>2, <1>3, ProcessTypes DEF Finish
  <1>6. Fits(h, c)
    BY <1>3, <1>4 DEF Fits, Talks, Childless, Heard, Shown, Bound
  <1>7. HoldsLease(h, c, eLease', r)
    BY <1>3, <1>4 DEF HoldsLease
  <1>8. GoesOn(r, h, c)
    BY <1>3, <1>4 DEF GoesOn, Processing, Over
  <1>9. LeaseMoves(r)
    BY <1>3, ProcessTypes DEF LeaseMoves
  <1>10. Becomes(r, h, c)
    BY <1>3, <1>4, <1>5, <1>6, <1>7, <1>8, <1>9, Faults DEF Becomes
  <1>11. closures' \in {closures, closures \cup {runs[r].epoch}}
    BY DEF Finish
  <1>12. Journals(r, h, c)
    BY <1>3, <1>4, <1>10, <1>11, ClosingJournals DEF Over, Processing
  <1> QED BY <1>3, <1>10, <1>12, MoveKeeps

\* A run's first record gives it an epoch that nobody had.
Begins(r, h, kind) ==
    /\ runs[r].pc = "off"
    /\ epochs' = Append(epochs, [kind |-> kind, run |-> r]) /\ fences' = Append(fences, NoFence)
    /\ runs' = [runs EXCEPT ![r] = h]
    /\ h \in RunRecords /\ h.pc # "off" /\ h.epoch \in {0, Len(epochs) + 1}
    /\ h.pc \in Processing => h.epoch # 0
    /\ Fits(h, residents[r]) /\ HoldsLease(h, residents[r], eLease', r) /\ LeaseMoves(r)
    /\ hLease' \in HostRuns \cup {NoRun} /\ (Fail \/ NoFail)
    /\ UNCHANGED <<residents, closures, stopping>>

\* A run that begins with an epoch of its own keeps the invariant.
LEMMA BeginsKeeps ==
  ASSUME MaxHostFaults \in Nat, HostInv, NEW r \in HostRuns, NEW h,
         NEW kind \in {"managed", "foreground"}, Begins(r, h, kind)
  PROVE  HostInv'
  <1>1. /\ runs \in [HostRuns -> RunRecords] /\ residents \in [HostRuns -> ResidentRecords]
        /\ epochs \in Seq([kind : {"managed", "foreground"}, run : HostRuns])
        /\ fences \in Seq(FenceRecords) /\ Len(fences) = Len(epochs)
        /\ closures \subseteq DOMAIN epochs
        /\ stopping \in [pc : StopPCs, epoch : Nat, host : HostRuns \cup {NoRun}]
    BY DEF HostInv, HostTypes
  <1>2. PICK new \in [kind : {"managed", "foreground"}, run : HostRuns] :
          new.run = r /\ epochs' = Append(epochs, new)
    BY DEF Begins
  <1>3. NoFence \in FenceRecords
    BY DEF NoFence, FenceRecords, ChildWords
  <1>4. PICK n \in Nat : n = Len(epochs)
    BY <1>1
  <1>5. /\ DOMAIN epochs = 1 .. n /\ DOMAIN epochs' = 1 .. n + 1
        /\ epochs'[n + 1].run = r
        /\ \A e \in 1 .. n : epochs'[e] = epochs[e]
        /\ epochs' \in Seq([kind : {"managed", "foreground"}, run : HostRuns])
        /\ Len(epochs') = n + 1
    <2> DEFINE Es == [kind : {"managed", "foreground"}, run : HostRuns]
    <2>1. epochs \in Seq(Es) /\ new \in Es
      BY <1>1, <1>2
    <2> HIDE DEF Es
    <2>2. /\ epochs' \in Seq(Es) /\ Len(epochs') = n + 1 /\ epochs'[n + 1] = new
          /\ \A e \in 1 .. n : epochs'[e] = epochs[e]
          /\ DOMAIN epochs = 1 .. n /\ DOMAIN epochs' = 1 .. n + 1
      BY <1>2, <1>4, <2>1
    <2> QED BY <1>2, <2>2 DEF Es
  <1>6. /\ fences' \in Seq(FenceRecords) /\ Len(fences') = n + 1
        /\ fences'[n + 1] = NoFence /\ \A e \in 1 .. n : fences'[e] = fences[e]
    BY <1>1, <1>3, <1>4 DEF Begins
  <1>7. \A e \in 1 .. n : epochs[e].run # r
    BY <1>5 DEF HostInv, Recorded, Begins
  <1>8. runs' \in [HostRuns -> RunRecords] /\ residents' = residents /\ closures' = closures
        /\ stopping' = stopping /\ runs'[r] = h /\ \A o \in HostRuns \ {r} : runs'[o] = runs[o]
    BY <1>1 DEF Begins
  <1>9. HostTypes'
    <2>1. closures' \subseteq DOMAIN epochs'
      BY <1>1, <1>5, <1>8
    <2> QED BY <1>1, <1>5, <1>6, <1>8, <2>1, Faults DEF HostTypes, Begins, LeaseMoves
  <1>10. ASSUME NEW o \in HostRuns PROVE Sound(o)'
    <2>1. CASE o = r
      <3>1. /\ h.pc \in Processing => h.epoch # 0
            /\ h.epoch # 0 => h.epoch \in DOMAIN epochs' /\ epochs'[h.epoch].run = r
        BY <1>4, <1>5 DEF Begins
      <3>2. Fits(h, residents[r]) /\ HoldsLease(h, residents[r], eLease', r)
        BY DEF Begins
      <3> QED BY <1>8, <2>1, <3>1, <3>2 DEF Sound, Dated, Processing
    <2>2. CASE o # r
      <3>1. Sound(o) /\ runs'[o] = runs[o] /\ residents'[o] = residents[o]
        BY <1>8, <2>2 DEF HostInv
      <3>2. HoldsLease(runs[o], residents[o], eLease', o)
        BY <3>1, <2>2 DEF Begins, LeaseMoves, HoldsLease, Sound, E, FreeE
      <3>3. Dated(runs[o], o)'
        BY <1>5, <3>1 DEF Sound, Dated
      <3> QED BY <3>1, <3>2, <3>3 DEF Sound, Dated
    <2> QED BY <2>1, <2>2
  <1>11. ASSUME NEW e \in DOMAIN epochs' PROVE Recorded(e)'
    <2>1. CASE e \in 1 .. n
      <3>1. Recorded(e) /\ epochs[e].run \in HostRuns \ {r} /\ epochs'[e] = epochs[e]
            /\ fences'[e] = fences[e]
        BY <1>5, <1>6, <1>7, <2>1, JournalTypes DEF HostInv
      <3> QED BY <1>8, <3>1 DEF Recorded
    <2>2. CASE e = n + 1
      <3>1. e \notin closures
        BY <1>1, <1>5, <2>2
      <3>2. h.pc # "off" /\ h.epoch \in {0, e}
        BY <1>4, <2>2 DEF Begins
      <3> QED BY <1>5, <1>6, <1>8, <2>2, <3>1, <3>2 DEF Recorded
    <2> QED BY <1>5, <2>1, <2>2
  <1>12. Followed'
    <2>1. Followed
      BY DEF HostInv
    <2>2. stopping.pc = "stopped" => runs'[stopping.host] = runs[stopping.host]
      <3>1. ASSUME stopping.pc = "stopped" PROVE stopping.host \in HostRuns \ {r}
        BY <1>5, <1>7, <2>1, <3>1, JournalTypes DEF Followed, HostInv
      <3> QED BY <1>8, <3>1
    <2> QED BY <1>5, <1>8, <2>1, <2>2 DEF Followed
  <1> QED BY <1>9, <1>10, <1>11, <1>12 DEF HostInv

\* What a run that has not begun looks like.
LEMMA NotBegun ==
  ASSUME HostInv, NEW r \in HostRuns, runs[r].pc = "off"
  PROVE  /\ runs[r] = NewRun /\ residents[r] \in ResidentRecords
         /\ residents[r].pc = "none" /\ ~residents[r].doomed /\ residents[r].frames = <<>>
  BY ProcessTypes DEF Fits, Childless, Talks

\* A new run is a run record.
LEMMA NewRunIsOne ==
  ASSUME MaxLaunches \in Nat
  PROVE  NewRun \in RunRecords /\ NewRun.epoch = 0 /\ NewRun.intent = NoFence
         /\ NewRun.state = "starting"
  BY DEF NewRun, NoFence, RunRecords, RunPCs, FenceRecords, ChildWords

\* A run as it begins to serve.
FirstServing(n) == [NewRun EXCEPT !.pc = "serving", !.timer = "retry", !.epoch = n]

\* Its records.
LEMMA ServesFirst ==
  ASSUME MaxLaunches \in Nat, NEW n \in Nat, NEW h, h = FirstServing(n)
  PROVE  /\ h \in RunRecords /\ h.intent = NoFence /\ h.state = "starting"
         /\ h.pc = "serving" /\ h.timer = "retry" /\ h.epoch = n
  <1>1. PICK x \in RunRecords : x = NewRun /\ x.epoch = 0 /\ x.intent = NoFence
                               /\ x.state = "starting"
    BY NewRunIsOne
  <1>2. {"serving", "foreground", "gone"} \subseteq RunPCs
    BY DEF RunPCs
  <1>3. h = [x EXCEPT !.pc = "serving", !.timer = "retry", !.epoch = n]
    BY <1>1 DEF FirstServing
  <1>4. /\ h.intent = x.intent /\ h.state = x.state
        /\ h.pc = "serving" /\ h.timer = "retry" /\ h.epoch = n
    BY <1>3 DEF RunRecords
  <1>5. h \in RunRecords
    BY <1>2, <1>3 DEF RunRecords
  <1> QED BY <1>1, <1>4, <1>5

\* The records of a run as it begins in the foreground.
LEMMA ForegroundFirst ==
  ASSUME MaxLaunches \in Nat, NEW n \in Nat, NEW h,
         h = [NewRun EXCEPT !.pc = "foreground", !.epoch = n]
  PROVE  /\ h \in RunRecords /\ h.intent = NoFence /\ h.state = "starting"
         /\ h.pc = "foreground" /\ h.epoch = n
  <1>1. PICK x \in RunRecords : x = NewRun /\ x.epoch = 0 /\ x.intent = NoFence
                               /\ x.state = "starting"
    BY NewRunIsOne
  <1>2. {"serving", "foreground", "gone"} \subseteq RunPCs
    BY DEF RunPCs
  <1>3. h = [x EXCEPT !.pc = "foreground", !.epoch = n]
    BY <1>1
  <1>4. /\ h.intent = x.intent /\ h.state = x.state
        /\ h.pc = "foreground" /\ h.epoch = n
    BY <1>3 DEF RunRecords
  <1>5. h \in RunRecords
    BY <1>2, <1>3 DEF RunRecords
  <1> QED BY <1>1, <1>4, <1>5

\* And of a run that is gone before it had an epoch.
LEMMA GoneAtOnce ==
  ASSUME MaxLaunches \in Nat, NEW h,
         h = [NewRun EXCEPT !.pc = "gone"]
  PROVE  /\ h \in RunRecords /\ h.intent = NoFence /\ h.state = "starting"
         /\ h.pc = "gone" /\ h.epoch = 0
  <1>1. PICK x \in RunRecords : x = NewRun /\ x.epoch = 0 /\ x.intent = NoFence
                               /\ x.state = "starting"
    BY NewRunIsOne
  <1>2. {"serving", "foreground", "gone"} \subseteq RunPCs
    BY DEF RunPCs
  <1>3. h = [x EXCEPT !.pc = "gone"]
    BY <1>1
  <1>4. /\ h.intent = x.intent /\ h.state = x.state
        /\ h.pc = "gone" /\ h.epoch = x.epoch
    BY <1>3 DEF RunRecords
  <1>5. h \in RunRecords
    BY <1>2, <1>3 DEF RunRecords
  <1> QED BY <1>1, <1>4, <1>5

\* A host begins with an epoch of its own, or not at all.
LEMMA ServeKeeps ==
  ASSUME MaxLaunches \in Nat, MaxHostFaults \in Nat, HostInv, NEW r \in HostRuns, Serve(r)
  PROVE  HostInv'
  <1>1. /\ runs[r] = NewRun /\ residents[r] \in ResidentRecords
        /\ residents[r].pc = "none" /\ ~residents[r].doomed /\ residents[r].frames = <<>>
        /\ UNCHANGED <<eLease, closures, residents, stopping>> /\ (Fail \/ NoFail)
    BY NotBegun DEF Serve
  <1>2. LeaseMoves(r)
    BY <1>1, ProcessTypes DEF LeaseMoves
  <1>3. CASE /\ hLease' = r
             /\ epochs' = Append(epochs, [kind |-> "managed", run |-> r])
             /\ fences' = Append(fences, NoFence)
             /\ runs' = [runs EXCEPT ![r] = [NewRun EXCEPT !.pc = "serving", !.timer = "retry",
                                                           !.epoch = Len(epochs) + 1]]
    <2>1. PICK n \in Nat : n = Len(epochs) + 1
      BY JournalTypes DEF HostInv
    <2>2. PICK h : h = FirstServing(n)
      OBVIOUS
    <2>3. /\ h \in RunRecords /\ h.pc = "serving" /\ h.timer = "retry" /\ h.epoch = n
          /\ h.intent = NoFence /\ h.state = "starting"
      BY <2>2, ServesFirst
    <2>4. Fits(h, residents[r])
      BY <1>1, <2>3 DEF Fits, Talks, Childless, Heard, Shown, Bound
    <2>5. HoldsLease(h, residents[r], eLease', r)
      BY <1>1, <2>3 DEF HoldsLease
    <2>6. n # 0 /\ runs[r].pc = "off"
      BY <2>1, JournalTypes DEF Serve, HostInv
    <2>7. runs' = [runs EXCEPT ![r] = h]
      BY <1>3, <2>1, <2>2 DEF FirstServing
    <2>8. Begins(r, h, "managed")
      BY <1>1, <1>2, <1>3, <2>1, <2>3, <2>4, <2>5, <2>6, <2>7 DEF Begins
    <2> QED BY <2>8, BeginsKeeps
  <1>4. CASE /\ runs' = [runs EXCEPT ![r] = [NewRun EXCEPT !.pc = "gone"]]
             /\ UNCHANGED <<hLease, epochs, fences>>
    <2>1. PICK g : g = [NewRun EXCEPT !.pc = "gone"]
      OBVIOUS
    <2>2. /\ g \in RunRecords /\ g.pc = "gone" /\ g.epoch = 0
          /\ g.intent = NoFence /\ g.state = "starting"
      BY <2>1, GoneAtOnce
    <2>3. Fits(g, residents[r]) /\ HoldsLease(g, residents[r], eLease', r)
      BY <1>1, <2>2 DEF Fits, Talks, Childless, Heard, Shown, Bound, HoldsLease
    <2>4. runs[r].epoch = 0 /\ runs[r].intent = NoFence /\ runs[r].pc = "off"
      BY <1>1 DEF NewRun
    <2>5. GoesOn(r, g, residents[r])
      BY <2>2, <2>4 DEF GoesOn, Over
    <2>6. residents' = [residents EXCEPT ![r] = residents[r]]
      BY <1>1, ProcessTypes
    <2>7. Becomes(r, g, residents[r])
      BY <1>1, <1>2, <1>4, <2>1, <2>2, <2>3, <2>5, <2>6, ProcessTypes, Faults DEF Becomes
    <2> QED BY <1>1, <1>4, <2>2, <2>4, <2>7, QuietMoveKeeps
  <1> QED BY <1>3, <1>4 DEF Serve

\* A foreground run begins with its epoch and E, or is gone.
LEMMA ForegroundKeeps ==
  ASSUME MaxLaunches \in Nat, MaxHostFaults \in Nat, HostInv, NEW r \in HostRuns, Foreground(r)
  PROVE  HostInv'
  <1>1. /\ runs[r] = NewRun /\ residents[r] \in ResidentRecords
        /\ residents[r].pc = "none" /\ ~residents[r].doomed /\ residents[r].frames = <<>>
        /\ UNCHANGED <<closures, residents, stopping>> /\ (Fail \/ NoFail) /\ runs[r].pc = "off"
        /\ epochs' = Append(epochs, [kind |-> "foreground", run |-> r])
        /\ fences' = Append(fences, NoFence)
    BY NotBegun DEF Foreground
  <1>2. PICK n \in Nat : n = Len(epochs) + 1 /\ n # 0
    BY JournalTypes DEF HostInv
  <1>3. ASSUME NEW h, h \in RunRecords, runs' = [runs EXCEPT ![r] = h], LeaseMoves(r),
               (h.pc = "gone" /\ h.epoch = 0) \/ (h.pc = "foreground" /\ h.epoch = n),
               h.pc = "foreground" => eLease' = E("foreground", r),
               h.intent = NoFence, h.state = "starting", hLease' \in HostRuns \cup {NoRun}
        PROVE  HostInv'
    <2>1. Fits(h, residents[r]) /\ HoldsLease(h, residents[r], eLease', r)
      BY <1>1, <1>3 DEF Fits, Talks, Childless, Heard, Shown, Bound, HoldsLease
    <2>2. Begins(r, h, "foreground")
      BY <1>1, <1>2, <1>3, <2>1 DEF Begins, Processing
    <2> QED BY <2>2, BeginsKeeps
  <1>4. CASE eLease = FreeE
    <2>1. PICK h : h = [NewRun EXCEPT !.pc = "foreground", !.epoch = n]
      OBVIOUS
    <2>2. /\ h \in RunRecords /\ h.pc = "foreground" /\ h.epoch = n
          /\ h.intent = NoFence /\ h.state = "starting"
      BY <2>1, ForegroundFirst
    <2>3. eLease' = E("foreground", r) /\ hLease' = r /\ runs' = [runs EXCEPT ![r] = h]
      BY <1>2, <1>4, <2>1 DEF Foreground
    <2>4. LeaseMoves(r)
      BY <1>4, <2>3 DEF LeaseMoves, E, FreeE
    <2> QED BY <1>3, <2>2, <2>3, <2>4
  <1>5. CASE eLease # FreeE
    <2>1. PICK h : h = [NewRun EXCEPT !.pc = "gone"]
      OBVIOUS
    <2>2. /\ h \in RunRecords /\ h.pc = "gone" /\ h.epoch = 0
          /\ h.intent = NoFence /\ h.state = "starting"
      BY <2>1, GoneAtOnce
    <2>3. runs' = [runs EXCEPT ![r] = h] /\ UNCHANGED <<hLease, eLease>>
      BY <1>5, <2>1 DEF Foreground
    <2>4. LeaseMoves(r)
      BY <2>3, ProcessTypes DEF LeaseMoves
    <2> QED BY <1>3, <2>2, <2>3, <2>4, ProcessTypes
  <1> QED BY <1>4, <1>5

--------------------
(* The stop command *)

\* The command reads; what it goes on from is true of the journal.
LEMMA StopOnly ==
  ASSUME HostInv, UNCHANGED <<hLease, eLease, epochs, fences, closures, runs, residents,
                              hostFaults>>,
         stopping' \in [pc : StopPCs, epoch : Nat, host : HostRuns \cup {NoRun}], Followed'
  PROVE  HostInv'
  <1>1. HostTypes'
    BY DEF HostInv, HostTypes
  <1>2. \A r \in HostRuns : Sound(r)'
    BY DEF HostInv, Sound, Dated
  <1>3. \A e \in DOMAIN epochs : Recorded(e)'
    BY DEF HostInv, Recorded
  <1> QED BY <1>1, <1>2, <1>3 DEF HostInv

\* A step of the command that only moves it on.
LEMMA StopStepKeeps ==
  ASSUME HostInv, NEW from, NEW to, StopStep(from, to), from # "idle",
         UNCHANGED <<fences, runs, residents>>,
         \/ to \in {"fence", "pending"}
         \/ to = from /\ to \in StopPCs
         \/ to = "leaving" /\ stopping.epoch \in closures
         \/ to = "stopped" /\ from = "leaving" /\ ~Alive(stopping.host)
  PROVE  HostInv'
  <1>1. /\ stopping \in [pc : StopPCs, epoch : Nat, host : HostRuns \cup {NoRun}] /\ Followed
        /\ stopping.pc = from
        /\ UNCHANGED <<hLease, eLease, epochs, fences, closures, runs, residents, hostFaults>>
    BY DEF HostInv, HostTypes, StopStep
  <1>2. to \in StopPCs
    BY DEF StopPCs
  <1>3. stopping' \in [pc : StopPCs, epoch : Nat, host : HostRuns \cup {NoRun}]
        /\ stopping'.pc = to /\ stopping'.epoch = stopping.epoch /\ stopping'.host = stopping.host
    BY <1>1, <1>2 DEF StopStep
  <1>4. stopping.epoch \in DOMAIN epochs /\ stopping.host = epochs[stopping.epoch].run
    BY <1>1 DEF Followed
  <1>5. ASSUME to = "stopped" PROVE runs[stopping.host].pc = "gone"
    <2>1. runs[stopping.host].pc # "off"
      BY <1>4 DEF HostInv, Recorded
    <2>2. CASE to = from BY <1>1, <1>5, <2>2 DEF Followed
    <2>3. CASE ~Alive(stopping.host) BY <2>1, <2>3 DEF Alive
    <2> QED BY <1>5, <2>2, <2>3
  <1>6. ASSUME to \in {"leaving", "stopped"} PROVE stopping.epoch \in closures
    BY <1>1, <1>6 DEF Followed
  <1>7. Followed'
    BY <1>1, <1>3, <1>4, <1>5, <1>6 DEF Followed
  <1> QED BY <1>1, <1>3, <1>7, StopOnly

\* The latest epoch when the command began is the one it follows.
LEMMA ReadLatestKeeps ==
  ASSUME HostInv, ReadLatest
  PROVE  HostInv'
  <1>1. PICK n : n = Len(epochs)
    OBVIOUS
  <1>2. n \in Nat /\ n \in DOMAIN epochs /\ epochs[n].run \in HostRuns
    <2>1. n \in Nat /\ DOMAIN epochs = 1 .. n
          /\ \A e \in DOMAIN epochs : epochs[e].run \in HostRuns
      BY <1>1, JournalTypes DEF HostInv
    <2>2. epochs # <<>> /\ epochs \in Seq([kind : {"managed", "foreground"}, run : HostRuns])
      BY DEF ReadLatest, HostInv, HostTypes
    <2>3. n # 0
      BY <1>1, <2>2, EmptySeq
    <2> QED BY <2>1, <2>3
  <1>3. PICK p \in {"asking", "pending"} :
          stopping' = [pc |-> p, epoch |-> n, host |-> epochs[n].run]
    BY <1>1 DEF ReadLatest
  <1>4. stopping' \in [pc : StopPCs, epoch : Nat, host : HostRuns \cup {NoRun}]
    BY <1>2, <1>3 DEF StopPCs
  <1>5. Followed'
    BY <1>2, <1>3 DEF Followed, ReadLatest
  <1> QED BY <1>4, <1>5, StopOnly DEF ReadLatest

\* Asking the host makes it publish, whatever becomes of the answer.
LEMMA AskStopKeeps ==
  ASSUME MaxLaunches \in Nat, MaxHostFaults \in Nat, HostInv, AskStop
  PROVE  HostInv'
  <1>1. PICK r : r = stopping.host
    OBVIOUS
  <1>2. /\ stopping \in [pc : StopPCs, epoch : Nat, host : HostRuns \cup {NoRun}] /\ Followed
        /\ stopping.pc = "asking"
        /\ stopping' = [stopping EXCEPT !.pc = "fence"]
        /\ UNCHANGED <<hLease, eLease, epochs, closures>>
    BY DEF HostInv, HostTypes, AskStop
  <1>3. r \in HostRuns
    BY <1>1, <1>2, JournalTypes DEF Followed, HostInv
  <1>4. stopping' \in [pc : StopPCs, epoch : Nat, host : HostRuns \cup {NoRun}]
        /\ stopping'.pc = "fence" /\ stopping'.epoch = stopping.epoch
        /\ stopping'.host = stopping.host
    BY <1>2 DEF StopPCs
  <1>5. Followed'
    BY <1>2, <1>4 DEF Followed
  <1>6. CASE Serving(r)
    <2>1. Looping(r) /\ PublishStop(r, "request")
      BY <1>1, <1>6 DEF AskStop
    <2>2. PICK h, c : Becomes(r, h, c) /\ Journals(r, h, c)
      BY <1>2, <1>3, <2>1, Publishing
    <2>3. HostTypes'
      BY <1>3, <1>4, <2>2, TypesAreKept
    <2>4. \A o \in HostRuns : Sound(o)'
      BY <1>3, <2>2, OthersStaySound
    <2>5. \A e \in DOMAIN epochs : Recorded(e)'
      BY <1>3, <2>2, JournalStaysSound
    <2> QED BY <1>2, <1>5, <2>3, <2>4, <2>5 DEF HostInv
  <1>7. CASE ~Serving(r)
    <2>1. UNCHANGED <<fences, runs, residents, hostFaults>>
      BY <1>1, <1>7 DEF AskStop
    <2> QED BY <1>2, <1>4, <1>5, <2>1, StopOnly
  <1> QED BY <1>6, <1>7

\* No step of the stop command breaks the invariant.
LEMMA StopCommandKeeps ==
  ASSUME MaxLaunches \in Nat, MaxHostFaults \in Nat, HostInv, StopCommand
  PROVE  HostInv'
  <1>1. CASE ReadLatest BY <1>1, ReadLatestKeeps
  <1>2. CASE AskStop BY <1>2, AskStopKeeps
  <1>3. CASE AskLost BY <1>3, StopStepKeeps DEF AskLost
  <1>4. CASE NoFenceFound BY <1>4, StopStepKeeps DEF NoFenceFound
  <1>5. CASE FenceClosed BY <1>5, StopStepKeeps DEF FenceClosed
  <1>6. CASE StopTimesOut BY <1>6, StopStepKeeps DEF StopTimesOut
  <1>7. CASE FinishStop BY <1>7, StopStepKeeps DEF FinishStop
  <1> QED BY <1>1, <1>2, <1>3, <1>4, <1>5, <1>6, <1>7 DEF StopCommand

--------------------
(* The theorems *)

\* The invariant holds of every behaviour of the host.
LEMMA HostInductive ==
  ASSUME MaxLaunches \in Nat, MaxHostFaults \in Nat
  PROVE  /\ HostInit => HostInv
         /\ HostInv /\ [HostNext]_hostVars => HostInv'
  <1>1. ASSUME HostInit PROVE HostInv
    <2>1. /\ NewRun \in RunRecords /\ NoResident \in ResidentRecords
          /\ NewRun.pc = "off" /\ NewRun.epoch = 0 /\ NewRun.state = "starting"
          /\ NewRun.intent = NoFence
          /\ NoResident.pc = "none" /\ NoResident.frames = <<>> /\ ~NoResident.doomed
      BY DEF NewRun, NoFence, NoResident, RunRecords, RunPCs, ResidentRecords, Inboxes,
         FenceRecords, ChildWords
    <2>2. /\ hLease = NoRun /\ eLease = FreeE /\ epochs = <<>> /\ fences = <<>>
          /\ closures = {} /\ hostFaults = 0 /\ stopping = NoStop
          /\ runs = [r \in HostRuns |-> NewRun] /\ residents = [r \in HostRuns |-> NoResident]
      BY <1>1 DEF HostInit
    <2>3. HostTypes
      BY <2>1, <2>2 DEF HostTypes, E, FreeE, NoStop, StopPCs
    <2>4. \A r \in HostRuns : Sound(r)
      <3>1. Fits(NewRun, NoResident)
        BY <2>1 DEF Fits, Talks, Childless, Heard, Shown, Bound
      <3>2. \A r \in HostRuns : HoldsLease(NewRun, NoResident, eLease, r) /\ Dated(NewRun, r)
        BY <2>1 DEF HoldsLease, Dated
      <3> QED BY <2>2, <3>1, <3>2 DEF Sound
    <2>5. \A e \in DOMAIN epochs : Recorded(e)
      BY <2>2
    <2>6. Followed
      BY <2>2 DEF Followed, NoStop
    <2> QED BY <2>3, <2>4, <2>5, <2>6 DEF HostInv
  <1>2. ASSUME HostInv, [HostNext]_hostVars PROVE HostInv'
    <2>1. CASE UNCHANGED hostVars
      <3>1. Followed'
        BY <1>2, <2>1 DEF HostInv, Followed, hostVars
      <3>2. stopping' \in [pc : StopPCs, epoch : Nat, host : HostRuns \cup {NoRun}]
        BY <1>2, <2>1 DEF HostInv, HostTypes, hostVars
      <3> QED BY <1>2, <2>1, <3>1, <3>2, StopOnly DEF hostVars
    <2>2. ASSUME NEW r \in HostRuns, HostStep(r) PROVE HostInv'
      BY <1>2, <2>2, ServeKeeps, LeaseBusyKeeps, ForegroundKeeps, ForegroundEndsKeeps,
         FinishKeeps, LaunchKeeps, ChildEventKeeps, ChildWaitedKeeps, ReadinessExpiresKeeps,
         SignalledKeeps, JoinChildKeeps, CloseEpochKeeps, HostEndsKeeps, RunDiesKeeps
         DEF HostStep
    <2>3. ASSUME NEW r \in HostRuns, ResidentStep(r) PROVE HostInv'
      BY <1>2, <2>3, TakeExecutionKeeps, ConfirmHostKeeps, AwaitConfirmationKeeps,
         RuntimeEndsKeeps, ChildDiesKeeps DEF ResidentStep
    <2>4. CASE StopCommand BY <1>2, <2>4, StopCommandKeeps
    <2> QED BY <1>2, <2>1, <2>2, <2>3, <2>4 DEF HostNext
  <1> QED BY <1>1, <1>2

\* The invariant says what the runs check of the host.
LEMMA HostSound ==
  ASSUME MaxLaunches \in Nat, HostInv
  PROVE  HostTypeOK /\ HostIsSafe
  <1>1. HostTypeOK
    <2>1. \A r \in HostRuns : runs[r].attempt \in 0 .. MaxLaunches
      BY ProcessTypes DEF RunRecords
    <2> QED BY <2>1 DEF HostTypeOK, HostInv, HostTypes
  <1>2. StoppedIsQuiet
    <2>1. ASSUME stopping.pc = "stopped"
          PROVE  ~Alive(stopping.host) /\ ~ChildAlive(stopping.host)
      BY <2>1 DEF HostInv, Followed, Recorded, Alive, ChildAlive
    <2>2. ASSUME NEW r \in HostRuns, runs[r].pc = "releasing", NEW o \in HostRuns
          PROVE  residents[o].pc # "running" /\ runs[o].pc # "foreground"
      <3>1. eLease = E("host", r)
        BY <2>2, ProcessTypes DEF HoldsLease
      <3>2. residents[o].pc = "running" => eLease = E("child", o)
        BY ProcessTypes DEF HoldsLease
      <3>3. runs[o].pc = "foreground" => eLease = E("foreground", o)
        BY ProcessTypes DEF HoldsLease
      <3> QED BY <3>1, <3>2, <3>3 DEF E
    <2> QED BY <2>1, <2>2 DEF StoppedIsQuiet
  <1>3. FenceHolds
    <2> SUFFICES ASSUME NEW e \in DOMAIN epochs, fences[e] # NoFence
                 PROVE  runs[epochs[e].run].attempt = fences[e].attempt
      BY DEF FenceHolds
    <2>1. epochs[e].run \in HostRuns /\ runs[epochs[e].run].intent = fences[e]
      BY JournalTypes DEF HostInv, Recorded
    <2> QED BY <2>1, ProcessTypes DEF Fits, Bound
  <1>4. LastWordCounts
    BY ProcessTypes DEF LastWordCounts, Serving, Fits, Childless
  <1>5. ReadyIsTrue
    BY ProcessTypes DEF ReadyIsTrue, Serving, Fits, Shown, HoldsLease
  <1> QED BY <1>1, <1>2, <1>3, <1>4, <1>5 DEF HostIsSafe

\* "Stopped" is reported when everything of that host is gone, a stop record ends the launches
\* of its host, a child's last word counts and a ready host has a runtime, of which there is
\* at most one: for any number of runs, launches and faults.
THEOREM HostKeepsItsWord ==
  ASSUME MaxLaunches \in Nat, MaxHostFaults \in Nat
  PROVE  HostSpec => [](HostTypeOK /\ HostIsSafe)
  <1>1. HostInit => HostInv
    BY HostInductive
  <1>2. HostInv /\ [HostNext]_hostVars => HostInv'
    BY HostInductive
  <1>3. HostInv => HostTypeOK /\ HostIsSafe
    BY HostSound
  <1> QED BY <1>1, <1>2, <1>3, PTL DEF HostSpec

--------------------
(* The status of a task.                                                   *)

EndedRows == {"Success", "Failed", "gone"}
Pcs == {"idle", "prepare", "enter", "lock", "locked", "publish", "permit", "recover", "offer",
        "answer"}
States == {"none", "unknown", "stashed", "queued", "running", "ended"}
Seen == [at : Nat, gen : 0..MaxGenerations, state : States]
Call == [pc : Pcs, gen : 0..MaxGenerations, deferred : BOOLEAN, newer : BOOLEAN, seen : Seen,
         since : Nat, again : BOOLEAN, offer : {"none", "resumable", "blocked"}]

\* What a call has learnt, in the step where it is.
CallAgrees(c) ==
    /\ calls[c].since <= heard
    /\ calls[c].pc \in {"locked", "publish"} <=> obsLock = c
    /\ calls[c].pc \in {"locked", "publish"} => calls[c].gen = generation
    /\ calls[c].pc \in {"lock", "locked"} /\ calls[c].newer => shared.at >= calls[c].since
    /\ calls[c].pc = "publish" => calls[c].seen.at >= heard /\ calls[c].seen.gen = calls[c].gen
    /\ calls[c].pc \in {"permit", "recover"} => calls[c].seen.state = "stashed"
    /\ calls[c].pc \in {"permit", "recover", "offer", "answer"} /\ calls[c].seen # NoSeen =>
          calls[c].seen.at >= calls[c].since /\ calls[c].seen.gen = calls[c].gen
    /\ calls[c].pc = "answer" /\ calls[c].offer = "resumable" => proof

\* What the world only ever gains: a submission before its row, an end before its proof.
WorldAgrees ==
    /\ row \in Raw /\ moves \in 0..MaxMoves /\ generation \in 1..MaxGenerations
    /\ {submitted, receipt, proof, userStop, outcome} \subseteq BOOLEAN
    /\ row # "none" \/ receipt => submitted
    /\ proof => row \in EndedRows

StatusInv ==
    /\ WorldAgrees
    /\ shared \in Seen /\ obsLock \in Callers \cup {NoCaller} /\ heard \in 0..moves
    /\ calls \in [Callers -> Call]
    /\ \A c \in Callers : CallAgrees(c)

\* The values a call starts from.
LEMMA CallValues ==
  ASSUME MaxGenerations \in Nat
  PROVE  /\ NoSeen \in Seen /\ NoSeen.state = "none"
         /\ NoCall \in Call /\ NoCall.pc = "idle" /\ NoCall.since = 0
         /\ NoCall.offer = "none" /\ NoCall.seen = NoSeen
  <1>1. NoSeen \in Seen /\ NoSeen.state = "none"
    BY DEF NoSeen, Seen, States
  <1>2. /\ "idle" \in Pcs /\ 0 \in 0..MaxGenerations
        /\ "none" \in {"none", "resumable", "blocked"}
    BY DEF Pcs
  <1> QED BY <1>1, <1>2 DEF NoCall, Call

\* Steps around the calls: time goes on, and a binding changes while nobody is inside.
LEMMA WorldKeeps ==
  ASSUME StatusInv, NoCaller \notin Callers, WorldAgrees',
         UNCHANGED <<shared, obsLock, calls, heard>>, moves' >= moves, moves' \in Nat,
         UNCHANGED generation \/ obsLock = NoCaller, proof => proof'
  PROVE  StatusInv'
  <1>1. heard' \in 0..moves'
    BY DEF StatusInv, WorldAgrees
  <1>2. ASSUME NEW c \in Callers PROVE CallAgrees(c)'
    BY <1>2 DEF StatusInv, CallAgrees
  <1> QED BY <1>1, <1>2 DEF StatusInv

\* Steps of one call: nobody else's lock changes.
LEMMA CallKeeps ==
  ASSUME StatusInv, WorldAgrees', NEW c \in Callers, NEW new \in Call,
         calls' = [calls EXCEPT ![c] = new], CallAgrees(c)',
         obsLock' \in Callers \cup {NoCaller},
         \A d \in Callers : d # c => (obsLock' = d <=> obsLock = d),
         UNCHANGED <<shared, heard, generation, proof>>, moves' >= moves, moves' \in Nat
  PROVE  StatusInv'
  <1>1. heard' \in 0..moves' /\ calls' \in [Callers -> Call]
    BY DEF StatusInv, WorldAgrees
  <1>2. ASSUME NEW d \in Callers, d # c PROVE CallAgrees(d)'
    <2>1. calls'[d] = calls[d]
      BY <1>2 DEF StatusInv
    <2> QED BY <1>2, <2>1 DEF StatusInv, CallAgrees
  <1> QED BY <1>1, <1>2 DEF StatusInv

\* A call that only goes on, with its lock or without one.
LEMMA StepKeeps ==
  ASSUME StatusInv, NEW c \in Callers, NEW new \in Call, calls' = [calls EXCEPT ![c] = new],
         UNCHANGED <<worldVars, shared, obsLock, heard>>, CallAgrees(c)'
  PROVE  StatusInv'
  <1>1. WorldAgrees' /\ UNCHANGED <<generation, proof, moves>>
    BY DEF worldVars, WorldAgrees, StatusInv
  <1>2. moves' \in Nat /\ moves' >= moves
    BY <1>1 DEF WorldAgrees, StatusInv
  <1>3. obsLock' = obsLock /\ obsLock' \in Callers \cup {NoCaller}
    BY DEF StatusInv
  <1> QED BY <1>1, <1>2, <1>3, CallKeeps

\* A call that takes the observation lock or gives it back.
LEMMA LockKeeps ==
  ASSUME StatusInv, NoCaller \notin Callers, NEW c \in Callers, NEW new \in Call,
         calls' = [calls EXCEPT ![c] = new], UNCHANGED <<worldVars, shared, heard>>,
         UNCHANGED obsLock \/ (obsLock \in {c, NoCaller} /\ obsLock' \in {c, NoCaller}),
         CallAgrees(c)'
  PROVE  StatusInv'
  <1>1. WorldAgrees' /\ UNCHANGED <<generation, proof, moves>>
    BY DEF worldVars, WorldAgrees, StatusInv
  <1>2. moves' \in Nat /\ moves' >= moves
    BY <1>1 DEF WorldAgrees, StatusInv
  <1>3. obsLock' \in Callers \cup {NoCaller}
    BY DEF StatusInv
  <1>4. \A d \in Callers : d # c => (obsLock' = d <=> obsLock = d)
    OBVIOUS
  <1> QED BY <1>1, <1>2, <1>3, <1>4, CallKeeps

\* What a call reports, and what an observation makes of it.
LEMMA LearntCall ==
  ASSUME MaxGenerations \in Nat, NEW call \in Call, NEW seen \in Seen
  PROVE  /\ Learnt(call, seen) \in Call
         /\ Learnt(call, seen).pc = "offer" /\ Learnt(call, seen).seen = seen
         /\ Learnt(call, seen).gen = call.gen /\ Learnt(call, seen).offer = "none"
         /\ Learnt(call, seen).since = IF seen = NoSeen THEN 0 ELSE call.since
         /\ Observed(call, seen) \in Call
         /\ Observed(call, seen).pc \in {"offer", "permit"}
         /\ Observed(call, seen).pc = "permit" => seen.state = "stashed"
         /\ Observed(call, seen).seen = seen /\ Observed(call, seen).gen = call.gen
         /\ Observed(call, seen).offer = "none"
         /\ Observed(call, seen).since = IF seen = NoSeen THEN 0 ELSE call.since
  <1>1. call.gen \in 0..MaxGenerations /\ call.since \in Nat
    BY DEF Call
  <1>2. /\ Learnt(call, seen) \in Call
        /\ Learnt(call, seen).pc = "offer" /\ Learnt(call, seen).seen = seen
        /\ Learnt(call, seen).gen = call.gen /\ Learnt(call, seen).offer = "none"
        /\ Learnt(call, seen).since = IF seen = NoSeen THEN 0 ELSE call.since
    BY <1>1, CallValues DEF Learnt, Call, Pcs
  <1>3. CASE Observed(call, seen) = Learnt(call, seen) BY <1>2, <1>3
  <1>4. CASE Observed(call, seen) # Learnt(call, seen)
    <2> DEFINE n == [NoCall EXCEPT !.pc = "permit", !.gen = call.gen, !.seen = seen,
                                   !.since = call.since]
    <2>1. Observed(call, seen) = n /\ seen.state = "stashed"
      BY <1>4 DEF Observed
    <2>2. n \in Call /\ n.pc = "permit" /\ n.seen = seen /\ n.gen = call.gen
          /\ n.offer = "none" /\ n.since = call.since
      BY <1>1, CallValues DEF Call, Pcs
    <2>3. seen # NoSeen
      BY <2>1, CallValues
    <2> HIDE DEF n
    <2> QED BY <1>2, <2>1, <2>2, <2>3
  <1> QED BY <1>3, <1>4

\* What happens around the calls keeps the invariant.
LEMMA StatusWorldKeeps ==
  ASSUME StatusInv, NoCaller \notin Callers, MaxMoves \in Nat, MaxGenerations \in Nat,
         StatusWorld
  PROVE  StatusInv'
  <1> USE DEF StatusInv
  <1>1. ASSUME NEW r \in Raw, MoveRow(r) PROVE StatusInv'
    <2>1. r \in Moves(row) /\ row' = r /\ moves < MaxMoves /\ moves' = moves + 1
          /\ UNCHANGED <<submitted, receipt, generation, proof, userStop, outcome>>
      BY <1>1 DEF MoveRow
    <2>2. submitted
      BY <2>1 DEF Moves, WorldAgrees, Raw
    <2>3. proof => r \in EndedRows
      BY <2>1 DEF Moves, WorldAgrees, EndedRows
    <2>4. WorldAgrees'
      BY <2>1, <2>2, <2>3 DEF WorldAgrees
    <2> QED BY <1>1, <2>1, <2>4, WorldKeeps DEF MoveRow, WorldAgrees
  <1>2. CASE RecordSubmission BY <1>2, WorldKeeps DEF RecordSubmission, WorldAgrees
  <1>3. CASE CommitSubmission BY <1>3, WorldKeeps DEF CommitSubmission, WorldAgrees
  <1>4. CASE ReplaceGeneration
    <2>1. WorldAgrees'
      BY <1>4 DEF ReplaceGeneration, WorldAgrees
    <2> QED BY <1>4, <2>1, WorldKeeps DEF ReplaceGeneration, WorldAgrees
  <1>5. CASE RecordTermination BY <1>5, WorldKeeps DEF RecordTermination, WorldAgrees, EndedRows
  <1>6. CASE Cancel BY <1>6, WorldKeeps DEF Cancel, WorldAgrees
  <1>7. CASE PublishOutcome BY <1>7, WorldKeeps DEF PublishOutcome, WorldAgrees
  <1> QED BY <1>1, <1>2, <1>3, <1>4, <1>5, <1>6, <1>7 DEF StatusWorld

\* Every step of a call keeps the invariant.
LEMMA StatusCallKeeps ==
  ASSUME StatusInv, NoCaller \notin Callers, MaxMoves \in Nat, MaxGenerations \in Nat,
         NEW c \in Callers, StatusCall(c)
  PROVE  StatusInv'
  <1> PICK call \in Call : call = calls[c]
    BY DEF StatusInv
  <1>1. /\ CallAgrees(c) /\ WorldAgrees /\ shared \in Seen /\ heard \in 0..moves
        /\ heard \in Nat /\ moves \in Nat /\ call.since \in Nat
        /\ generation \in 0..MaxGenerations
    BY DEF StatusInv, WorldAgrees, Call
  <1>2. ASSUME NEW new \in Call, calls' = [calls EXCEPT ![c] = new]
        PROVE  calls'[c] = new
    BY <1>2 DEF StatusInv
  <1>3. CASE Begin(c)
    <2> DEFINE new == [NoCall EXCEPT !.pc = IF outcome THEN "offer"
                                            ELSE IF submitted THEN "prepare" ELSE "offer"]
    <2>1. new \in Call /\ new.pc \in {"offer", "prepare"} /\ new.since = 0 /\ new.seen = NoSeen
      BY CallValues DEF Call, Pcs
    <2>2. calls' = [calls EXCEPT ![c] = new] /\ UNCHANGED <<worldVars, shared, obsLock, heard>>
      BY <1>3 DEF Begin
    <2> HIDE DEF new
    <2>3. obsLock # c
      BY <1>1, <1>3 DEF Begin, At, CallAgrees
    <2>5. calls'[c] = new /\ obsLock' # c /\ new.since <= heard'
      <3>1. calls'[c] = new
        BY <1>2, <2>1, <2>2, <2>3
      <3>2. new.since <= heard /\ heard' = heard
        BY <1>1, <2>1, <2>2, <2>3 DEF CallAgrees
      <3>3. obsLock' # c
        BY <1>1, <2>1, <2>2, <2>3 DEF CallAgrees
      <3> QED BY <3>1, <3>2, <3>3
    <2>4. CallAgrees(c)'
      BY <2>1, <2>5 DEF CallAgrees
    <2> QED BY <2>1, <2>2, <2>4, StepKeeps
  <1>4. CASE PrepareClient(c)
    <2> PICK deferred \in BOOLEAN : calls' = [calls EXCEPT ![c].pc = "enter",
                                       ![c].gen = generation, ![c].deferred = deferred]
      BY <1>4 DEF PrepareClient
    <2> DEFINE new == [call EXCEPT !.pc = "enter", !.gen = generation, !.deferred = deferred]
    <2>1. new \in Call /\ new.pc = "enter" /\ new.since = call.since
      BY <1>1 DEF Call, Pcs
    <2>2. calls' = [calls EXCEPT ![c] = new] /\ UNCHANGED <<worldVars, shared, obsLock, heard>>
      BY <1>4 DEF PrepareClient
    <2> HIDE DEF new
    <2>3. obsLock # c
      BY <1>1, <1>4 DEF PrepareClient, At, CallAgrees
    <2>5. calls'[c] = new /\ obsLock' # c /\ new.since <= heard'
      <3>1. calls'[c] = new
        BY <1>2, <2>1, <2>2, <2>3
      <3>2. new.since <= heard /\ heard' = heard
        BY <1>1, <2>1, <2>2, <2>3 DEF CallAgrees
      <3>3. obsLock' # c
        BY <1>1, <2>1, <2>2, <2>3 DEF CallAgrees
      <3> QED BY <3>1, <3>2, <3>3
    <2>4. CallAgrees(c)'
      BY <2>1, <2>5 DEF CallAgrees
    <2> QED BY <2>1, <2>2, <2>4, StepKeeps
  <1>5. CASE ReadFlight(c)
    <2> DEFINE new == [call EXCEPT !.pc = "lock", !.newer = FALSE, !.since = heard]
    <2>1. new \in Call /\ new.pc = "lock" /\ new.since = heard /\ ~ new.newer
      BY <1>1 DEF Call, Pcs
    <2>2. calls' = [calls EXCEPT ![c] = new] /\ UNCHANGED <<worldVars, shared, obsLock, heard>>
      BY <1>5 DEF ReadFlight
    <2> HIDE DEF new
    <2>3. obsLock # c
      BY <1>1, <1>5 DEF ReadFlight, At, CallAgrees
    <2>5. calls'[c] = new /\ obsLock' # c /\ new.since <= heard'
      <3>1. calls'[c] = new
        BY <1>2, <2>1, <2>2, <2>3
      <3>2. new.since <= heard /\ heard' = heard
        BY <1>1, <2>1, <2>2, <2>3 DEF CallAgrees
      <3>3. obsLock' # c
        BY <1>1, <2>1, <2>2, <2>3 DEF CallAgrees
      <3> QED BY <3>1, <3>2, <3>3
    <2>4. CallAgrees(c)'
      BY <2>1, <2>5 DEF CallAgrees
    <2> QED BY <2>1, <2>2, <2>4, StepKeeps
  <1>6. CASE LockObservation(c)
    <2>1. call.pc = "lock" /\ obsLock = NoCaller /\ UNCHANGED <<worldVars, shared, heard>>
      BY <1>6 DEF LockObservation, At
    <2>2. CASE call.gen = generation
      <3> DEFINE new == [call EXCEPT !.pc = "locked"]
      <3>1. /\ new \in Call /\ new.pc = "locked" /\ new.since = call.since
            /\ new.newer = call.newer /\ new.gen = call.gen
        BY DEF Call, Pcs
      <3>2. calls' = [calls EXCEPT ![c] = new] /\ obsLock' = c
        BY <1>6, <2>2 DEF LockObservation
      <3> HIDE DEF new
      <3>3. CallAgrees(c)'
        BY <1>1, <1>2, <2>1, <2>2, <3>1, <3>2 DEF CallAgrees, worldVars
      <3> QED BY <2>1, <3>1, <3>2, <3>3, LockKeeps
    <2>3. CASE call.gen # generation
      <3> DEFINE new == Learnt(call, NoSeen)
      <3>1. new \in Call /\ new.pc = "offer" /\ new.seen = NoSeen /\ new.since = 0
        BY CallValues, LearntCall
      <3>2. calls' = [calls EXCEPT ![c] = new] /\ UNCHANGED obsLock
        BY <1>6, <2>3 DEF LockObservation
      <3> HIDE DEF new
      <3>3. CallAgrees(c)'
        BY <1>1, <1>2, <2>1, <3>1, <3>2 DEF CallAgrees
      <3> QED BY <2>1, <3>1, <3>2, <3>3, StepKeeps
    <2> QED BY <2>2, <2>3
  <1>7. CASE ReuseObservation(c)
    <2> DEFINE new == Observed(call, shared)
    <2>1. /\ new \in Call /\ new.pc \in {"offer", "permit"} /\ new.seen = shared
          /\ new.gen = call.gen /\ new.offer = "none"
          /\ new.since = IF shared = NoSeen THEN 0 ELSE call.since
          /\ new.pc = "permit" => shared.state = "stashed"
      BY <1>1, LearntCall
    <2>2. /\ calls' = [calls EXCEPT ![c] = new] /\ obsLock' = NoCaller
          /\ UNCHANGED <<worldVars, shared, heard>>
          /\ call.pc = "locked" /\ shared.gen = call.gen /\ call.newer
      BY <1>7 DEF ReuseObservation, At, Reusable
    <2> HIDE DEF new
    <2>3. obsLock = c /\ shared.at >= call.since
      BY <1>1, <2>2 DEF CallAgrees
    <2>6. calls'[c] = new /\ obsLock' # c /\ new.since <= heard'
      <3>1. calls'[c] = new
        BY <1>2, <2>1, <2>2, <2>3
      <3>2. new.since <= heard /\ heard' = heard
        BY <1>1, <2>1, <2>2, <2>3 DEF CallAgrees
      <3>3. obsLock' # c
        BY <1>1, <2>1, <2>2, <2>3 DEF CallAgrees
      <3> QED BY <3>1, <3>2, <3>3
    <2>4. CallAgrees(c)'
      BY <2>1, <2>2, <2>3, <2>6 DEF CallAgrees
    <2> QED BY <2>1, <2>2, <2>3, <2>4, LockKeeps
  <1>8. CASE TakeSnapshot(c)
    <2> DEFINE new == [call EXCEPT !.pc = "publish", !.seen = Snapshot]
    <2>1. Snapshot \in Seen /\ Snapshot.at = moves /\ Snapshot.gen = generation
      <3>1. StateOf(row) \in States
        BY <1>1 DEF StateOf, States, WorldAgrees, Raw
      <3> QED BY <1>1, <3>1 DEF Snapshot, Seen
    <2>2. /\ new \in Call /\ new.pc = "publish" /\ new.since = call.since
          /\ new.gen = call.gen /\ new.seen = Snapshot
      BY <2>1 DEF Call, Pcs
    <2>3. calls' = [calls EXCEPT ![c] = new] /\ UNCHANGED <<worldVars, shared, obsLock, heard>>
          /\ call.pc = "locked"
      BY <1>8 DEF TakeSnapshot, At
    <2> HIDE DEF new
    <2>4. CallAgrees(c)'
      BY <1>1, <1>2, <2>1, <2>2, <2>3 DEF CallAgrees, worldVars
    <2> QED BY <2>2, <2>3, <2>4, StepKeeps
  <1>10. CASE FailObservation(c)
    <2> DEFINE new == Learnt(call, NoSeen)
    <2>1. new \in Call /\ new.pc = "offer" /\ new.seen = NoSeen /\ new.since = 0
          /\ new.offer = "none"
      BY CallValues, LearntCall
    <2>2. /\ calls' = [calls EXCEPT ![c] = new] /\ UNCHANGED <<worldVars, shared, heard>>
          /\ obsLock' = IF obsLock = c THEN NoCaller ELSE obsLock
      BY <1>10 DEF FailObservation
    <2> HIDE DEF new
    <2>4. calls'[c] = new /\ obsLock' # c /\ new.since <= heard'
      <3>1. calls'[c] = new
        BY <1>2, <2>1, <2>2
      <3>2. new.since <= heard /\ heard' = heard
        BY <1>1, <2>1, <2>2 DEF CallAgrees
      <3>3. obsLock' # c
        BY <1>1, <2>1, <2>2 DEF CallAgrees
      <3> QED BY <3>1, <3>2, <3>3
    <2>3. CallAgrees(c)'
      BY <2>1, <2>2, <2>4 DEF CallAgrees
    <2>5. UNCHANGED obsLock \/ (obsLock \in {c, NoCaller} /\ obsLock' \in {c, NoCaller})
      BY <2>2
    <2> QED BY <2>1, <2>2, <2>3, <2>5, LockKeeps
  <1>11. CASE PermitRecovery(c)
    <2> DEFINE new == [call EXCEPT !.pc = IF userStop THEN "offer" ELSE "recover"]
    <2>1. /\ new \in Call /\ new.pc \in {"offer", "recover"} /\ new.since = call.since
          /\ new.seen = call.seen /\ new.gen = call.gen
      BY DEF Call, Pcs
    <2>2. calls' = [calls EXCEPT ![c] = new] /\ UNCHANGED <<worldVars, shared, obsLock, heard>>
          /\ call.pc = "permit"
      BY <1>11 DEF PermitRecovery, At
    <2> HIDE DEF new
    <2>4. calls'[c] = new /\ obsLock' # c /\ new.since <= heard'
      <3>1. calls'[c] = new
        BY <1>2, <2>1, <2>2
      <3>2. new.since <= heard /\ heard' = heard
        BY <1>1, <2>1, <2>2 DEF CallAgrees
      <3>3. obsLock' # c
        BY <1>1, <2>1, <2>2 DEF CallAgrees
      <3> QED BY <3>1, <3>2, <3>3
    <2>3. CallAgrees(c)'
      BY <1>1, <2>1, <2>2, <2>4 DEF CallAgrees
    <2> QED BY <2>1, <2>2, <2>3, StepKeeps
  <1>13. CASE DeriveOffer(c)
    <2> DEFINE offer == IF ~proof THEN "none"
                        ELSE IF RunnerLeaseReleased THEN "resumable" ELSE "blocked"
               new == [call EXCEPT !.pc = "answer", !.offer = offer]
    <2>1. offer \in {"none", "resumable", "blocked"} /\ (offer = "resumable" => proof)
      OBVIOUS
    <2>2. calls' = [calls EXCEPT ![c] = new] /\ UNCHANGED <<worldVars, shared, obsLock, heard>>
          /\ call.pc = "offer"
      BY <1>13 DEF DeriveOffer, At
    <2> HIDE DEF offer
    <2>3. /\ new \in Call /\ new.pc = "answer" /\ new.since = call.since
          /\ new.seen = call.seen /\ new.gen = call.gen /\ new.offer = offer
      BY <2>1 DEF Call, Pcs
    <2> HIDE DEF new
    <2>4. CallAgrees(c)'
      BY <1>1, <1>2, <2>1, <2>2, <2>3 DEF CallAgrees, worldVars
    <2> QED BY <2>2, <2>3, <2>4, StepKeeps
  <1>14. CASE Answer(c)
    <2>1. calls' = [calls EXCEPT ![c] = NoCall] /\ call.pc = "answer"
          /\ UNCHANGED <<worldVars, shared, obsLock, heard>>
      BY <1>14 DEF Answer, At
    <2>3. calls'[c] = NoCall /\ obsLock' # c /\ 0 <= heard'
      <3>1. calls'[c] = NoCall
        BY <1>2, <2>1, CallValues
      <3>2. obsLock # c
        BY <1>1, <2>1 DEF CallAgrees
      <3>3. obsLock' = obsLock /\ heard' = heard
        BY <2>1
      <3>4. 0 <= heard
        BY <1>1
      <3> QED BY <3>1, <3>2, <3>3, <3>4
    <2>2. CallAgrees(c)'
      BY <2>3, CallValues DEF CallAgrees
    <2> QED BY <2>1, <2>2, CallValues, StepKeeps
  <1>9. CASE PublishObservation(c)
    <2> DEFINE seen == call.seen
               new(d) == IF d = c THEN Observed(call, seen)
                         ELSE IF calls[d].pc = "lock" THEN [calls[d] EXCEPT !.newer = TRUE]
                         ELSE calls[d]
    <2>1. /\ call.pc = "publish" /\ shared' = seen /\ heard' = moves /\ obsLock' = NoCaller
          /\ UNCHANGED worldVars /\ calls' = [d \in Callers |-> new(d)]
      BY <1>9 DEF PublishObservation, At
    <2>2. /\ seen \in Seen /\ obsLock = c /\ seen.at >= heard /\ seen.gen = call.gen
          /\ seen.at \in Nat
      BY <1>1, <2>1 DEF Call, Seen, CallAgrees
    <2>3. WorldAgrees' /\ UNCHANGED <<generation, proof, moves>> /\ heard' \in 0..moves'
      BY <1>1, <2>1 DEF WorldAgrees, worldVars
    <2>4. /\ new(c) \in Call /\ new(c).pc \in {"offer", "permit"} /\ new(c).seen = seen
          /\ new(c).gen = call.gen /\ new(c).offer = "none"
          /\ new(c).since = IF seen = NoSeen THEN 0 ELSE call.since
          /\ new(c).pc = "permit" => seen.state = "stashed"
      BY <2>2, LearntCall
    <2>5. ASSUME NEW d \in Callers, d # c
          PROVE  /\ new(d) \in Call /\ new(d).pc = calls[d].pc /\ new(d).seen = calls[d].seen
                 /\ new(d).gen = calls[d].gen /\ new(d).offer = calls[d].offer
                 /\ new(d).since = calls[d].since
                 /\ new(d).newer /\ new(d).pc = "locked" => calls[d].newer
      <3>1. calls[d] \in Call
        BY DEF StatusInv
      <3> QED BY <2>5, <3>1 DEF Call
    <2>6. \A d \in Callers : calls'[d] = new(d)
      BY <2>1
    <2>7. calls' \in [Callers -> Call]
      BY <2>1, <2>4, <2>5
    <2> HIDE DEF new, seen
    <2>8. CallAgrees(c)'
      BY <1>1, <2>1, <2>2, <2>3, <2>4, <2>6 DEF CallAgrees
    <2>9. ASSUME NEW d \in Callers, d # c PROVE CallAgrees(d)'
      <3>1. /\ CallAgrees(d) /\ obsLock # d /\ calls[d].since \in Nat
            /\ calls[d].since <= heard'
        BY <1>1, <2>1, <2>2, <2>9 DEF StatusInv, CallAgrees, Call
      <3>2. calls[d].since <= seen.at
        BY <1>1, <2>2, <3>1 DEF CallAgrees
      <3>3. obsLock' # d
        BY <2>1
      <3>4. calls'[d] = new(d)
        BY <2>6
      <3> QED BY <2>1, <2>3, <2>5, <2>9, <3>1, <3>2, <3>3, <3>4 DEF CallAgrees
    <2> QED BY <2>1, <2>2, <2>3, <2>7, <2>8, <2>9 DEF StatusInv
  <1>12. CASE RecoverStaged(c)
    <2>1. /\ call.pc = "recover" /\ call.seen.state = "stashed"
          /\ UNCHANGED <<submitted, generation, proof, userStop, outcome, shared, obsLock, heard>>
          /\ obsLock # c
      BY <1>1, <1>12 DEF RecoverStaged, At, CallAgrees
    <2>2. CASE /\ row = "Stashed" /\ moves < MaxMoves
               /\ receipt' = TRUE /\ row' = "Queued" /\ moves' = moves + 1
               /\ calls' = [calls EXCEPT ![c] = Learnt(@, [@.seen EXCEPT !.state = "queued"])]
      <3> DEFINE seen == [call.seen EXCEPT !.state = "queued"]
                 new == Learnt(call, seen)
      <3>1. call.seen # NoSeen /\ call.seen \in Seen
        BY <2>1, CallValues DEF Call
      <3>2. seen \in Seen /\ seen.at = call.seen.at /\ seen.gen = call.seen.gen
            /\ seen.state = "queued"
        BY <3>1 DEF Seen, States
      <3>3. seen # NoSeen
        BY <3>2, CallValues
      <3>4. calls' = [calls EXCEPT ![c] = new]
        BY <2>2
      <3> HIDE DEF seen
      <3>5. new \in Call /\ new.pc = "offer" /\ new.seen = seen /\ new.since = call.since
            /\ new.gen = call.gen /\ new.offer = "none"
        BY <3>2, <3>3, LearntCall
      <3> HIDE DEF new
      <3>6. CallAgrees(c)'
        BY <1>1, <1>2, <2>1, <3>1, <3>2, <3>4, <3>5 DEF CallAgrees
      <3>7. WorldAgrees'
        BY <1>1, <2>1, <2>2 DEF WorldAgrees, Raw, EndedRows
      <3>8. obsLock' \in Callers \cup {NoCaller} /\ moves' >= moves /\ moves' \in Nat
        BY <1>1, <2>1, <2>2 DEF StatusInv
      <3> QED BY <2>1, <3>4, <3>5, <3>6, <3>7, <3>8, CallKeeps
    <2>3. CASE /\ calls' = [calls EXCEPT ![c] =
                     IF receipt THEN [@ EXCEPT !.pc = "enter", !.again = TRUE, !.seen = NoSeen]
                     ELSE Learnt(@, NoSeen)]
               /\ UNCHANGED <<receipt, row, moves>>
      <3> DEFINE again == [call EXCEPT !.pc = "enter", !.again = TRUE, !.seen = NoSeen]
                 new == IF receipt THEN again ELSE Learnt(call, NoSeen)
      <3>1. again \in Call /\ again.pc = "enter" /\ again.since = call.since
        BY CallValues DEF Call, Pcs
      <3>2. Learnt(call, NoSeen) \in Call /\ Learnt(call, NoSeen).pc = "offer"
            /\ Learnt(call, NoSeen).since = 0 /\ Learnt(call, NoSeen).seen = NoSeen
        BY CallValues, LearntCall
      <3>3. calls' = [calls EXCEPT ![c] = new]
        BY <2>3
      <3> HIDE DEF again
      <3>4. new \in Call /\ new.pc \in {"enter", "offer"} /\ new.since <= heard
            /\ (new.pc = "offer" => new.seen = NoSeen)
        BY <1>1, <3>1, <3>2 DEF CallAgrees
      <3> HIDE DEF new
      <3>5. CallAgrees(c)'
        BY <1>1, <1>2, <2>1, <3>3, <3>4 DEF CallAgrees
      <3> QED BY <2>1, <2>3, <3>3, <3>4, <3>5, StepKeeps DEF worldVars
    <2> QED BY <1>12, <2>2, <2>3 DEF RecoverStaged
  <1> QED BY <1>3, <1>4, <1>5, <1>6, <1>7, <1>8, <1>9, <1>10, <1>11, <1>12, <1>13, <1>14
    DEF StatusCall

\* StatusInv is inductive, and it says that what a status command tells is fresh, durable,
\* safe and final, for all sets of callers and all bounds (status_observation.go,
\* continuation_observation.go).
THEOREM StatusInductive ==
  ASSUME NoCaller \notin Callers, MaxMoves \in Nat, MaxGenerations \in Nat \ {0}
  PROVE  /\ StatusInit => StatusInv
         /\ StatusInv /\ [StatusNext]_statusVars => StatusInv'
         /\ StatusInv => StatusTypeOK /\ StatusIsTrue
  <1>1. StatusInit => StatusInv
    <2> SUFFICES ASSUME StatusInit PROVE StatusInv
      OBVIOUS
    <2>1. WorldAgrees
      <3>1. row \in Raw /\ 0 \in 0..MaxMoves /\ 1 \in 1..MaxGenerations
        BY DEF StatusInit, Raw
      <3>2. {submitted, receipt, proof, userStop, outcome} \subseteq BOOLEAN
        BY DEF StatusInit
      <3> QED BY <3>1, <3>2 DEF StatusInit, WorldAgrees
    <2>2. shared \in Seen /\ heard \in 0..moves /\ calls \in [Callers -> Call]
      BY CallValues DEF StatusInit
    <2>3. ASSUME NEW c \in Callers PROVE CallAgrees(c)
      BY CallValues DEF StatusInit, CallAgrees
    <2> QED BY <2>1, <2>2, <2>3 DEF StatusInv, StatusInit
  <1>2. StatusInv /\ [StatusNext]_statusVars => StatusInv'
    <2> SUFFICES ASSUME StatusInv, [StatusNext]_statusVars PROVE StatusInv'
      OBVIOUS
    <2>1. CASE UNCHANGED statusVars BY <2>1 DEF statusVars, StatusInv, WorldAgrees, CallAgrees
    <2>2. CASE StatusWorld BY <2>2, StatusWorldKeeps
    <2>3. ASSUME NEW c \in Callers, StatusCall(c) PROVE StatusInv'
      BY <2>3, StatusCallKeeps
    <2> QED BY <2>1, <2>2, <2>3 DEF StatusNext
  <1>3. StatusInv => StatusTypeOK /\ StatusIsTrue
    <2> SUFFICES ASSUME StatusInv PROVE StatusTypeOK /\ StatusIsTrue
      OBVIOUS
    <2>1. StatusTypeOK
      BY DEF StatusTypeOK, StatusInv, WorldAgrees, Seen
    <2>2. ObservationIsFresh
      BY DEF ObservationIsFresh, At, StatusInv, CallAgrees
    <2>3. AdmittedIsDurable
      BY DEF AdmittedIsDurable, Admission, Admitted, StatusInv, WorldAgrees
    <2>4. OfferIsSafe
      BY DEF OfferIsSafe, Offer, Suppressed, RunnerLeaseReleased, At, StatusInv, CallAgrees,
         WorldAgrees, EndedRows
    <2>5. EndedIsFinal
      BY DEF EndedIsFinal, Liveness, StatusInv, WorldAgrees, EndedRows
    <2> QED BY <2>1, <2>2, <2>3, <2>4, <2>5 DEF StatusIsTrue
  <1> QED BY <1>1, <1>2, <1>3

--------------------
(* The custody of executables.                                             *)

Releasing == {"prove", "observe", "reprove", "views", "released", "pending", "fault"}
Reclaiming == {"gated", "list", "unlink"}
Work == [pc : Releasing \cup Reclaiming \cup {"idle", "maintain"},
         op : {"none", "release", "pending"}, owner : OwnerIds \cup {NoOwner},
         by : {"none", "guardian", "pass", "removal", "status"}, todo : SUBSET Images]

\* What a disposer knows of the owner it works for, of the gate and of the images.
WorkAgrees(d) ==
    /\ work[d].pc = "idle" => work[d] = NoWork
    /\ work[d].pc \in Releasing => work[d].owner \in closed /\ work[d].op # "none"
    /\ work[d].pc \notin Releasing => work[d].op = "none"
    /\ work[d].op = "release" => work[d].by \in {"guardian", "pass"} /\ work[d].pc # "pending"
    /\ work[d].pc \in Reclaiming => gate = d
    /\ work[d].pc = "unlink" => \A i \in work[d].todo : Idle(i)
    /\ work[d].pc = "reprove" => work[d].owner \notin witness \/ ~ Identity
    /\ work[d].pc = "released" => work[d].owner \notin witness

CustodyTypes ==
    /\ closed \subseteq OwnerIds /\ witness \subseteq OwnerIds /\ queued \subseteq Inspected
    /\ images \subseteq Images /\ gate \in Disposers \cup {NoDisposer}
    /\ views \in [OwnerIds -> SUBSET Images] /\ linked \in [OwnerIds -> SUBSET Images]
    /\ work \in [Disposers -> Work]
    /\ guardians \in [OwnerIds -> {"running", "asking", "over", "gone"}]
    /\ fullWake \in BOOLEAN
    /\ pass \in [active : BOOLEAN, todo : SUBSET OwnerIds, failed : BOOLEAN]
    /\ custodyFaults \in 0..MaxCustodyFaults

CustodyInv ==
    /\ CustodyTypes
    /\ CustodyStands
    /\ \A o \in Inspected \ queued : o \in closed /\ o \notin witness
    /\ \A o \in OwnerIds : guardians[o] \in {"asking", "over"} => o \in closed
    /\ NothingStranded
    /\ \A d \in Disposers : WorkAgrees(d)

\* What a disposer knows lasts while others work, as long as no view or witness of a closed
\* lifetime appears and its gate is not taken from it.
LEMMA AgreesStill ==
  ASSUME NEW e \in Disposers, WorkAgrees(e), work'[e] = work[e], closed \subseteq closed',
         witness' \cap closed \subseteq witness, Identity' => Identity,
         gate = e => gate' = e /\ \A o \in OwnerIds : views'[o] \subseteq views[o]
  PROVE  WorkAgrees(e)'
  <1>1. ASSUME work[e].pc \in Releasing PROVE WorkAgrees(e)'
    <2>1. work[e].owner \in closed /\ work[e].pc \notin Reclaiming
      BY <1>1 DEF WorkAgrees, Releasing, Reclaiming
    <2> QED BY <1>1, <2>1 DEF WorkAgrees, Reclaiming
  <1>2. ASSUME work[e].pc \in Reclaiming PROVE WorkAgrees(e)'
    <2>1. gate = e /\ gate' = e
      BY <1>2 DEF WorkAgrees
    <2>2. \A i : Idle(i) => Idle(i)'
      BY <2>1 DEF Idle
    <2> QED BY <1>2, <2>1, <2>2 DEF WorkAgrees, Releasing, Reclaiming
  <1>3. ASSUME work[e].pc \notin Releasing, work[e].pc \notin Reclaiming PROVE WorkAgrees(e)'
    BY <1>3 DEF WorkAgrees, Releasing, Reclaiming
  <1> QED BY <1>1, <1>2, <1>3

\* What the other disposers know lasts through a step of one.
LEMMA OthersAgree ==
  ASSUME CustodyInv, NEW d \in Disposers, NEW new \in Work,
         work' = [work EXCEPT ![d] = new], WorkAgrees(d)', closed' = closed, root' = root,
         witness' \subseteq witness, \A o \in OwnerIds : views'[o] \subseteq views[o],
         \A e \in Disposers : e # d /\ gate = e => gate' = e
  PROVE  /\ \A e \in Disposers : WorkAgrees(e)'
         /\ work' \in [Disposers -> Work] /\ work'[d] = new
         /\ \A e \in Disposers : e # d => work'[e] = work[e]
  <1>1. /\ work' \in [Disposers -> Work] /\ work'[d] = new
        /\ \A e \in Disposers : e # d => work'[e] = work[e]
    BY DEF CustodyInv, CustodyTypes
  <1>2. Identity' => Identity
    BY DEF Identity
  <1>3. ASSUME NEW e \in Disposers, e # d PROVE WorkAgrees(e)'
    BY <1>1, <1>2, <1>3, AgreesStill DEF CustodyInv
  <1> QED BY <1>1, <1>3

\* A step of one disposer that leaves the lifetimes and the pool alone, but for the gate.
LEMMA QuietKeeps ==
  ASSUME CustodyInv, NEW d \in Disposers, NEW new \in Work,
         work' = [work EXCEPT ![d] = new], WorkAgrees(d)',
         UNCHANGED <<views, witness, linked, images, root, lifeVars>>,
         custodyFaults' \in 0..MaxCustodyFaults, gate' \in Disposers \cup {NoDisposer},
         \A e \in Disposers : e # d /\ gate = e => gate' = e,
         work[d].op = "release" => new.op = "release" /\ new.owner = work[d].owner
  PROVE  CustodyInv'
  <1>0. /\ closed' = closed /\ guardians' = guardians /\ fullWake' = fullWake
        /\ pass' = pass /\ queued' = queued
    BY DEF lifeVars
  <1>1. /\ \A e \in Disposers : WorkAgrees(e)'
        /\ work' \in [Disposers -> Work] /\ work'[d] = new
        /\ \A e \in Disposers : e # d => work'[e] = work[e]
    BY <1>0, OthersAgree
  <1>2. CustodyTypes'
    BY <1>0, <1>1 DEF CustodyInv, CustodyTypes
  <1>3. CustodyStands'
    BY <1>0 DEF CustodyInv, CustodyStands
  <1>4. NothingStranded'
    <2>1. ASSUME NEW o \in OwnerIds, guardians[o] = "over", o \in witness,
                 ~ fullWake, o \notin pass.todo, ~ pass.failed
          PROVE  \E e \in Disposers : work'[e].owner = o /\ work'[e].op = "release"
      <3>1. PICK e \in Disposers : work[e].owner = o /\ work[e].op = "release"
        BY <2>1 DEF CustodyInv, NothingStranded, Owner
      <3> QED BY <1>1, <3>1
    <2> QED BY <1>0, <2>1 DEF NothingStranded, Owner
  <1>5. /\ (\A o \in Inspected \ queued : o \in closed /\ o \notin witness)'
        /\ (\A o \in OwnerIds : guardians[o] \in {"asking", "over"} => o \in closed)'
    BY <1>0 DEF CustodyInv
  <1> QED BY <1>1, <1>2, <1>3, <1>4, <1>5 DEF CustodyInv

\* Steps of a release or of a pending check that look at the pool.
LEMMA LooksKeep ==
  ASSUME CustodyInv, MaxCustodyFaults \in Nat, NEW d \in Disposers,
         ProveIdentity(d) \/ Observe(d) \/ Reprove(d) \/ ReleaseFails(d)
  PROVE  CustodyInv'
  <1>1. /\ work \in [Disposers -> Work] /\ work[d] \in Work /\ WorkAgrees(d)
        /\ views \in [OwnerIds -> SUBSET Images] /\ closed \subseteq OwnerIds
        /\ gate \in Disposers \cup {NoDisposer} /\ custodyFaults \in 0..MaxCustodyFaults
    BY DEF CustodyInv, CustodyTypes
  <1>2. /\ UNCHANGED <<views, witness, linked, images, root, gate, lifeVars>>
        /\ custodyFaults' \in 0..MaxCustodyFaults
    BY <1>1 DEF ProveIdentity, Observe, Reprove, ReleaseFails, poolVars
  <1>3. ASSUME NEW new \in Work, work' = [work EXCEPT ![d] = new],
               new.owner = work[d].owner, new.op = work[d].op, new.by = work[d].by,
               work[d].pc \in Releasing, new.pc \in Releasing,
               new.pc = "pending" => new.op # "release",
               new.pc \in {"reprove", "released"} =>
                 new.owner \notin witness \/ (new.pc = "reprove" /\ ~ Identity)
        PROVE  CustodyInv'
    <2>1. work'[d] = new
      BY <1>1, <1>3
    <2>2. WorkAgrees(d)'
      BY <1>1, <1>2, <1>3, <2>1
      DEF WorkAgrees, Releasing, Reclaiming, Identity, lifeVars
    <2> QED BY <1>1, <1>2, <1>3, <2>2, QuietKeeps
  <1>4. ASSUME NEW pc \in Releasing, Go(d, pc), work[d].pc \in Releasing,
               pc = "pending" => work[d].op # "release",
               pc \in {"reprove", "released"} =>
                 work[d].owner \notin witness \/ (pc = "reprove" /\ ~ Identity)
        PROVE  CustodyInv'
    <2> DEFINE new == [work[d] EXCEPT !.pc = pc]
    <2>1. /\ new \in Work /\ new.pc = pc /\ new.owner = work[d].owner
          /\ new.op = work[d].op /\ new.by = work[d].by
      BY <1>1, <1>4 DEF Work
    <2>2. work' = [work EXCEPT ![d] = new]
      BY <1>4 DEF Go
    <2> HIDE DEF new
    <2> QED BY <1>3, <1>4, <2>1, <2>2
  <1>5. CASE ProveIdentity(d) BY <1>4, <1>5 DEF ProveIdentity, Doing, Releasing
  <1>6. CASE Observe(d)
    <2>1. work[d].pc = "observe"
      BY <1>6 DEF Observe, Doing
    <2>2. CASE ~ ObserveWitness(Owner(d))
      BY <1>4, <1>6, <2>1, <2>2 DEF Observe, Absent, ObserveWitness, Owner, Releasing
    <2>3. CASE ObserveWitness(Owner(d)) /\ work[d].op = "pending"
      BY <1>4, <1>6, <2>1, <2>3 DEF Observe, Releasing
    <2>4. CASE ObserveWitness(Owner(d)) /\ work[d].op # "pending"
      <3> DEFINE new == [work[d] EXCEPT !.pc = "views", !.todo = views[Owner(d)]]
      <3>1. work[d].owner \in OwnerIds
        BY <1>1, <2>1 DEF WorkAgrees, Releasing
      <3>2. /\ new \in Work /\ new.pc = "views" /\ new.owner = work[d].owner
            /\ new.op = work[d].op /\ new.by = work[d].by
        BY <1>1, <3>1 DEF Work, Owner, Releasing
      <3>3. work' = [work EXCEPT ![d] = new]
        BY <1>6, <2>4 DEF Observe
      <3> HIDE DEF new
      <3> QED BY <1>3, <2>1, <3>2, <3>3 DEF Releasing
    <2> QED BY <2>2, <2>3, <2>4
  <1>7. CASE Reprove(d) BY <1>1, <1>4, <1>7 DEF Reprove, Doing, Releasing, WorkAgrees
  <1>8. CASE ReleaseFails(d) BY <1>4, <1>8 DEF ReleaseFails, Releasing
  <1> QED BY <1>5, <1>6, <1>7, <1>8

\* Removing a view takes only from a closed lifetime.
LEMMA RemoveViewKeeps ==
  ASSUME CustodyInv, NEW d \in Disposers, RemoveView(d)
  PROVE  CustodyInv'
  <1>1. /\ work \in [Disposers -> Work] /\ work[d] \in Work /\ WorkAgrees(d)
        /\ views \in [OwnerIds -> SUBSET Images] /\ work[d].pc = "views"
        /\ work[d].owner \in closed /\ work[d].owner \in OwnerIds
    BY DEF CustodyInv, CustodyTypes, RemoveView, Doing, WorkAgrees, Releasing
  <1>2. PICK i \in work[d].todo :
          /\ work' = [work EXCEPT ![d].todo = @ \ {i}]
          /\ views' = IF Identity THEN [views EXCEPT ![Owner(d)] = @ \ {i}] ELSE views
    BY DEF RemoveView
  <1>3. /\ UNCHANGED <<witness, linked, images, root, gate, custodyFaults>>
        /\ closed' = closed /\ guardians' = guardians /\ fullWake' = fullWake
        /\ pass' = pass /\ queued' = queued
    BY DEF RemoveView, lifeVars
  <1>4. /\ views' \in [OwnerIds -> SUBSET Images]
        /\ \A o \in OwnerIds : views'[o] \subseteq views[o]
        /\ \A o \in OwnerIds : o # work[d].owner => views'[o] = views[o]
    BY <1>1, <1>2 DEF Owner
  <1> DEFINE new == [work[d] EXCEPT !.todo = work[d].todo \ {i}]
  <1>5. /\ new \in Work /\ new.pc = "views" /\ new.owner = work[d].owner
        /\ new.op = work[d].op /\ new.by = work[d].by
    BY <1>1 DEF Work
  <1>6. work' = [work EXCEPT ![d] = new]
    BY <1>2
  <1> HIDE DEF new
  <1>7. work'[d] = new
    BY <1>1, <1>6
  <1>8. WorkAgrees(d)'
    BY <1>1, <1>3, <1>5, <1>7 DEF WorkAgrees, Releasing, Reclaiming
  <1>9. /\ \A e \in Disposers : WorkAgrees(e)'
        /\ work' \in [Disposers -> Work]
        /\ \A e \in Disposers : e # d => work'[e] = work[e]
    BY <1>3, <1>4, <1>5, <1>6, <1>8, OthersAgree
  <1>10. CustodyTypes'
    BY <1>3, <1>4, <1>9 DEF CustodyInv, CustodyTypes
  <1>11. CustodyStands'
    BY <1>1, <1>3, <1>4 DEF CustodyInv, CustodyStands
  <1>12. NothingStranded'
    <2>1. \A e \in Disposers : work'[e].owner = work[e].owner /\ work'[e].op = work[e].op
      BY <1>5, <1>7, <1>9
    <2> QED BY <1>3, <2>1 DEF CustodyInv, NothingStranded, Owner
  <1>13. /\ (\A o \in Inspected \ queued : o \in closed /\ o \notin witness)'
         /\ (\A o \in OwnerIds : guardians[o] \in {"asking", "over"} => o \in closed)'
    BY <1>3 DEF CustodyInv
  <1> QED BY <1>9, <1>10, <1>11, <1>12, <1>13 DEF CustodyInv

\* The witness is removed once no view is left, or found removed.
LEMMA RemoveWitnessKeeps ==
  ASSUME CustodyInv, NEW d \in Disposers, RemoveWitness(d)
  PROVE  CustodyInv'
  <1>1. /\ work \in [Disposers -> Work] /\ work[d] \in Work /\ WorkAgrees(d)
        /\ work[d].pc = "views" /\ work[d].owner \in closed /\ work[d].op # "none"
    BY DEF CustodyInv, CustodyTypes, RemoveWitness, Doing, WorkAgrees, Releasing
  <1>2. /\ UNCHANGED <<views, linked, images, root, gate, custodyFaults>>
        /\ closed' = closed /\ guardians' = guardians /\ fullWake' = fullWake
        /\ pass' = pass /\ queued' = queued
    BY DEF RemoveWitness, lifeVars
  <1>3. PICK pc \in {"reprove", "fault", "released"} :
          /\ Go(d, pc)
          /\ pc = "reprove" => ~ ObserveWitness(Owner(d)) /\ UNCHANGED witness
          /\ pc = "fault" => UNCHANGED witness
          /\ pc = "released" => witness' = witness \ {Owner(d)}
    BY DEF RemoveWitness, Absent
  <1>4. witness' \subseteq witness
    BY <1>3
  <1> DEFINE new == [work[d] EXCEPT !.pc = pc]
  <1>5. /\ new \in Work /\ new.pc = pc /\ new.owner = work[d].owner
        /\ new.op = work[d].op /\ new.by = work[d].by
    BY <1>1 DEF Work, Releasing
  <1>6. work' = [work EXCEPT ![d] = new]
    BY <1>3 DEF Go
  <1> HIDE DEF new
  <1>7. work'[d] = new
    BY <1>1, <1>6
  <1>8. WorkAgrees(d)'
    <2>1. pc = "reprove" => new.owner \notin witness' \/ ~ Identity'
      BY <1>2, <1>3, <1>5 DEF ObserveWitness, Owner, Identity
    <2>2. pc = "released" => new.owner \notin witness'
      BY <1>3, <1>5 DEF Owner
    <2> QED BY <1>1, <1>2, <1>5, <1>7, <2>1, <2>2 DEF WorkAgrees, Releasing, Reclaiming
  <1>9. /\ \A e \in Disposers : WorkAgrees(e)'
        /\ work' \in [Disposers -> Work]
        /\ \A e \in Disposers : e # d => work'[e] = work[e]
    BY <1>2, <1>4, <1>5, <1>6, <1>8, OthersAgree
  <1>10. CustodyTypes'
    BY <1>2, <1>4, <1>9 DEF CustodyInv, CustodyTypes
  <1>11. CustodyStands'
    BY <1>2 DEF CustodyInv, CustodyStands
  <1>12. NothingStranded'
    <2>1. \A e \in Disposers : work'[e].owner = work[e].owner /\ work'[e].op = work[e].op
      BY <1>5, <1>7, <1>9
    <2> QED BY <1>2, <1>4, <2>1 DEF CustodyInv, NothingStranded, Owner
  <1>13. /\ (\A o \in Inspected \ queued : o \in closed /\ o \notin witness)'
         /\ (\A o \in OwnerIds : guardians[o] \in {"asking", "over"} => o \in closed)'
    BY <1>2, <1>4 DEF CustodyInv
  <1> QED BY <1>9, <1>10, <1>11, <1>12, <1>13 DEF CustodyInv

\* The reclaim of images: the gate, the list, and one image after another.
LEMMA ReclaimKeeps ==
  ASSUME CustodyInv, NoDisposer \notin Disposers, NEW d \in Disposers,
         TakeGate(d) \/ ListImages(d) \/ StatImage(d) \/ EndReclaim(d)
  PROVE  CustodyInv'
  <1>1. /\ work \in [Disposers -> Work] /\ work[d] \in Work /\ WorkAgrees(d)
        /\ images \subseteq Images /\ gate \in Disposers \cup {NoDisposer}
        /\ custodyFaults \in 0..MaxCustodyFaults
    BY DEF CustodyInv, CustodyTypes
  <1>2. /\ UNCHANGED <<views, witness, linked, images, root, lifeVars>>
        /\ custodyFaults' \in 0..MaxCustodyFaults
    BY <1>1 DEF TakeGate, ListImages, StatImage, EndReclaim, poolVars
  <1>3. work[d].pc \in Reclaiming \cup {"maintain"} /\ work[d].op = "none"
    BY <1>1 DEF TakeGate, ListImages, StatImage, EndReclaim, Doing, WorkAgrees, Releasing,
                Reclaiming
  <1>4. ASSUME NEW new \in Work, work' = [work EXCEPT ![d] = new], new.op = "none",
               new = NoWork \/ (new.pc \in Reclaiming /\ gate' = d),
               new.pc = "unlink" => \A i \in new.todo : Idle(i),
               gate' \in Disposers \cup {NoDisposer},
               \A e \in Disposers : e # d /\ gate = e => gate' = e
        PROVE  CustodyInv'
    <2>1. work'[d] = new
      BY <1>1, <1>4
    <2>2. \A i : Idle(i)' = Idle(i)
      BY <1>2 DEF Idle
    <2>3. WorkAgrees(d)'
      BY <1>4, <2>1, <2>2 DEF WorkAgrees, Releasing, Reclaiming, NoWork
    <2> QED BY <1>2, <1>3, <1>4, <2>3, QuietKeeps
  <1>5. NoWork \in Work /\ NoWork.op = "none" /\ NoWork.pc = "idle"
    BY DEF NoWork, Work
  <1>6. ASSUME CloseGate(d) PROVE CustodyInv'
    BY <1>1, <1>4, <1>5, <1>6 DEF CloseGate
  <1>7. CASE TakeGate(d)
    <2>1. CASE Identity /\ gate = NoDisposer
      <3> DEFINE new == [work[d] EXCEPT !.pc = "gated"]
      <3>1. new \in Work /\ new.pc = "gated" /\ new.op = "none"
        BY <1>1, <1>3 DEF Work, Reclaiming
      <3>2. work' = [work EXCEPT ![d] = new] /\ gate' = d
        BY <1>7, <2>1 DEF TakeGate, GateTaken, Go
      <3> HIDE DEF new
      <3> QED BY <1>4, <2>1, <3>1, <3>2 DEF Reclaiming
    <2>2. CASE ~ (Identity /\ gate = NoDisposer)
      BY <1>1, <1>4, <1>5, <1>7, <2>2 DEF TakeGate
    <2> QED BY <2>1, <2>2
  <1>8. CASE ListImages(d)
    <2>1. CASE Identity
      <3> DEFINE new == [work[d] EXCEPT !.pc = "list", !.todo = images]
      <3>1. new \in Work /\ new.pc = "list" /\ new.op = "none"
        BY <1>1, <1>3 DEF Work, Reclaiming
      <3>2. work' = [work EXCEPT ![d] = new] /\ gate' = gate
        BY <1>8, <2>1 DEF ListImages
      <3>3. gate = d
        BY <1>1, <1>8 DEF ListImages, Doing, WorkAgrees, Reclaiming
      <3> HIDE DEF new
      <3> QED BY <1>4, <3>1, <3>2, <3>3 DEF Reclaiming
    <2> QED BY <1>6, <1>8, <2>1 DEF ListImages
  <1>9. CASE StatImage(d)
    <2>1. PICK i \in work[d].todo :
            work' = [work EXCEPT ![d].pc = IF Idle(i) /\ Identity THEN "unlink" ELSE "list",
                                 ![d].todo = IF Idle(i) /\ Identity THEN {i} ELSE @ \ {i}]
      BY <1>9 DEF StatImage
    <2> DEFINE ok == Idle(i) /\ Identity
               new == [work[d] EXCEPT !.pc = IF ok THEN "unlink" ELSE "list",
                                      !.todo = IF ok THEN {i} ELSE work[d].todo \ {i}]
    <2>2. work' = [work EXCEPT ![d] = new]
      BY <1>1, <2>1
    <2>3. new \in Work /\ new.op = "none" /\ new.pc \in {"unlink", "list"}
      BY <1>1, <1>3, <2>1 DEF Work, Reclaiming
    <2>4. new.pc = "unlink" => \A j \in new.todo : Idle(j)
      <3>1. CASE ok BY <1>1, <3>1 DEF Work
      <3>2. CASE ~ ok BY <1>1, <3>2 DEF Work
      <3> QED BY <3>1, <3>2
    <2>5. gate = d /\ gate' = gate
      BY <1>1, <1>9 DEF StatImage, Doing, WorkAgrees, Reclaiming, poolVars
    <2> HIDE DEF new
    <2> QED BY <1>4, <2>2, <2>3, <2>4, <2>5 DEF Reclaiming
  <1>10. CASE EndReclaim(d) BY <1>6, <1>10 DEF EndReclaim
  <1> QED BY <1>7, <1>8, <1>9, <1>10

\* Only an image without a view is removed: none can be linked while the gate is held.
LEMMA UnlinkKeeps ==
  ASSUME CustodyInv, NEW d \in Disposers, UnlinkImage(d)
  PROVE  CustodyInv'
  <1>1. /\ work \in [Disposers -> Work] /\ work[d] \in Work /\ WorkAgrees(d)
        /\ work[d].pc = "unlink" /\ work[d].op = "none" /\ gate = d
        /\ images \subseteq Images /\ views \in [OwnerIds -> SUBSET Images]
    BY DEF CustodyInv, CustodyTypes, UnlinkImage, Doing, WorkAgrees, Releasing, Reclaiming
  <1>2. /\ UNCHANGED <<views, witness, linked, root, gate, custodyFaults>>
        /\ closed' = closed /\ guardians' = guardians /\ fullWake' = fullWake
        /\ pass' = pass /\ queued' = queued
    BY DEF UnlinkImage, lifeVars
  <1>3. images' \subseteq images /\ \A i \in images \ images' : Idle(i)
    BY <1>1 DEF UnlinkImage, WorkAgrees
  <1> DEFINE new == [work[d] EXCEPT !.pc = "list", !.todo = images \ work[d].todo]
  <1>4. new \in Work /\ new.pc = "list" /\ new.op = "none" /\ new.owner = work[d].owner
    BY <1>1 DEF Work, Reclaiming
  <1>5. work' = [work EXCEPT ![d] = new]
    BY <1>1 DEF UnlinkImage
  <1> HIDE DEF new
  <1>6. work'[d] = new
    BY <1>1, <1>5
  <1>7. WorkAgrees(d)'
    BY <1>1, <1>2, <1>4, <1>6 DEF WorkAgrees, Releasing, Reclaiming
  <1>8. /\ \A e \in Disposers : WorkAgrees(e)'
        /\ work' \in [Disposers -> Work]
        /\ \A e \in Disposers : e # d => work'[e] = work[e]
    BY <1>2, <1>4, <1>5, <1>7, OthersAgree
  <1>9. CustodyTypes'
    BY <1>2, <1>3, <1>8 DEF CustodyInv, CustodyTypes
  <1>10. CustodyStands'
    BY <1>2, <1>3 DEF CustodyInv, CustodyStands, Idle
  <1>11. NothingStranded'
    <2>1. \A e \in Disposers : work'[e].owner = work[e].owner /\ work'[e].op = work[e].op
      BY <1>1, <1>4, <1>6, <1>8
    <2> QED BY <1>2, <2>1 DEF CustodyInv, NothingStranded, Owner
  <1>12. /\ (\A o \in Inspected \ queued : o \in closed /\ o \notin witness)'
         /\ (\A o \in OwnerIds : guardians[o] \in {"asking", "over"} => o \in closed)'
    BY <1>2 DEF CustodyInv
  <1> QED BY <1>8, <1>9, <1>10, <1>11, <1>12 DEF CustodyInv

\* What follows from an answer: the wake, the failed pass, the guardian's end, the row.
LEMMA ConcludeKeeps ==
  ASSUME CustodyInv, NEW d \in Disposers, Conclude(d)
  PROVE  CustodyInv'
  <1> DEFINE w == work[d]
             new == IF w.op # "release" THEN NoWork
                    ELSE [NoWork EXCEPT !.pc = "maintain",
                                        !.by = IF w.by = "pass" THEN "pass" ELSE "none"]
  <1>1. /\ work \in [Disposers -> Work] /\ w \in Work /\ WorkAgrees(d)
        /\ w.pc \in {"released", "pending", "fault"} /\ w.owner \in closed
        /\ closed \subseteq OwnerIds
        /\ guardians \in [OwnerIds -> {"running", "asking", "over", "gone"}]
        /\ fullWake \in BOOLEAN /\ queued \subseteq Inspected
        /\ pass \in [active : BOOLEAN, todo : SUBSET OwnerIds, failed : BOOLEAN]
    BY DEF CustodyInv, CustodyTypes, Conclude, WorkAgrees, Releasing
  <1>2. /\ UNCHANGED <<views, witness, linked, images, root, gate, custodyFaults>>
        /\ closed' = closed
    BY DEF Conclude, poolVars
  <1>3. /\ new \in Work /\ new.op = "none" /\ new.pc \in {"idle", "maintain"}
        /\ new.pc = "idle" => new = NoWork
    BY <1>1 DEF NoWork, Work
  <1>4. work' = [work EXCEPT ![d] = new]
    BY DEF Conclude
  <1>5. /\ fullWake' = (fullWake \/ HandsOver(w) \/ (w.by = "status" /\ w.pc = "pending"))
        /\ pass' = [pass EXCEPT !.failed = pass.failed \/ (w.by = "pass" /\ w.pc = "fault")]
        /\ guardians' = IF w.by = "guardian" THEN [guardians EXCEPT ![w.owner] = "over"]
                        ELSE guardians
        /\ queued' = IF w.by = "removal" /\ w.pc = "released" THEN queued \ {w.owner}
                     ELSE queued
    BY DEF Conclude
  <1>6. (w.op = "release" => w.by \in {"guardian", "pass"} /\ w.pc # "pending")
        /\ (w.pc = "released" => w.owner \notin witness)
    BY <1>1 DEF WorkAgrees
  <1> HIDE DEF w, new
  <1>7. work'[d] = new
    BY <1>1, <1>4
  <1>8. WorkAgrees(d)'
    BY <1>3, <1>7 DEF WorkAgrees, Releasing, Reclaiming
  <1>9. /\ \A e \in Disposers : WorkAgrees(e)'
        /\ work' \in [Disposers -> Work]
        /\ \A e \in Disposers : e # d => work'[e] = work[e]
    BY <1>2, <1>3, <1>4, <1>8, OthersAgree
  <1>10. /\ fullWake' \in BOOLEAN /\ queued' \subseteq queued
         /\ guardians' \in [OwnerIds -> {"running", "asking", "over", "gone"}]
         /\ \A o \in OwnerIds : guardians'[o] # guardians[o] =>
              o = w.owner /\ w.by = "guardian"
    BY <1>1, <1>5
  <1>11. /\ pass' \in [active : BOOLEAN, todo : SUBSET OwnerIds, failed : BOOLEAN]
         /\ pass'.todo = pass.todo
         /\ pass'.failed = (pass.failed \/ (w.by = "pass" /\ w.pc = "fault"))
    BY <1>1, <1>5
  <1>12. CustodyTypes'
    BY <1>2, <1>9, <1>10, <1>11 DEF CustodyInv, CustodyTypes
  <1>13. CustodyStands'
    BY <1>2 DEF CustodyInv, CustodyStands
  <1>14. (\A o \in Inspected \ queued : o \in closed /\ o \notin witness)'
    BY <1>1, <1>2, <1>5, <1>6 DEF CustodyInv
  <1>15. (\A o \in OwnerIds : guardians[o] \in {"asking", "over"} => o \in closed)'
    BY <1>1, <1>2, <1>10 DEF CustodyInv
  <1>16. NothingStranded'
    <2> SUFFICES ASSUME NEW o \in OwnerIds, guardians'[o] = "over", o \in witness,
                        ~ fullWake', o \notin pass'.todo, ~ pass'.failed
                 PROVE  \E e \in Disposers : work'[e].owner = o /\ work'[e].op = "release"
      BY <1>2 DEF NothingStranded, Owner
    <2>1. ~ (o = w.owner /\ (w.by = "guardian" \/ w.op = "release"))
      BY <1>1, <1>5, <1>6, <1>11 DEF HandsOver
    <2>2. guardians[o] = "over" /\ ~ fullWake /\ o \notin pass.todo /\ ~ pass.failed
      BY <1>5, <1>10, <1>11, <2>1
    <2>3. PICK e \in Disposers : work[e].owner = o /\ work[e].op = "release"
      BY <2>2 DEF CustodyInv, NothingStranded, Owner
    <2>4. e # d
      BY <2>1, <2>3 DEF w
    <2> QED BY <1>9, <2>3, <2>4
  <1> QED BY <1>9, <1>12, <1>13, <1>14, <1>15, <1>16 DEF CustodyInv

\* A process dies; a pass dies with all its workers and leaves a full wake owed.
LEMMA DieKeeps ==
  ASSUME CustodyInv, NoDisposer \notin Disposers, MaxCustodyFaults \in Nat,
         NEW d \in Disposers, Die(d)
  PROVE  CustodyInv'
  <1> DEFINE dead == IF work[d].by = "pass" THEN {e \in Disposers : work[e].by = "pass"}
                     ELSE {d}
  <1>1. /\ work \in [Disposers -> Work] /\ gate \in Disposers \cup {NoDisposer}
        /\ guardians \in [OwnerIds -> {"running", "asking", "over", "gone"}]
        /\ fullWake \in BOOLEAN /\ custodyFaults \in 0..MaxCustodyFaults
        /\ pass \in [active : BOOLEAN, todo : SUBSET OwnerIds, failed : BOOLEAN]
    BY DEF CustodyInv, CustodyTypes
  <1>2. /\ UNCHANGED <<views, witness, linked, images, root, closed, queued>>
        /\ custodyFaults' \in 0..MaxCustodyFaults
    BY <1>1 DEF Die
  <1>3. /\ work' = [e \in Disposers |-> IF e \in dead THEN NoWork ELSE work[e]]
        /\ gate' = IF gate \in dead THEN NoDisposer ELSE gate
        /\ guardians' = [o \in OwnerIds |->
             IF work[d].by = "guardian" /\ work[d].owner = o THEN "gone" ELSE guardians[o]]
        /\ pass' = IF work[d].by = "pass" THEN NoPass ELSE pass
        /\ fullWake' = (fullWake \/ work[d].by = "pass")
    BY DEF Die, Owner
  <1>4. dead \subseteq Disposers
    OBVIOUS
  <1>5. \A e \in dead : e = d \/ (work[e].by = "pass" /\ work[d].by = "pass")
    OBVIOUS
  <1> HIDE DEF dead
  <1>6. NoWork \in Work /\ NoWork.op = "none" /\ NoWork.pc = "idle"
    BY DEF NoWork, Work
  <1>7. /\ work' \in [Disposers -> Work] /\ gate' \in Disposers \cup {NoDisposer}
        /\ guardians' \in [OwnerIds -> {"running", "asking", "over", "gone"}]
    BY <1>1, <1>3, <1>4, <1>6
  <1>8. pass' \in [active : BOOLEAN, todo : SUBSET OwnerIds, failed : BOOLEAN]
    BY <1>1, <1>3 DEF NoPass
  <1>9. CustodyTypes'
    BY <1>2, <1>3, <1>7, <1>8 DEF CustodyInv, CustodyTypes
  <1>10. CustodyStands'
    BY <1>2 DEF CustodyInv, CustodyStands
  <1>11. /\ (\A o \in Inspected \ queued : o \in closed /\ o \notin witness)'
         /\ (\A o \in OwnerIds : guardians[o] \in {"asking", "over"} => o \in closed)'
    BY <1>1, <1>2, <1>3 DEF CustodyInv
  <1>12. ASSUME NEW e \in Disposers PROVE WorkAgrees(e)'
    <2>1. CASE e \in dead
      <3>1. work'[e] = NoWork
        BY <1>3, <2>1
      <3> QED BY <1>6, <3>1 DEF WorkAgrees, Releasing, Reclaiming
    <2>2. CASE e \notin dead
      <3>1. work'[e] = work[e] /\ (gate = e => gate' = e)
        BY <1>3, <2>2
      <3>2. WorkAgrees(e) /\ (Identity' => Identity)
        BY <1>2 DEF CustodyInv, Identity
      <3> QED BY <1>2, <3>1, <3>2, AgreesStill
    <2> QED BY <2>1, <2>2
  <1>13. NothingStranded'
    <2> SUFFICES ASSUME NEW o \in OwnerIds, guardians'[o] = "over", o \in witness,
                        ~ fullWake', o \notin pass'.todo, ~ pass'.failed
                 PROVE  \E e \in Disposers : work'[e].owner = o /\ work'[e].op = "release"
      BY <1>2 DEF NothingStranded, Owner
    <2>1. work[d].by # "pass" /\ ~ fullWake /\ o \notin pass.todo /\ ~ pass.failed
      BY <1>3
    <2>2. guardians[o] = "over" /\ ~ (work[d].by = "guardian" /\ work[d].owner = o)
      BY <1>3
    <2>3. PICK e \in Disposers : work[e].owner = o /\ work[e].op = "release"
      BY <2>1, <2>2 DEF CustodyInv, NothingStranded, Owner
    <2>4. work[e].by \in {"guardian", "pass"}
      BY <2>3 DEF CustodyInv, WorkAgrees
    <2>5. e \notin dead
      BY <1>5, <2>1, <2>2, <2>3, <2>4
    <2> QED BY <1>3, <2>3, <2>5
  <1> QED BY <1>9, <1>10, <1>11, <1>12, <1>13 DEF CustodyInv

\* A publisher links a view while its lifetime is open and nobody holds the gate.
LEMMA LinkKeeps ==
  ASSUME CustodyInv, NoDisposer \notin Disposers, NEW o \in OwnerIds, NEW i \in Images,
         LinkView(o, i)
  PROVE  CustodyInv'
  <1>1. /\ o \notin closed /\ guardians[o] = "running" /\ gate = NoDisposer /\ i \in images
        /\ views' = [views EXCEPT ![o] = @ \cup {i}]
        /\ linked' = [linked EXCEPT ![o] = @ \cup {i}]
        /\ witness' = witness \cup {o}
        /\ UNCHANGED <<images, root, gate, work, custodyFaults>>
        /\ closed' = closed /\ guardians' = guardians /\ fullWake' = fullWake
        /\ pass' = pass /\ queued' = queued
    BY DEF LinkView, lifeVars
  <1>2. /\ views \in [OwnerIds -> SUBSET Images] /\ linked \in [OwnerIds -> SUBSET Images]
        /\ witness \subseteq OwnerIds
    BY DEF CustodyInv, CustodyTypes
  <1>3. CustodyTypes'
    BY <1>1, <1>2 DEF CustodyInv, CustodyTypes
  <1>4. CustodyStands'
    BY <1>1, <1>2 DEF CustodyInv, CustodyStands
  <1>5. /\ (\A p \in Inspected \ queued : p \in closed /\ p \notin witness)'
        /\ (\A p \in OwnerIds : guardians[p] \in {"asking", "over"} => p \in closed)'
    BY <1>1 DEF CustodyInv
  <1>6. NothingStranded'
    BY <1>1 DEF CustodyInv, NothingStranded, Owner
  <1>7. ASSUME NEW e \in Disposers PROVE WorkAgrees(e)'
    <2>1. gate # e /\ (Identity' => Identity) /\ witness' \cap closed \subseteq witness
      BY <1>1 DEF Identity
    <2> QED BY <1>1, <2>1, AgreesStill DEF CustodyInv
  <1> QED BY <1>3, <1>4, <1>5, <1>6, <1>7 DEF CustodyInv

\* The closure of a lifetime is proven, the pool disappears or comes back, a pass begins or
\* ends.
LEMMA AroundKeeps ==
  ASSUME CustodyInv, MaxCustodyFaults \in Nat,
         \/ \E o \in OwnerIds : CloseLifetime(o)
         \/ LoseRoot \/ RestoreRoot \/ BeginPass \/ EndPass
  PROVE  CustodyInv'
  <1>1. ASSUME NEW o \in OwnerIds, CloseLifetime(o) PROVE CustodyInv'
    <2>1. /\ closed' = closed \cup {o} /\ linked' = [linked EXCEPT ![o] = {}]
          /\ UNCHANGED <<views, witness, images, root, gate, work, guardians, fullWake, pass,
                         queued, custodyFaults>>
      BY <1>1 DEF CloseLifetime
    <2>2. CustodyTypes'
      BY <2>1 DEF CustodyInv, CustodyTypes
    <2>3. CustodyStands'
      BY <2>1 DEF CustodyInv, CustodyTypes, CustodyStands
    <2>4. /\ (\A p \in Inspected \ queued : p \in closed /\ p \notin witness)'
          /\ (\A p \in OwnerIds : guardians[p] \in {"asking", "over"} => p \in closed)'
      BY <2>1 DEF CustodyInv
    <2>5. NothingStranded'
      BY <2>1 DEF CustodyInv, NothingStranded, Owner
    <2>6. \A e \in Disposers : WorkAgrees(e)'
      BY <2>1, AgreesStill DEF CustodyInv, Identity
    <2> QED BY <2>2, <2>3, <2>4, <2>5, <2>6 DEF CustodyInv
  <1>2. ASSUME UNCHANGED <<views, witness, linked, images, gate, lifeVars, work>>,
               custodyFaults' \in 0..MaxCustodyFaults,
               Identity' => Identity \/ \A d \in Disposers : work[d].pc = "idle"
        PROVE  CustodyInv'
    <2>1. /\ closed' = closed /\ guardians' = guardians /\ fullWake' = fullWake
          /\ pass' = pass /\ queued' = queued
      BY <1>2 DEF lifeVars
    <2>2. CustodyTypes'
      BY <1>2, <2>1 DEF CustodyInv, CustodyTypes
    <2>3. CustodyStands'
      BY <1>2, <2>1 DEF CustodyInv, CustodyStands
    <2>4. /\ (\A p \in Inspected \ queued : p \in closed /\ p \notin witness)'
          /\ (\A p \in OwnerIds : guardians[p] \in {"asking", "over"} => p \in closed)'
      BY <1>2, <2>1 DEF CustodyInv
    <2>5. NothingStranded'
      BY <1>2, <2>1 DEF CustodyInv, NothingStranded, Owner
    <2>6. ASSUME NEW e \in Disposers PROVE WorkAgrees(e)'
      <3>1. CASE Identity' => Identity BY <1>2, <2>1, <3>1, AgreesStill DEF CustodyInv
      <3>2. CASE work[e].pc = "idle"
        <4>1. work[e] = NoWork /\ work'[e] = NoWork
          BY <1>2, <3>2 DEF CustodyInv, WorkAgrees
        <4> QED BY <4>1 DEF WorkAgrees, NoWork, Releasing, Reclaiming
      <3> QED BY <1>2, <3>1, <3>2
    <2> QED BY <2>2, <2>3, <2>4, <2>5, <2>6 DEF CustodyInv
  <1>3. CASE LoseRoot BY <1>2, <1>3 DEF LoseRoot, Identity, CustodyInv, CustodyTypes
  <1>4. CASE RestoreRoot BY <1>2, <1>4 DEF RestoreRoot, Doing, CustodyInv, CustodyTypes
  <1>5. ASSUME UNCHANGED <<poolVars, closed, guardians, queued, work, custodyFaults>>,
               fullWake' \in BOOLEAN,
               pass' \in [active : BOOLEAN, todo : SUBSET OwnerIds, failed : BOOLEAN],
               \A o \in OwnerIds : fullWake \/ o \in pass.todo \/ pass.failed =>
                                   fullWake' \/ o \in pass'.todo \/ pass'.failed
        PROVE  CustodyInv'
    <2>1. UNCHANGED <<views, witness, linked, images, root, gate>>
      BY <1>5 DEF poolVars
    <2>2. CustodyTypes'
      BY <1>5, <2>1 DEF CustodyInv, CustodyTypes
    <2>3. CustodyStands'
      BY <1>5, <2>1 DEF CustodyInv, CustodyStands
    <2>4. /\ (\A p \in Inspected \ queued : p \in closed /\ p \notin witness)'
          /\ (\A p \in OwnerIds : guardians[p] \in {"asking", "over"} => p \in closed)'
      BY <1>5, <2>1 DEF CustodyInv
    <2>5. NothingStranded'
      BY <1>5, <2>1 DEF CustodyInv, NothingStranded, Owner
    <2>6. \A e \in Disposers : WorkAgrees(e)'
      BY <1>5, <2>1, AgreesStill DEF CustodyInv, Identity
    <2> QED BY <2>2, <2>3, <2>4, <2>5, <2>6 DEF CustodyInv
  <1>6. CASE BeginPass
    <2>1. pass' = [active |-> TRUE, todo |-> OwnerIds, failed |-> FALSE] /\ fullWake' = FALSE
      BY <1>6 DEF BeginPass
    <2>2. /\ fullWake' \in BOOLEAN /\ \A o \in OwnerIds : o \in pass'.todo
          /\ pass' \in [active : BOOLEAN, todo : SUBSET OwnerIds, failed : BOOLEAN]
      BY <2>1
    <2>3. UNCHANGED <<poolVars, closed, guardians, queued, work, custodyFaults>>
      BY <1>6 DEF BeginPass
    <2> QED BY <1>5, <2>2, <2>3
  <1>7. CASE EndPass
    <2>1. /\ pass' = NoPass /\ fullWake' = (fullWake \/ pass.failed) /\ pass.todo = {}
          /\ fullWake \in BOOLEAN /\ pass.failed \in BOOLEAN
      BY <1>7 DEF EndPass, CustodyInv, CustodyTypes
    <2> QED BY <1>5, <1>7, <2>1 DEF EndPass, NoPass
  <1> QED BY <1>1, <1>3, <1>4, <1>6, <1>7

\* An idle disposer is asked: by a guardian, a pass, a removal or a status command.
LEMMA AsksKeep ==
  ASSUME CustodyInv, NEW d \in Disposers, NEW o \in OwnerIds,
         \/ GuardianEnds(d, o) \/ PassVisits(d, o) \/ AuthorizeRemoval(d, o)
         \/ ObserveTask(d, o)
  PROVE  CustodyInv'
  <1>1. /\ work \in [Disposers -> Work] /\ work[d] = NoWork
        /\ \A e \in Disposers : WorkAgrees(e)
        /\ guardians \in [OwnerIds -> {"running", "asking", "over", "gone"}]
        /\ pass \in [active : BOOLEAN, todo : SUBSET OwnerIds, failed : BOOLEAN]
    BY DEF CustodyInv, CustodyTypes, WorkAgrees, GuardianEnds, PassVisits, AuthorizeRemoval,
           ObserveTask, Doing
  <1>2. UNCHANGED <<views, witness, linked, images, root, gate, custodyFaults>>
        /\ closed' = closed /\ fullWake' = fullWake /\ queued' = queued
    BY DEF GuardianEnds, PassVisits, AuthorizeRemoval, ObserveTask, poolVars, lifeVars
  <1>3. /\ guardians' \in [OwnerIds -> {"running", "asking", "over", "gone"}]
        /\ \A p \in OwnerIds : guardians'[p] = "over" => guardians[p] = "over"
        /\ \A p \in OwnerIds : guardians'[p] = "asking" => guardians[p] = "asking" \/ p \in closed
    BY <1>1
    DEF GuardianEnds, PassVisits, AuthorizeRemoval, ObserveTask, lifeVars, ClosedCustody
  <1>4. /\ pass' \in [active : BOOLEAN, todo : SUBSET OwnerIds, failed : BOOLEAN]
        /\ pass'.failed = pass.failed /\ pass'.todo \subseteq pass.todo
        /\ \A p \in pass.todo : p # o => p \in pass'.todo
    BY <1>1 DEF GuardianEnds, PassVisits, AuthorizeRemoval, ObserveTask, lifeVars
  <1>5. \/ UNCHANGED work
        \/ \E op \in {"release", "pending"}, by \in {"guardian", "pass", "removal", "status"} :
             /\ StartOperation(d, o, op, by) /\ o \in closed
             /\ op = "release" => by \in {"guardian", "pass"}
    BY DEF GuardianEnds, PassVisits, AuthorizeRemoval, ObserveTask, ClosedCustody
  <1>6. /\ work' \in [Disposers -> Work] /\ \A e \in Disposers : WorkAgrees(e)'
        /\ \A e \in Disposers : e # d => work'[e] = work[e]
    <2>1. CASE UNCHANGED work BY <1>1, <1>2, <2>1, AgreesStill DEF Identity
    <2>2. ASSUME NEW op \in {"release", "pending"},
                 NEW by \in {"guardian", "pass", "removal", "status"},
                 StartOperation(d, o, op, by), o \in closed,
                 op = "release" => by \in {"guardian", "pass"}
          PROVE  <1>6
      <3> DEFINE new == [NoWork EXCEPT !.pc = "prove", !.op = op, !.owner = o, !.by = by]
      <3>1. /\ new \in Work /\ new.pc = "prove" /\ new.op = op /\ new.owner = o /\ new.by = by
        BY DEF NoWork, Work, Releasing
      <3>2. work' = [work EXCEPT ![d] = new]
        BY <2>2 DEF StartOperation
      <3> HIDE DEF new
      <3>3. work'[d] = new
        BY <1>1, <3>2
      <3>4. WorkAgrees(d)'
        BY <1>2, <2>2, <3>1, <3>3 DEF WorkAgrees, Releasing, Reclaiming
      <3> QED BY <1>2, <3>1, <3>2, <3>4, OthersAgree
    <2> QED BY <1>5, <2>1, <2>2
  <1>7. CustodyTypes'
    BY <1>2, <1>3, <1>4, <1>6 DEF CustodyInv, CustodyTypes
  <1>8. CustodyStands'
    BY <1>2 DEF CustodyInv, CustodyStands
  <1>9. /\ (\A p \in Inspected \ queued : p \in closed /\ p \notin witness)'
        /\ (\A p \in OwnerIds : guardians[p] \in {"asking", "over"} => p \in closed)'
    BY <1>2, <1>3 DEF CustodyInv
  <1>10. ASSUME o \in pass.todo, o \notin pass'.todo, o \in closed
         PROVE  work'[d].owner = o /\ work'[d].op = "release"
    <2>1. PassVisits(d, o) /\ StartOperation(d, o, "release", "pass")
      BY <1>10
      DEF GuardianEnds, PassVisits, AuthorizeRemoval, ObserveTask, lifeVars, ClosedCustody
    <2> QED BY <1>1, <2>1 DEF StartOperation, NoWork
  <1>11. NothingStranded'
    <2> SUFFICES ASSUME NEW p \in OwnerIds, guardians'[p] = "over", p \in witness,
                        ~ fullWake, p \notin pass'.todo, ~ pass'.failed
                 PROVE  \E e \in Disposers : work'[e].owner = p /\ work'[e].op = "release"
      BY <1>2 DEF NothingStranded, Owner
    <2>1. guardians[p] = "over" /\ p \in closed /\ ~ pass.failed
      BY <1>3, <1>4 DEF CustodyInv
    <2>2. CASE p \in pass.todo BY <1>4, <1>10, <2>1, <2>2
    <2>3. CASE p \notin pass.todo
      <3>1. PICK e \in Disposers : work[e].owner = p /\ work[e].op = "release"
        BY <2>1, <2>3 DEF CustodyInv, NothingStranded, Owner
      <3>2. e # d
        BY <1>1, <3>1 DEF NoWork
      <3> QED BY <1>6, <3>1, <3>2
    <2> QED BY <2>2, <2>3
  <1> QED BY <1>6, <1>7, <1>8, <1>9, <1>11 DEF CustodyInv

\* Custody of the executables is safe whatever the number of owners, images and disposers:
\* nothing leaves an open lifetime, "released" is true, and no custody is stranded.
THEOREM CustodyInductive ==
  ASSUME NoDisposer \notin Disposers, Inspected \subseteq OwnerIds, MaxCustodyFaults \in Nat
  PROVE  /\ CustodyInit => CustodyInv
         /\ CustodyInv /\ [CustodyNext]_custodyVars => CustodyInv'
         /\ CustodyInv => CustodyTypeOK /\ CustodyIsSafe
  <1>1. ASSUME CustodyInit PROVE CustodyInv
    <2>1. /\ NoWork \in Work
          /\ NoPass \in [active : BOOLEAN, todo : SUBSET OwnerIds, failed : BOOLEAN]
      BY DEF NoWork, NoPass, Work
    <2>2. CustodyTypes
      <3>1. /\ work \in [Disposers -> Work] /\ views \in [OwnerIds -> SUBSET Images]
            /\ guardians \in [OwnerIds -> {"running", "asking", "over", "gone"}]
        BY <1>1, <2>1 DEF CustodyInit
      <3>2. /\ closed \subseteq OwnerIds /\ witness \subseteq OwnerIds
            /\ images \subseteq Images /\ linked = views /\ custodyFaults \in 0..MaxCustodyFaults
        BY <1>1 DEF CustodyInit
      <3> QED BY <1>1, <2>1, <3>1, <3>2 DEF CustodyInit, CustodyTypes
    <2>3. CustodyStands /\ NothingStranded
      BY <1>1 DEF CustodyInit, CustodyStands, NothingStranded
    <2>4. \A d \in Disposers : WorkAgrees(d)
      BY <1>1 DEF CustodyInit, WorkAgrees, NoWork, Releasing, Reclaiming
    <2> QED BY <1>1, <2>2, <2>3, <2>4 DEF CustodyInit, CustodyInv
  <1>2. ASSUME CustodyInv, CustodyNext PROVE CustodyInv'
    <2>1. ASSUME NEW d \in Disposers, Dispose(d) PROVE CustodyInv'
      BY <1>2, <2>1, LooksKeep, RemoveViewKeeps, RemoveWitnessKeeps, DieKeeps, ConcludeKeeps,
         ReclaimKeeps, UnlinkKeeps DEF Dispose
    <2> QED BY <1>2, <2>1, LinkKeeps, AroundKeeps, AsksKeep DEF CustodyNext
  <1>3. ASSUME CustodyInv, UNCHANGED custodyVars PROVE CustodyInv'
    <2>1. UNCHANGED <<closed, views, witness, linked, images, root, gate, work, guardians,
                      fullWake, pass, queued, custodyFaults>>
      BY <1>3 DEF custodyVars
    <2> QED BY <1>3, <2>1 DEF CustodyInv, CustodyTypes, CustodyStands, NothingStranded, Owner,
                        WorkAgrees, Idle, Identity
  <1>4. ASSUME CustodyInv PROVE CustodyTypeOK /\ CustodyIsSafe
    BY <1>4 DEF CustodyInv, CustodyTypes, CustodyTypeOK, CustodyIsSafe, ReleasedIsTrue,
                WorkAgrees, Doing, Owner
  <1> QED BY <1>1, <1>2, <1>3, <1>4
=============================================================================
