---------------------------- MODULE ProcessScope ----------------------------
(***************************************************************************)
(* Native process scopes (internal/lifetime): the set of processes that    *)
(* one owner may terminate and must prove gone.  A cgroup scope asks the   *)
(* kernel.  A process-group scope is cooperative: it reads the process     *)
(* table one entry at a time while processes fork, exit, are adopted by    *)
(* the owner (a child subreaper) and change their groups, so it believes   *)
(* an absence only when two censuses in a row show it, and signals only    *)
(* identities it has verified through a process handle.                    *)
(*                                                                         *)
(* Process numbers are reused: the kernel hands them out in a circle,      *)
(* passing over those still in use as a process, a group or a session.     *)
(* A start token (the birth number here) tells two holders apart.          *)
(***************************************************************************)
EXTENDS Naturals, FiniteSets, FiniteSetsExt

CONSTANTS MaxPid,          \* process numbers are 1..MaxPid
          MaxBirths        \* processes started in one behaviour

VARIABLES scopeKind,   \* "cgroup" or "group", chosen by the plan
          table,       \* process number -> the process that holds it, or Free
          births,      \* processes started so far; lastPid: the newest number
          lastPid,
          bound,       \* the owner process is bound to the scope and adopts orphans
          ledger,      \* what the scope remembers: registered roots, retained descendants, anchors
          census,      \* the shared scan of the process table
          scopeOp,     \* the one operation that holds the scope's mutex
          folder,      \* the scope's cgroup: "none", "present", "removed"
          verdict,     \* what the last operation answered
          strays       \* history: the processes not of the scope that a signal reached

scopeVars == <<scopeKind, table, births, lastPid, bound, ledger, census, scopeOp,
               folder, verdict, strays>>

Pids == 1 .. MaxPid
Kernel == 0              \* the parent of what nobody else adopted
Owner == MaxPid + 1      \* the process that opened the scope
Free == [token |-> 0, parent |-> 0, group |-> 0, session |-> 0, zombie |-> FALSE, role |-> "none"]

Held(p) == table[p].token # 0
Running(p) == Held(p) /\ ~table[p].zombie
(* The processes the scope answers for: launches and all they started. *)
Mine == {p \in Pids : Running(p) /\ table[p].role = "mine"}

Ref(p, e) == [pid |-> p, token |-> e.token, group |-> e.group]
Same(a, b) == a.pid = b.pid /\ a.token = b.token

NoCensus == [cursor |-> 0, entries |-> Free, moved |-> FALSE]
Unread == [p \in Pids |-> Free]
NoOp == [goal |-> "none", pc |-> "idle", proving |-> FALSE, round |-> 0, refs |-> {},
         todo |-> {}, signal |-> "TERM", handles |-> {}, moved |-> FALSE, shaken |-> 0]
NoLedger == [registered |-> {}, retained |-> {}, anchors |-> {}]

ScopeInit ==
    /\ scopeKind \in {"cgroup", "group"}
    /\ table = Unread
    /\ births = 0
    /\ lastPid = 0
    /\ bound = (scopeKind = "group")
    /\ ledger = NoLedger
    /\ census = NoCensus
    /\ scopeOp = NoOp
    /\ folder = "none"
    /\ verdict = "none"
    /\ strays = {}

-----------------------------------------------------------------------------
(* The kernel and the processes. *)

Usable(p) == ~Held(p) /\ \A q \in Pids : Held(q) => p \notin {table[q].group, table[q].session}

(* The next number of the circle that nothing uses. *)
Allocates(p) ==
    /\ births < MaxBirths
    /\ Usable(p)
    /\ LET away(q) == ((q + MaxPid - lastPid - 1) % MaxPid)
       IN \A q \in Pids : Usable(q) => away(p) <= away(q)

(* A process of the scope moved: the ghost of the two census windows. *)
Disturb(c, o) ==
    /\ census' = [c EXCEPT !.moved = @ \/ c.cursor > 0]
    /\ scopeOp' = [o EXCEPT !.moved = @ \/ o.pc \in {"census", "check"}]

Born(p, entry) ==
    /\ table' = [table EXCEPT ![p] = entry]
    /\ births' = births + 1
    /\ lastPid' = p

Adopter == IF bound THEN Owner ELSE Kernel

(* An exit leaves a zombie to its parent; its children are adopted. *)
Exited(t, dead) ==
    [p \in Pids |->
        CASE p \in dead /\ t[p].parent \in Pids \ dead -> [t[p] EXCEPT !.zombie = TRUE]
          [] p \in dead /\ t[p].parent \notin Pids \ dead ->
                 (IF bound THEN [t[p] EXCEPT !.zombie = TRUE, !.parent = Owner] ELSE Free)
          [] OTHER -> IF t[p].parent \in dead
                      THEN (IF t[p].zombie /\ ~bound THEN Free ELSE [t[p] EXCEPT !.parent = Adopter])
                      ELSE t[p]]

Fork(p, c) ==
    /\ Running(p)
    /\ table[p].role = "mine"
    /\ Allocates(c)
    /\ Born(c, [table[p] EXCEPT !.token = births + 1, !.parent = p])
    /\ Disturb(census, scopeOp)
    /\ UNCHANGED <<scopeKind, bound, ledger, folder, verdict, strays>>

Exit(p) ==
    /\ Running(p)
    /\ table[p].role # "foreign"
    /\ table' = Exited(table, {p})
    /\ Disturb(census, scopeOp)
    /\ UNCHANGED <<scopeKind, births, lastPid, bound, ledger, folder, verdict, strays>>

(* Setsid: a process that leads no group starts a session of its own. *)
Regroup(p) ==
    /\ Running(p)
    /\ table[p].role = "mine"
    /\ table[p].group # p
    /\ \A q \in Pids : Held(q) => table[q].group # p
    /\ table' = [table EXCEPT ![p].group = p, ![p].session = p]
    /\ Disturb(census, scopeOp)
    /\ UNCHANGED <<scopeKind, births, lastPid, bound, ledger, folder, verdict, strays>>

(* A parent waits for its child. *)
Reap(p) ==
    /\ Held(p)
    /\ table[p].zombie
    /\ table' = [table EXCEPT ![p] = Free]
    /\ UNCHANGED <<scopeKind, births, lastPid, bound, ledger, census, scopeOp, folder, verdict, strays>>

(* A process that has nothing to do with the scope takes a number. *)
Foreign(p) ==
    /\ Allocates(p)
    /\ \E r \in ledger.registered \union ledger.retained : r.pid = p   \* else it can be mistaken for nothing
    /\ Born(p, [token |-> births + 1, parent |-> Kernel, group |-> p, session |-> p,
                zombie |-> FALSE, role |-> "foreign"])
    /\ UNCHANGED <<scopeKind, bound, ledger, census, scopeOp, folder, verdict, strays>>

-----------------------------------------------------------------------------
(* Opening, launching and releasing. *)

(* CreatePrepared: a planned cgroup is made once; finding it is its own answer. *)
CreatePrepared ==
    /\ folder = "none"
    /\ folder' = "present"
    /\ UNCHANGED <<scopeKind, table, births, lastPid, bound, ledger, census, scopeOp, verdict, strays>>

(* OpenPrepared of a planned scope: only a cgroup can be told absent. *)
OpenPrepared ==
    /\ scopeKind = "cgroup"
    /\ folder = "removed"
    /\ verdict' = "absent"
    /\ UNCHANGED <<scopeKind, table, births, lastPid, bound, ledger, census, scopeOp, folder, strays>>

(* A configured command starts in a session of its own (in the cgroup itself
   for a cgroup scope).  Callers settle a pending start before they observe. *)
Start(p, parent) ==
    /\ scopeOp.pc = "idle"
    /\ folder = "present"
    /\ parent = Owner => bound \/ scopeKind = "cgroup"
    /\ parent # Owner => \E a \in ledger.anchors : a.pid = parent /\ Running(parent) /\ table[parent].token = a.token
    /\ Allocates(p)
    /\ Born(p, [token |-> births + 1, parent |-> parent, group |-> p, session |-> p,
                zombie |-> FALSE, role |-> "mine"])
    /\ Disturb(census, scopeOp)
    /\ verdict' = "none"
    /\ UNCHANGED <<scopeKind, bound, ledger, folder, strays>>

(* TrackOwnerProcess: a child of the owner that is part of the machinery. *)
TrackOwnerProcess(p) ==
    /\ scopeOp.pc = "idle"
    /\ scopeKind = "group"
    /\ bound
    /\ ledger.anchors = {}
    /\ Allocates(p)
    /\ Born(p, [token |-> births + 1, parent |-> Owner, group |-> p, session |-> p,
                zombie |-> FALSE, role |-> "anchor"])
    /\ ledger' = [ledger EXCEPT !.anchors = {[pid |-> p, token |-> births + 1]}]
    /\ UNCHANGED <<scopeKind, bound, census, scopeOp, folder, verdict, strays>>

Registered(p) == [ledger EXCEPT !.registered = @ \union {Ref(p, table[p])}]

(* ObserveStarted: the launch must lead its own group; it becomes a root. *)
ObserveStarted(p) ==
    /\ scopeOp.pc = "idle"
    /\ scopeKind = "group"
    /\ Held(p)
    /\ table[p].role = "mine"
    /\ table[p].parent \in {Owner} \union {a.pid : a \in ledger.anchors}
    /\ table[p].group = p
    /\ ledger' = Registered(p)
    /\ ledger' # ledger
    /\ UNCHANGED <<scopeKind, table, births, lastPid, bound, census, scopeOp, folder, verdict, strays>>

(* The owner crashes.  The kernel re-parents its children; a successor opens
   the registered scope with the recorded launches, and nothing binds it. *)
Crash ==
    /\ bound
    /\ bound' = FALSE
    /\ table' = [p \in Pids |-> IF table[p].parent = Owner
                                THEN (IF table[p].zombie THEN Free ELSE [table[p] EXCEPT !.parent = Kernel])
                                ELSE table[p]]
    /\ ledger' = [NoLedger EXCEPT !.registered = ledger.registered]
    /\ census' = NoCensus
    /\ scopeOp' = NoOp
    /\ verdict' = "none"
    /\ UNCHANGED <<scopeKind, births, lastPid, folder, strays>>

-----------------------------------------------------------------------------
(* Who is owned, in a census. *)

IsInfrastructure(p, e) == \E a \in ledger.anchors : a.pid = p /\ a.token = e.token

(* A recorded root whose number now belongs to another leader of the recorded
   group cannot be told from a survivor: the observation fails. *)
RootReused(entries) ==
    \E r \in ledger.registered :
        /\ entries[r.pid].token \notin {0, r.token}
        /\ r.group \in {entries[r.pid].group, entries[r.pid].session}

Led(p, e) == [pids |-> {p},
              groups |-> IF e.group = p THEN {p} ELSE {},
              sessions |-> IF e.session = p THEN {p} ELSE {}]
AddAll(o, ps, entries) ==
    [pids |-> o.pids \union ps,
     groups |-> o.groups \union UNION {Led(p, entries[p]).groups : p \in ps},
     sessions |-> o.sessions \union UNION {Led(p, entries[p]).sessions : p \in ps}]

(* The descendants of the live owner and anchors, by parent links. *)
Tree(entries) ==
    LET present == {p \in Pids : entries[p].token # 0}
        seed == (IF bound THEN {Owner} ELSE {}) \union {p \in present : IsInfrastructure(p, entries[p])}
        tree[n \in 0 .. MaxPid] ==
            IF n = 0 THEN seed
            ELSE tree[n - 1] \union {p \in present : entries[p].parent \in tree[n - 1]}
    IN {p \in tree[MaxPid] \ {Owner} : ~IsInfrastructure(p, entries[p])}

(* Roots bring their groups, retained descendants only themselves. *)
Seeds(entries) ==
    LET roots == {r \in ledger.registered : entries[r.pid].token = r.token}
        kept == {r \in ledger.retained : entries[r.pid].token = r.token}
        seeded == AddAll([pids |-> {r.pid : r \in kept}, groups |-> {}, sessions |-> {}],
                         {r.pid : r \in roots} \union Tree(entries), entries)
    IN [seeded EXCEPT !.groups = @ \union {entries[r.pid].group : r \in roots}]

(* Whatever is a child, a group or a session of the owned is owned. *)
Expand(entries) ==
    LET relates(o, p) == \/ entries[p].parent \in o.pids
                         \/ entries[p].group \in o.groups
                         \/ entries[p].session \in o.sessions
        more(o) == {p \in Pids \ o.pids : /\ entries[p].token # 0
                                          /\ ~IsInfrastructure(p, entries[p])
                                          /\ relates(o, p)}
        owned[n \in 0 .. MaxPid] ==
            IF n = 0 THEN Seeds(entries) ELSE AddAll(owned[n - 1], more(owned[n - 1]), entries)
    IN owned[MaxPid].pids

Discover(entries) ==
    {Ref(p, entries[p]) : p \in {q \in Expand(entries) : ~entries[q].zombie}}

-----------------------------------------------------------------------------
(* The shared scan of the process table. *)

FreshCensus == [cursor |-> 1, entries |-> Unread, moved |-> FALSE]

(* Another scope of the same owner wants a census. *)
PeerObserves ==
    /\ scopeKind = "group"
    /\ census.cursor = 0
    /\ scopeOp.pc = "join"   \* before that, nobody here can join it
    /\ census' = FreshCensus
    /\ UNCHANGED <<scopeKind, table, births, lastPid, bound, ledger, scopeOp, folder, verdict, strays>>

(* A census that is under way is joined, whenever it began. *)
Join ==
    /\ scopeOp.pc = "join"
    /\ census' = IF census.cursor = 0 THEN FreshCensus ELSE census
    /\ scopeOp' = [scopeOp EXCEPT !.pc = "census", !.moved = census'.moved, !.refs = {}, !.todo = {}]
    /\ UNCHANGED <<scopeKind, table, births, lastPid, bound, ledger, folder, verdict, strays>>

(* One entry of the table is read. *)
Scan ==
    /\ census.cursor \in Pids
    /\ census' = [census EXCEPT !.cursor = @ + 1, !.entries[census.cursor] = table[census.cursor]]
    /\ UNCHANGED <<scopeKind, table, births, lastPid, bound, ledger, scopeOp, folder, verdict, strays>>

(* The operation returns; only a proof of absence is kept in view. *)
Answered(v) ==
    /\ scopeOp' = IF v = "empty" THEN [NoOp EXCEPT !.shaken = scopeOp.shaken] ELSE NoOp
    /\ verdict' = IF v = "empty" THEN v ELSE "none"

(* The owner waits for the zombies it adopted, and keeps their entries. *)
Reaped(entries) ==
    IF ~bound THEN table
    ELSE [p \in Pids |-> IF /\ entries[p].zombie /\ entries[p].parent = Owner
                            /\ table[p].zombie /\ table[p].parent = Owner
                            /\ ~IsInfrastructure(p, entries[p])
                         THEN Free ELSE table[p]]

(* The finished census is delivered; ownership is worked out and remembered. *)
Deliver ==
    /\ census.cursor = MaxPid + 1
    /\ census' = NoCensus
    /\ IF scopeOp.pc # "census"
       THEN UNCHANGED <<table, ledger, scopeOp, verdict>>
       ELSE /\ table' = Reaped(census.entries)
            /\ IF RootReused(census.entries)
               THEN Answered("error") /\ UNCHANGED ledger
               ELSE LET found == Discover(census.entries)
                        retained == {r \in found : ~ \E s \in ledger.registered : Same(r, s)}
                        refs == ledger.registered \union retained
                    IN /\ ledger' = [ledger EXCEPT !.retained = retained]
                       /\ scopeOp' = [scopeOp EXCEPT !.pc = IF scopeOp.proving THEN "check" ELSE "groups",
                                                     !.refs = refs,
                                                     !.todo = {r.group : r \in refs}]
                       /\ UNCHANGED verdict
    /\ UNCHANGED <<scopeKind, births, lastPid, bound, folder, strays>>

-----------------------------------------------------------------------------
(* Terminate and Empty. *)

Begin(goal) ==
    /\ scopeOp.pc = "idle"
    /\ folder = "present"
    /\ verdict = "none"
    /\ scopeOp' = [NoOp EXCEPT !.goal = goal, !.proving = (goal = "empty"), !.round = 1,
                               !.pc = IF scopeKind = "cgroup" THEN "cgroup" ELSE "join"]
    /\ UNCHANGED <<scopeKind, table, births, lastPid, bound, ledger, census, folder, verdict, strays>>

(* An answer is read by the caller. *)
Acknowledge ==
    /\ scopeOp.pc = "idle"
    /\ verdict # "none"
    /\ verdict' = "none"
    /\ UNCHANGED <<scopeKind, table, births, lastPid, bound, ledger, census, scopeOp, folder, strays>>

(* A recorded identity that runs in the recorded group. *)
Present(r) == Running(r.pid) /\ table[r.pid].token = r.token /\ table[r.pid].group = r.group

OfGroup(g) == {r \in scopeOp.refs : r.group = g}
NextGroup(o) == [o EXCEPT !.todo = @ \ {Min(@)}, !.pc = "groups", !.signal = "TERM", !.handles = {}]

(* The next group of the list; when the list is done, emptiness is to be proved. *)
Groups ==
    /\ scopeOp.pc = "groups"
    /\ scopeOp' = IF scopeOp.todo = {}
                  THEN [scopeOp EXCEPT !.pc = "join", !.proving = TRUE, !.round = 1, !.shaken = 0]
                  ELSE IF \E r \in OfGroup(Min(scopeOp.todo)) : Present(r)
                       THEN [scopeOp EXCEPT !.pc = "open", !.signal = "TERM"]
                       ELSE NextGroup(scopeOp)
    /\ UNCHANGED <<scopeKind, table, births, lastPid, bound, ledger, census, folder, verdict, strays>>

(* A handle stays with the process that held the number when it was opened. *)
OpenHandles ==
    /\ scopeOp.pc = "open"
    /\ scopeOp' = [scopeOp EXCEPT
           !.handles = {[ref |-> r, token |-> table[r.pid].token] :
                            r \in {s \in OfGroup(Min(scopeOp.todo)) : Held(s.pid)}},
           !.pc = "inspect"]
    /\ UNCHANGED <<scopeKind, table, births, lastPid, bound, ledger, census, folder, verdict, strays>>

(* Mutant: the handle is used without the check. *)
VerifiedUnread == scopeOp.handles
(* The identity is checked after the handle was opened. *)
Verified == {h \in scopeOp.handles : Present(h.ref)}

InspectHandles ==
    /\ scopeOp.pc = "inspect"
    /\ IF Verified # {}
       THEN scopeOp' = [scopeOp EXCEPT !.handles = Verified, !.pc = "send"] /\ UNCHANGED verdict
       ELSE IF \E r \in OfGroup(Min(scopeOp.todo)) : Present(r)
            THEN Answered("error")
            ELSE scopeOp' = NextGroup(scopeOp) /\ UNCHANGED verdict
    /\ UNCHANGED <<scopeKind, table, births, lastPid, bound, ledger, census, folder, strays>>

Reached == {h.ref.pid : h \in {k \in scopeOp.handles : Running(k.ref.pid) /\ table[k.ref.pid].token = k.token}}

(* TERM leaves the rest to the process; KILL ends it. *)
Send ==
    /\ scopeOp.pc = "send"
    /\ strays' = strays \union {table[p].token : p \in {q \in Reached : table[q].role # "mine"}}
    /\ table' = IF scopeOp.signal = "KILL" THEN Exited(table, Reached) ELSE table
    /\ scopeOp' = [scopeOp EXCEPT !.pc = "grace", !.handles = {}]
    /\ UNCHANGED <<scopeKind, births, lastPid, bound, ledger, census, folder, verdict>>

(* The grace period ends early when the group is gone, else with the next signal. *)
Grace ==
    /\ scopeOp.pc = "grace"
    /\ scopeOp' = IF /\ \E r \in OfGroup(Min(scopeOp.todo)) : Present(r)
                     /\ scopeOp.signal = "TERM"
                  THEN [scopeOp EXCEPT !.pc = "open", !.signal = "KILL"]
                  ELSE NextGroup(scopeOp)
    /\ UNCHANGED <<scopeKind, table, births, lastPid, bound, ledger, census, folder, verdict, strays>>

(* Mutant: one census is believed. *)
LastRoundFirst(o) == TRUE
(* requireConsecutiveEmptyCensuses. *)
LastRound(o) == o.round = 2

(* Mutant: a successor trusts the recorded launches. *)
ProvableAnyway == TRUE
(* The scope without a bound owner proves nothing, whatever it sees. *)
Provable == bound

(* The census is believed empty when none of its identities is left. *)
Check ==
    /\ scopeOp.pc = "check"
    /\ LET busy == \E r \in scopeOp.refs : Present(r)
           seen == [scopeOp EXCEPT !.shaken = @ + (IF scopeOp.moved THEN 1 ELSE 0), !.moved = FALSE]
       IN \/ /\ ~busy
             /\ Provable /\ ~LastRound(scopeOp)
             /\ scopeOp' = [seen EXCEPT !.round = 2, !.pc = "join"]
             /\ UNCHANGED verdict
          \/ /\ ~busy
             /\ ~Provable \/ LastRound(scopeOp)
             /\ scopeOp' = IF Provable THEN [NoOp EXCEPT !.shaken = seen.shaken] ELSE NoOp
             /\ verdict' = IF Provable THEN "empty" ELSE "none"
          \/ /\ busy /\ scopeOp.goal = "terminate"
             /\ scopeOp' = [scopeOp EXCEPT !.pc = "join", !.proving = FALSE, !.refs = {}, !.todo = {}]
             /\ UNCHANGED verdict
          \/ busy /\ scopeOp.goal = "empty" /\ Answered(IF bound THEN "busy" ELSE "error")
    /\ UNCHANGED <<scopeKind, table, births, lastPid, bound, ledger, census, folder, strays>>

(* The deadline passes, or a read fails: a census nobody else waits for is cancelled. *)
Fail ==
    /\ scopeOp.pc \notin {"idle", "cgroup"}
    /\ Answered("error")
    /\ census' = NoCensus   \* one that others keep alive is as PeerObserves makes it
    /\ UNCHANGED <<scopeKind, table, births, lastPid, bound, ledger, folder, strays>>

-----------------------------------------------------------------------------
(* The cgroup scope: the kernel kills the members and says whether any is left. *)

CgroupKill ==
    /\ scopeOp.pc = "cgroup"
    /\ scopeOp.goal = "terminate"
    /\ table' = Exited(table, Mine)
    /\ scopeOp' = [scopeOp EXCEPT !.goal = "empty"]
    /\ UNCHANGED <<scopeKind, births, lastPid, bound, ledger, census, folder, verdict, strays>>

CgroupEvents ==
    /\ scopeOp.pc = "cgroup"
    /\ scopeOp.goal = "empty"
    /\ Answered(IF Mine = {} THEN "empty" ELSE "busy")
    /\ UNCHANGED <<scopeKind, table, births, lastPid, bound, ledger, census, folder, strays>>

(* DestroyEmpty removes the cgroup only while it is empty. *)
DestroyEmpty ==
    /\ scopeKind = "cgroup"
    /\ scopeOp.pc = "idle"
    /\ folder = "present"
    /\ Mine = {}
    /\ folder' = "removed"
    /\ UNCHANGED <<scopeKind, table, births, lastPid, bound, ledger, census, scopeOp, verdict, strays>>

ScopeNext ==
    \/ \E p \in Pids :
          \/ \E c \in Pids : Fork(p, c)
          \/ Exit(p) \/ Regroup(p) \/ Reap(p) \/ Foreign(p)
          \/ \E parent \in Pids \union {Owner} : Start(p, parent)
          \/ TrackOwnerProcess(p) \/ ObserveStarted(p)
    \/ CreatePrepared \/ OpenPrepared \/ Crash
    \/ PeerObserves \/ Join \/ Scan \/ Deliver
    \/ \E goal \in {"terminate", "empty"} : Begin(goal)
    \/ Acknowledge \/ Groups \/ OpenHandles \/ InspectHandles \/ Send \/ Grace \/ Check \/ Fail
    \/ CgroupKill \/ CgroupEvents \/ DestroyEmpty

ScopeSpec == ScopeInit /\ [][ScopeNext]_scopeVars

-----------------------------------------------------------------------------
(* The states have the shape the code gives them. *)
ScopeTypeOK ==
    /\ scopeKind \in {"cgroup", "group"}
    /\ \A p \in Pids : /\ table[p].token \in 0 .. MaxBirths
                       /\ table[p].parent \in 0 .. Owner
                       /\ table[p].role \in {"none", "mine", "anchor", "foreign"}
    /\ bound \in BOOLEAN
    /\ census.cursor \in 0 .. Owner
    /\ folder \in {"none", "present", "removed"}
    /\ verdict \in {"none", "empty", "absent"}

(* A scope that answered "empty" (or a planned cgroup that is absent) has no
   process left, although its table was read entry by entry while processes
   forked, exited and were adopted: the two censuses of
   requireConsecutiveEmptyCensuses absorb any movement that shakes only one
   of them (shaken counts them), a census that was joined halfway included. *)
EmptyIsTrue ==
    /\ verdict = "empty" /\ scopeOp.shaken < 2 => Mine = {}
    /\ verdict = "absent" => Mine = {}

(* No signal ever reaches a process that is not of the scope: not an anchor
   of the owner, and not one that took over the number of a member. *)
SignalsStayInside == strays = {}

(* Without its owner a cooperative scope never claims to be empty, since
   what its launches started may have been adopted by someone else. *)
OrphansAreNotDisproved ==
    verdict = "empty" /\ scopeKind = "group" => bound

ScopeIsSafe == EmptyIsTrue /\ SignalsStayInside /\ OrphansAreNotDisproved
=============================================================================
