-------------------------- MODULE LifetimeContract --------------------------
(***************************************************************************)
(* What a task's native lifetime promises the rest of the system, without     *)
(* guardians, leases, channels or records: work happens while the evidence is *)
(* open, termination is proved about an empty scope, and closure is proved    *)
(* about an absent worker.  Neither is ever taken back.                       *)
(***************************************************************************)
EXTENDS Naturals

CONSTANT LaunchIds   \* launch sequences

VARIABLES
    evidence,   \* "open", "terminated" or "closed"
    live,       \* launches with processes in the scope
    used,       \* launches ever started
    worker      \* "none", "alive" or "gone"

contractVars == <<evidence, live, used, worker>>

ContractInit ==
    /\ evidence = "open" /\ live = {} /\ used = {} /\ worker = "none"

(* The one worker of the task.                                                *)
BeginWork ==
    /\ evidence = "open" /\ worker = "none"
    /\ worker' = "alive"
    /\ UNCHANGED <<evidence, live, used>>

(* One launch at a time, each sequence once, only by a live worker and only   *)
(* while nothing claims that the scope is finished.                           *)
Launch(s) ==
    /\ evidence = "open" /\ worker = "alive" /\ live = {} /\ s \notin used
    /\ live' = {s} /\ used' = used \cup {s}
    /\ UNCHANGED <<evidence, worker>>

(* Processes and the worker end at any time, alone or together.               *)
Ends ==
    /\ live' \in SUBSET live
    /\ worker' \in {worker, IF worker = "alive" THEN "gone" ELSE worker}
    /\ UNCHANGED <<evidence, used>>

ProveTerminated ==
    /\ evidence = "open" /\ live = {}
    /\ evidence' = "terminated"
    /\ UNCHANGED <<live, used, worker>>

ProveClosed ==
    /\ evidence # "closed" /\ live = {} /\ worker # "alive"
    /\ evidence' = "closed"
    /\ UNCHANGED <<live, used, worker>>

ContractNext ==
    \/ BeginWork \/ Ends \/ ProveTerminated \/ ProveClosed
    \/ \E s \in LaunchIds : Launch(s)

ContractSpec == ContractInit /\ [][ContractNext]_contractVars
=============================================================================
