-------------------------- MODULE SchedulerContract --------------------------
(***************************************************************************)
(* What the recurring scheduler promises about every due time.             *)
(*                                                                         *)
(*   open     nothing has been decided about it                            *)
(*   skipped  it is accounted for by a span and never runs                 *)
(*   running  its task was dispatched and may be running                   *)
(*   settled  its task cannot run any more; it still holds the reservation *)
(*   over     its reservation is released                                  *)
(*                                                                         *)
(* Due times are decided in order, one of a schedule at a time holds the   *)
(* reservation, and a task runs at most once: nothing leads back to        *)
(* running.  A claim whose commit was uncertain is settled from the start. *)
(***************************************************************************)
EXTENDS Naturals

CONSTANTS Schedules, Calendar

VARIABLE fate   \* [Schedules -> [due times -> fate]]

Fates == {"open", "skipped", "running", "settled", "over"}

ContractInit == fate = [s \in Schedules |-> [d \in Calendar[s] |-> "open"]]

Reserved(s) == \E d \in Calendar[s] : fate[s][d] \in {"running", "settled"}

\* Everything open up to due time d is skipped at once.
SkipThrough(s, d) ==
    fate' = [fate EXCEPT ![s] = [e \in Calendar[s] |->
                IF e <= d /\ fate[s][e] = "open" THEN "skipped" ELSE fate[s][e]]]

\* The first open due time takes the reservation of its schedule.
Claim(s, d, f) ==
    /\ fate[s][d] = "open"
    /\ \A e \in Calendar[s] : e < d => fate[s][e] # "open"
    /\ ~Reserved(s)
    /\ f \in {"running", "settled"}
    /\ fate' = [fate EXCEPT ![s][d] = f]

\* Tasks end, or the process that was dispatching them dies.
Settle(ended) ==
    fate' = [s \in Schedules |-> [d \in Calendar[s] |->
                IF fate[s][d] = "running" /\ s \in ended THEN "settled" ELSE fate[s][d]]]

Release(s, d) ==
    /\ fate[s][d] = "settled"
    /\ fate' = [fate EXCEPT ![s][d] = "over"]

ContractNext ==
    \/ \E s \in Schedules : \E d \in Calendar[s] :
          \/ SkipThrough(s, d)
          \/ \E f \in {"running", "settled"} : Claim(s, d, f)
          \/ Release(s, d)
    \/ \E ended \in SUBSET Schedules : Settle(ended)

ContractSpec == ContractInit /\ [][ContractNext]_fate
=============================================================================
