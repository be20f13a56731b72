--------------------------------- MODULE Cpuset ---------------------------------
(***************************************************************************)
(* Assignment_4/fifo/core.c: sched_setaffinity on top of Affinity, next to   *)
(* changes of the cpuset p belongs to (cpuset.c, external).                  *)
(*                                                                           *)
(* sched_setaffinity reads the CPUs of the cpuset, sets the mask of p, which *)
(* may mean waiting for a stopper, reads the cpuset again and corrects the   *)
(* mask when it has lost CPUs meanwhile; none of this is under a lock        *)
(* together with the change of the cpuset.                                   *)
(*                                                                           *)
(* A behaviour is about cpusets, and then no CPU is taken down, or about     *)
(* hotplug with calls of set_cpus_allowed_ptr with any mask.                 *)
(***************************************************************************)
EXTENDS Affinity

CONSTANT HotNest    \* bound: nesting of migrate_disable in a behaviour about hotplug

ASSUME HotNestAssumption == HotNest \in 1..MaxNest

VARIABLES
    about,          \* "cpusets" or "hotplug"
    cpuset,         \* effective_cpus of the cpuset of p
    setter          \* what a caller is doing: [pc, new]

csvars == <<about, cpuset, setter>>
allvars == <<vars, csvars>>

NotSetting == [pc |-> "none", new |-> {}]

CsInit ==
    /\ Init
    /\ about \in {"cpusets", "hotplug"}
    /\ about = "cpusets" => ~kthread
    /\ cpuset = CPUs /\ setter = [c \in Callers |-> NotSetting]
--------------------------------------------------------------------------------
\* sched_setaffinity up to the label again: what is asked for, within the cpuset.
SchedSetaffinity(c, in_mask) ==
    /\ setter[c].pc = "none"
    /\ setter' = [setter EXCEPT ![c] = [pc |-> "again", new |-> in_mask \cap cpuset]]
    /\ UNCHANGED <<vars, about, cpuset>>

\* cpuset_write_resmask: the cpuset is changed, then the tasks in it; one at a time.
CpusetWrite(c, cs) ==
    /\ setter[c].pc = "none" /\ cs # {} /\ cs # cpuset
    /\ \A d \in Callers : setter[d].pc \notin {"update", "updating"}
    /\ cpuset' = cs
    /\ setter' = [setter EXCEPT ![c] = [pc |-> "update", new |-> cs]]
    /\ UNCHANGED <<vars, about>>

\* __set_cpus_allowed_ptr: a mask that is there already is accepted, one without a usable
\* CPU is refused, any other is set; the caller may have to wait.
SetMask(c) ==
    LET new == setter[c].new
        waits == IF setter[c].pc = "again" THEN "setting" ELSE "updating"
    IN  /\ setter[c].pc \in {"again", "update"}
        /\ \/ /\ new = mask
              /\ setter' = [setter EXCEPT ![c].pc = waits] /\ UNCHANGED vars
           \/ /\ new # mask /\ Valid \cap new = {}
              /\ setter' = [setter EXCEPT ![c] = NotSetting] /\ UNCHANGED vars
           \/ /\ setter' = [setter EXCEPT ![c].pc = waits]
              /\ SetCpusAllowed(c, new)
        /\ UNCHANGED <<about, cpuset>>

\* Mutant: the mask is not looked at again.
WithinNever(new) == TRUE

\* cpumask_subset(new_mask, cpus_allowed), with the cpuset as it is now.
Within(new) == new \subseteq cpuset

\* The call has returned: sched_setaffinity begins anew with the cpuset's CPUs if it has lost
\* the race with a change of the cpuset.
Recheck(c) ==
    /\ setter[c].pc \in {"setting", "updating"} /\ call[c].pc = "idle"
    /\ setter' = [setter EXCEPT ![c] =
            IF setter[c].pc = "updating" \/ Within(setter[c].new) THEN NotSetting
            ELSE [pc |-> "again", new |-> cpuset]]
    /\ UNCHANGED <<vars, about, cpuset>>
--------------------------------------------------------------------------------
\* The steps of Affinity but for hotplug, calls with any mask and moves to balance the load.
TaskStep ==
    \/ \E c \in CPUs : Schedule(c) \/ Stop(c) \/ StopAfterwards(c)
    \/ TryToWakeUp \/ TtwuPending
    \/ \E c \in Callers : CallNext(c)
    \/ MigrateDisable \/ MigrateEnable \/ MigrateEnabled

CpusetStep ==
    \/ TaskStep /\ UNCHANGED csvars
    \/ \E c \in Callers : SetMask(c) \/ Recheck(c)
    \/ \E c \in Callers, m \in SUBSET CPUs : SchedSetaffinity(c, m) \/ CpusetWrite(c, m)

CsNext ==
    \/ about = "hotplug" /\ Next /\ disabled' <= HotNest /\ UNCHANGED csvars
    \/ about = "cpusets" /\ CpusetStep

CsSpec == CsInit /\ [][CsNext]_allvars
--------------------------------------------------------------------------------
\* The mask p has is within its cpuset unless somebody is about to correct it: however
\* sched_setaffinity, other calls of it and changes of the cpuset overtake each other,
\* nobody leaves a CPU in the mask that the cpuset has lost.
MaskWithinCpuset ==
    mask \subseteq cpuset \/ \E c \in Callers :
        \/ setter[c].pc \in {"again", "update"} /\ setter[c].new # {}
        \/ setter[c].pc = "setting" /\ ~(setter[c].new \subseteq cpuset)

\* The last mask takes effect, wherever p was meanwhile, and it is one the cpuset allows.
Placed == PlacedOnMask /\ MaskWithinCpuset
================================================================================
