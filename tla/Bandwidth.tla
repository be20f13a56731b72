------------------------------- MODULE Bandwidth --------------------------------
(***************************************************************************)
(* Assignment_4/cfs/core.c: the quota and the period of a task group, for    *)
(* the groups of TaskGroups.                                                 *)
(*                                                                           *)
(* Writers of cpu.cfs_quota_us and cpu.cfs_period_us (cgroup v1) or of       *)
(* cpu.max (v2) read the setting they keep before tg_set_cfs_bandwidth takes *)
(* cfs_constraints_mutex; each turn of its loop over the CPUs is a step.     *)
(* fair.c, which throttles, refills and follows the hotplug of CPUs, is      *)
(* external.  Times are in microseconds.                                     *)
(*                                                                           *)
(* Quotas and clamps have nothing in common but the groups: a behaviour is   *)
(* about one or the other.                                                   *)
(***************************************************************************)
EXTENDS TaskGroups

CONSTANTS
    CPUs, Writers,      \* Writers: a set of numbers
    Quotas, Periods,    \* what is written; the quota may also be -1, or "max"
    MinPeriod, MaxPeriod, MaxRuntime, DefaultPeriod,
    BW_UNIT,            \* 1 << BW_SHIFT
    ClampDepth,         \* bound: the groups in a behaviour about clamps
    MaxWritesV1,        \* bound: the writes of quotas and periods with cgroup v1
    MaxWritesV2         \* bound: the same with v2

ASSUME BandwidthAssumption ==
    /\ {MinPeriod, MaxPeriod, MaxRuntime, DefaultPeriod} \subseteq Nat \ {0}
    /\ DefaultPeriod \in MinPeriod..MaxPeriod
    /\ Writers \subseteq Nat /\ BW_UNIT \in Nat \ {0} /\ ClampDepth \in 0..Depth
    /\ {MaxWritesV1, MaxWritesV2} \subseteq 0..MaxCalls
    /\ Quotas \cup Periods \subseteq Nat

VARIABLES
    about,              \* "clamps" or "bandwidth"
    unified,            \* cgroup_subsys_on_dfl(cpu_cgrp_subsys): cgroup v2
    period, quota,      \* cfs_b->period and quota
    hierarchical_quota,
    timer,              \* cfs_b->period_active
    enabled, throttled, \* the CPUs on which the cfs_rq of a group has it set
    online,             \* cpu_online_mask
    bw_used,            \* the static key cfs_bandwidth_used, as a counter
    writer              \* [pc, g, period, quota, was, todo] of each writer

settings == <<period, quota, hierarchical_quota>>
cfs_rqs == <<enabled, throttled>>
bwvars == <<about, unified, settings, timer, cfs_rqs, online, bw_used, writer>>
bandvars == <<vars, bwvars>>

RUNTIME_INF == -1
Resting == [pc |-> "none"]

\* The groups on the list task_groups, and those of them that have a limit.
Listed == {g \in Groups : group[g] = "online"}
Limited == {g \in Listed : quota[g] # RUNTIME_INF}

\* tg_set_cfs_bandwidth holds get_online_cpus, and further on the mutex.
HoldsCpus(w) == writer[w].pc # "none" /\ writer[w].pc # "checked"
HoldsMutex(w) == writer[w].pc \in {"set", "cpus"}

BwInit ==
    /\ Init
    /\ about \in {"clamps", "bandwidth"} /\ unified \in BOOLEAN
    /\ about = "clamps" => unified
    /\ \A g \in Groups : g > (IF about = "clamps" THEN ClampDepth ELSE 0) => group[g] = "none"
    /\ period = [g \in Groups |-> DefaultPeriod] /\ quota = [g \in Groups |-> RUNTIME_INF]
    /\ hierarchical_quota = [g \in Groups |-> 0]
    /\ timer = [g \in Groups |-> FALSE]
    /\ enabled = [g \in Groups |-> {}] /\ throttled = enabled
    /\ online = CPUs /\ bw_used = 0
    /\ writer = [w \in Writers |-> Resting]
--------------------------------------------------------------------------------
(* The files *)

\* The checks of tg_set_cfs_bandwidth; no limit is the largest quota.
InRange(p, q) ==
    /\ p \in MinPeriod..MaxPeriod
    /\ q = RUNTIME_INF \/ q \in MinPeriod..MaxRuntime

\* The next writer; they are interchangeable.
Free(w) == writer[w] = Resting /\ \A v \in Writers : writer[v] = Resting => w <= v

\* A write has read what it keeps, or is refused and ends.
Calls(w, g, p, q) ==
    /\ Free(w) /\ g \in Listed \ {0} /\ InRange(p, q)
    /\ writer' = [writer EXCEPT ![w] = [pc |-> "checked", g |-> g, period |-> p, quota |-> q]]
    /\ UNCHANGED <<used, task, clamp, tgs, sys, attr, write, walk, raced, about, unified,
                   settings, timer, cfs_rqs, online, bw_used>>

\* tg_set_cfs_quota and tg_set_cfs_period.
QuotaWrite(w, g, q) == ~unified /\ Calls(w, g, period[g], q)
PeriodWrite(w, g, p) == ~unified /\ Calls(w, g, p, quota[g])

\* cpu_max_write, with cpu_period_quota_parse; without a second number the period is kept.
MaxWrite(w, g, q, p) == unified /\ Calls(w, g, IF p = None THEN period[g] ELSE p, q)
--------------------------------------------------------------------------------
(* tg_set_cfs_bandwidth *)

\* get_online_cpus.
GetOnlineCpus(w) ==
    /\ writer[w].pc = "checked"
    /\ writer' = [writer EXCEPT ![w].pc = "mutex"]
    /\ UNCHANGED <<vars, about, unified, settings, timer, cfs_rqs, online, bw_used>>

to_ratio(p, q) == (q * BW_UNIT) \div p

\* normalize_cfs_quota, with the new settings of group d.g.
normalize_cfs_quota(g, d) ==
    LET p == IF g = d.g THEN d.period ELSE period[g]
        q == IF g = d.g THEN d.quota ELSE quota[g]
    IN  IF q = RUNTIME_INF THEN RUNTIME_INF ELSE to_ratio(p, q)

\* tg_cfs_schedulable_down: the quota of a group below its parent's.  With v2 it is the
\* smaller one of two signed numbers, of which RUNTIME_INF is always the smaller.
Down(q, parent) ==
    IF unified THEN Least(q, parent)
    ELSE IF q = RUNTIME_INF THEN parent ELSE q

\* A group of v1 may not have more than its parent.
Exceeds(q, parent) == ~unified /\ parent # RUNTIME_INF /\ q > parent

\* walk_tg_tree from the root: the quotas down to the first group that is refused.
Hierarchy(d) ==
    LET h[g \in Groups] ==
            IF g = 0 THEN RUNTIME_INF ELSE Down(normalize_cfs_quota(g, d), h[g - 1])
    IN  h
Refused(d) ==
    {g \in Listed \ {0} : Exceeds(normalize_cfs_quota(g, d), Hierarchy(d)[g - 1])}

\* Mutant: the test for switching it off.
SwitchesOnOff(d) == d.quota = RUNTIME_INF /\ quota[d.g] # RUNTIME_INF

\* The group gets a limit: cfs_bandwidth_usage_inc.
SwitchesOn(d) == d.quota # RUNTIME_INF /\ quota[d.g] = RUNTIME_INF

\* The mutex is taken.  __cfs_schedulable stores what it computes as it walks, also when
\* it refuses; the static key is switched on before anything changes.
CfsSchedulable(w) ==
    LET d == writer[w]
        bad == Refused(d)
    IN  /\ d.pc = "mutex" /\ \A v \in Writers : ~HoldsMutex(v)
        /\ hierarchical_quota' =
             [g \in Groups |-> IF g \in Listed /\ \A b \in bad : g < b
                               THEN Hierarchy(d)[g] ELSE hierarchical_quota[g]]
        /\ writer' = [writer EXCEPT ![w] =
             IF bad # {} THEN Resting
             ELSE [pc |-> "set", g |-> d.g, period |-> d.period, quota |-> d.quota,
                   was |-> quota[d.g] # RUNTIME_INF]]
        /\ bw_used' = IF bad = {} /\ SwitchesOn(d) THEN bw_used + 1 ELSE bw_used
        /\ UNCHANGED <<vars, about, unified, period, quota, timer, cfs_rqs, online>>

\* Under cfs_b->lock; the timer is started when there is a limit.
SetBandwidth(w) ==
    LET d == writer[w]
    IN  /\ d.pc = "set"
        /\ period' = [period EXCEPT ![d.g] = d.period]
        /\ quota' = [quota EXCEPT ![d.g] = d.quota]
        /\ timer' = [timer EXCEPT ![d.g] = @ \/ d.quota # RUNTIME_INF]
        /\ writer' = [writer EXCEPT ![w] =
             [pc |-> "cpus", g |-> d.g, quota |-> d.quota, was |-> d.was, todo |-> online]]
        /\ UNCHANGED <<vars, about, unified, hierarchical_quota, cfs_rqs, online, bw_used>>

\* A turn of the loop over the CPUs, with unthrottle_cfs_rq.
EachCpu(w, i) ==
    LET g == writer[w].g
    IN  /\ writer[w].pc = "cpus" /\ i \in writer[w].todo
        /\ enabled' = [enabled EXCEPT ![g] =
             IF writer[w].quota # RUNTIME_INF THEN @ \cup {i} ELSE @ \ {i}]
        /\ throttled' = [throttled EXCEPT ![g] = @ \ {i}]
        /\ writer' = [writer EXCEPT ![w].todo = @ \ {i}]
        /\ UNCHANGED <<vars, about, unified, settings, timer, online, bw_used>>

\* The static key is switched off last.
Unlock(w) ==
    /\ writer[w].pc = "cpus" /\ writer[w].todo = {}
    /\ bw_used' = IF writer[w].was /\ writer[w].quota = RUNTIME_INF THEN bw_used - 1 ELSE bw_used
    /\ writer' = [writer EXCEPT ![w] = Resting]
    /\ UNCHANGED <<vars, about, unified, settings, timer, cfs_rqs, online>>
--------------------------------------------------------------------------------
(* fair.c and cpu.c (external) *)

\* The runtime of a cfs_rq is used up; there is none left, and the timer is started.
Throttle(g, i) ==
    /\ bw_used > 0 /\ i \in (online \cap enabled[g]) \ throttled[g] /\ quota[g] # RUNTIME_INF
    /\ throttled' = [throttled EXCEPT ![g] = @ \cup {i}]
    /\ timer' = [timer EXCEPT ![g] = TRUE]
    /\ UNCHANGED <<vars, about, unified, settings, enabled, online, bw_used, writer>>

\* The period is over: all are freed, or there is no limit or nothing to do any more.
PeriodTimer(g) ==
    /\ timer[g]
    /\ IF quota[g] # RUNTIME_INF /\ throttled[g] # {}
       THEN throttled' = [throttled EXCEPT ![g] = {}] /\ UNCHANGED timer
       ELSE timer' = [timer EXCEPT ![g] = FALSE] /\ UNCHANGED throttled
    /\ UNCHANGED <<vars, about, unified, settings, enabled, online, bw_used, writer>>

\* rq_offline_fair: no cfs_rq of the CPU stays limited.
Offline(i) ==
    /\ online \ {i} # {} /\ i \in online /\ \A w \in Writers : ~HoldsCpus(w)
    /\ online' = online \ {i}
    /\ enabled' = [g \in Groups |-> enabled[g] \ {i}]
    /\ throttled' = [g \in Groups |-> throttled[g] \ {i}]
    /\ UNCHANGED <<vars, about, unified, settings, timer, bw_used, writer>>

\* rq_online_fair: they are limited as their groups are.
Online(i) ==
    /\ i \in CPUs \ online /\ \A w \in Writers : ~HoldsCpus(w)
    /\ online' = online \cup {i}
    /\ enabled' = [g \in Groups |-> IF g \in Limited THEN enabled[g] \cup {i} ELSE enabled[g]]
    /\ UNCHANGED <<vars, about, unified, settings, timer, throttled, bw_used, writer>>
--------------------------------------------------------------------------------
(* Groups *)

\* init_cfs_bandwidth, with the group's memory cleared before.
Initialised(g) ==
    /\ period' = [period EXCEPT ![g] = DefaultPeriod]
    /\ quota' = [quota EXCEPT ![g] = RUNTIME_INF]
    /\ hierarchical_quota' = [hierarchical_quota EXCEPT ![g] = 0]

\* sched_create_group.
BwCssAlloc(g) ==
    /\ CssAlloc(g)
    /\ Initialised(g)
    /\ UNCHANGED <<about, unified, timer, cfs_rqs, online, bw_used, writer>>

\* sched_free_group with destroy_cfs_bandwidth; the static key stays on.  A group whose
\* files are written cannot be removed.  What it held is of no meaning until it is made anew.
BwCssReleased(g) ==
    /\ CssReleased(g)
    /\ \A w \in Writers : writer[w] # Resting => writer[w].g # g
    /\ timer' = [timer EXCEPT ![g] = FALSE]
    /\ enabled' = [enabled EXCEPT ![g] = {}] /\ throttled' = [throttled EXCEPT ![g] = {}]
    /\ Initialised(g)
    /\ UNCHANGED <<about, unified, online, bw_used, writer>>
--------------------------------------------------------------------------------
FileStep == \E w \in Writers, g \in Groups :
    \/ \E q \in Quotas \cup {RUNTIME_INF} : QuotaWrite(w, g, q) \/ \E p \in Periods \cup {None} : MaxWrite(w, g, q, p)
    \/ \E p \in Periods : PeriodWrite(w, g, p)

BandwidthStep ==
    \/ /\ calls < (IF unified THEN MaxWritesV2 ELSE MaxWritesV1) /\ calls' = calls + 1
       /\ FileStep
    \/ /\ UNCHANGED calls
       /\ \E g \in Groups : BwCssAlloc(g) \/ BwCssReleased(g)
    \/ /\ UNCHANGED <<calls, bwvars>>
       /\ WalkStep \/ \E g \in Groups : CssOnline(g)
    \/ \E w \in Writers : GetOnlineCpus(w) \/ CfsSchedulable(w) \/ SetBandwidth(w) \/ Unlock(w)
                          \/ \E i \in CPUs : EachCpu(w, i)
    \/ \E g \in Groups : PeriodTimer(g) \/ \E i \in CPUs : Throttle(g, i)
    \/ \E i \in CPUs : Offline(i) \/ Online(i)

ClampStep ==
    /\ Next
    /\ \A g \in Groups : g > ClampDepth => group'[g] = "none"
    /\ UNCHANGED bwvars

BwNext ==
    \/ about = "clamps" /\ ClampStep
    \/ about = "bandwidth" /\ BandwidthStep

BwSpec == BwInit /\ [][BwNext]_bandvars
--------------------------------------------------------------------------------
\* The quota of a group in relation to its period.
Share(g) == to_ratio(period[g], quota[g])

\* With cgroup v1 no group has more than a group above it, however the writes of several
\* groups' quotas and periods interleave.  Once nobody writes a group, exactly the CPUs that
\* are online limit it if it has a quota and none if it has not; what is throttled has a
\* timer that will free it, and the static key is on wherever something is limited.
BandwidthKept ==
    /\ ~unified => \A g, a \in Limited : a < g => Share(g) <= Share(a)
    /\ \A g \in Groups :
        /\ enabled[g] # {} => bw_used > 0
        /\ (\A w \in Writers : HoldsMutex(w) => writer[w].g # g) =>
            /\ enabled[g] = IF g \in Limited THEN online ELSE {}
            /\ throttled[g] \subseteq enabled[g]
            /\ throttled[g] # {} => timer[g]
================================================================================
