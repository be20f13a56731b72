------------------------------- MODULE TaskGroups -------------------------------
(***************************************************************************)
(* Assignment_4/cfs/core.c: the utilization clamps of tasks, of task groups *)
(* and of the system, and what they make of the clamps of one runqueue.     *)
(* sched_setattr, the sysctls, cpu.uclamp.min and cpu.uclamp.max change     *)
(* them while tasks sleep, are woken, forked and moved to other groups and  *)
(* groups are made and removed.                                             *)
(*                                                                          *)
(* The groups are a chain: 0 is the root, and the parent of g is g - 1.      *)
(* What is done under the lock of the runqueue is one step, each turn of    *)
(* the loops that take it anew is a step.  Writers wait for uclamp_mutex;   *)
(* css_online does not take it.  cgroup.c and copy_process are external.    *)
(***************************************************************************)
EXTENDS Integers, FiniteSets, FiniteSetsExt

CONSTANTS
    Tasks, Boot, None,
    Depth,          \* bound: the number of groups below the root
    SCALE,          \* SCHED_CAPACITY_SCALE
    BUCKETS,        \* UCLAMP_BUCKETS
    Requests,       \* the clamps sched_setattr is called with; None is -1, a reset
    Percents,       \* what is written to cpu.uclamp.*, in hundredths of a percent
    SysctlValues,   \* what is written to the sysctls
    MaxCalls        \* bound: the number of changes

ASSUME GroupsAssumption ==
    /\ Boot \in Tasks /\ IsFiniteSet(Tasks) /\ None \notin 0..Depth
    /\ {Depth, SCALE, BUCKETS, MaxCalls} \subseteq Nat \ {0}
    /\ BUCKETS <= SCALE /\ Requests \subseteq (0..SCALE) \cup {None}
    /\ Percents \subseteq 0..10000 /\ SysctlValues \subseteq Nat

VARIABLES
    used,           \* the static key sched_uclamp_used
    life,           \* "unborn", "dup", "linked", "asleep", "queued"
    rt,             \* rt_task(p)
    req, user,      \* p->uclamp_req[].value and .user_defined
    css, tg,        \* the cgroup of a task, and p->sched_task_group
    clamp,          \* p->uclamp[] of all tasks and rq->uclamp[], see Clamp
    group,          \* "none", "alloc", "online"
    tgReq, tgEff,   \* tg->uclamp_req[].value and tg->uclamp[].value
    sysctl, default,\* sysctl_sched_uclamp_util_*, uclamp_default[].value
    attr,           \* sched_setattr between uclamp_validate and the lock, or None
    write,          \* what the owner of uclamp_mutex does
    walk,           \* the two walks of cpu_util_update_eff there can be
    raced,          \* history: the races this code loses
    calls

task == <<life, rt, req, user, css, tg>>
tgs == <<group, tgReq, tgEff>>
sys == <<sysctl, default>>
vars == <<used, task, clamp, tgs, sys, attr, write, walk, raced, calls>>

Ids == {"MIN", "MAX"}
Values == 0..SCALE
Groups == 0..Depth
Buckets == 0..(BUCKETS - 1)
Least(a, b) == IF a < b THEN a ELSE b

\* value and active of the tasks, the buckets, value and UCLAMP_FLAG_IDLE of the
\* runqueue, and whether a SCHED_WARN_ON was met.
Clamp == [value : [Tasks -> [Ids -> Values]], active : [Tasks -> [Ids -> BOOLEAN]],
          tasks : [Ids -> [Buckets -> 0..Cardinality(Tasks)]], bucket : [Ids -> [Buckets -> Values]],
          rq : [Ids -> Values], idle : BOOLEAN, warn : BOOLEAN]

Idling == [at |-> None, eff |-> None, todo |-> {}]

TypeOK ==
    /\ used \in BOOLEAN /\ calls \in 0..MaxCalls
    /\ life \in [Tasks -> {"unborn", "dup", "linked", "asleep", "queued"}]
    /\ rt \in [Tasks -> BOOLEAN]
    /\ req \in [Tasks -> [Ids -> Nat]] /\ user \in [Tasks -> [Ids -> BOOLEAN]]
    /\ {css, tg} \subseteq [Tasks -> Groups]
    /\ clamp \in Clamp
    /\ group \in [Groups -> {"none", "alloc", "online"}]
    /\ {tgReq, tgEff} \subseteq [Groups -> [Ids -> Values]]
    /\ sysctl \in [{"min", "max", "rt"} -> Nat] /\ default \in [Ids -> Values]
    /\ attr \in {None} \cup [p : Tasks, id : Ids, value : Requests]
    /\ write.pc \in {"none", "mutex", "check", "walk", "sync"}
    /\ walk \in [{"write", "online"} -> [at : Groups \cup {None},
                    eff : {None} \cup [Ids -> Values], todo : SUBSET (Tasks \X Ids)]]
    /\ raced \subseteq {"idle", "online", "refused"}

\* uclamp_none.
uclamp_none(id) == IF id = "MIN" THEN 0 ELSE SCALE

NoClamps == [id \in Ids |-> uclamp_none(id)]

\* init_uclamp, with the boot task on the runqueue before anybody has asked for clamps; some
\* groups may have been made.
Init ==
    /\ used = FALSE /\ calls = 0
    /\ life = [t \in Tasks |-> IF t = Boot THEN "queued" ELSE "unborn"]
    /\ rt = [t \in Tasks |-> FALSE]
    /\ req = [t \in Tasks |-> NoClamps] /\ user = [t \in Tasks |-> [id \in Ids |-> FALSE]]
    /\ css = [t \in Tasks |-> 0] /\ tg = css
    /\ clamp = [value |-> [t \in Tasks |-> [id \in Ids |-> 0]], active |-> user,
                tasks |-> [id \in Ids |-> [b \in Buckets |-> 0]],
                bucket |-> [id \in Ids |-> [b \in Buckets |-> 0]],
                rq |-> NoClamps, idle |-> FALSE, warn |-> FALSE]
    /\ \E made \in Groups :
        /\ group = [g \in Groups |-> IF g <= made THEN "online" ELSE "none"]
        /\ tgReq = [g \in Groups |-> IF g \in 1..made THEN NoClamps ELSE [id \in Ids |-> SCALE]]
    /\ tgEff = tgReq
    /\ sysctl = [v \in {"min", "max", "rt"} |-> SCALE] /\ default = [id \in Ids |-> SCALE]
    /\ attr = None /\ write = [pc |-> "none"]
    /\ walk = [w \in {"write", "online"} |-> Idling]
    /\ raced = {}
--------------------------------------------------------------------------------
(* The clamps of a task and of the runqueue *)

\* uclamp_bucket_id, with UCLAMP_BUCKET_DELTA.
uclamp_bucket_id(v) == Least(v \div ((2 * SCALE + BUCKETS) \div (2 * BUCKETS)), BUCKETS - 1)

\* uclamp_tg_restrict: in the root group, or within its group.
uclamp_tg_restrict(t, id) ==
    IF tg[t] # 0 /\ (req[t][id] > tgEff[tg[t]][id] \/ ~user[t][id])
    THEN tgEff[tg[t]][id] ELSE req[t][id]

\* uclamp_eff_get.
uclamp_eff_get(t, id) == Least(uclamp_tg_restrict(t, id), default[id])

\* uclamp_rq_inc_id, for a task whose effective clamp is v.
RqIncId(c, t, id, v) ==
    LET b == uclamp_bucket_id(v)
        tasks == c.tasks[id][b] + 1
        rq == IF c.idle THEN v ELSE c.rq[id]
    IN [c EXCEPT !.value[t][id] = v, !.active[t][id] = TRUE, !.tasks[id][b] = tasks,
                 !.bucket[id][b] = IF tasks = 1 \/ v > @ THEN v ELSE @,
                 !.rq[id] = IF v > rq THEN v ELSE rq]

\* uclamp_rq_max_value, with uclamp_idle_value when no bucket has tasks.
RqMaxValue(c, id, v) ==
    LET full == {b \in Buckets : c.tasks[id][b] > 0}
    IN CASE full # {} -> [c EXCEPT !.rq[id] = c.bucket[id][Max(full)]]
         [] full = {} /\ id = "MAX" -> [c EXCEPT !.rq[id] = v, !.idle = TRUE]
         [] OTHER -> [c EXCEPT !.rq[id] = uclamp_none("MIN")]

\* Mutant: also a task that was enqueued before the clamps were used is subtracted.
CountedAlways(c, t, id) == TRUE

\* uc_se->active.
Counted(c, t, id) == c.active[t][id]

\* uclamp_rq_dec_id.
RqDecId(c, t, id) ==
    LET v == c.value[t][id]
        b == uclamp_bucket_id(v)
        left == IF c.tasks[id][b] = 0 THEN 0 ELSE c.tasks[id][b] - 1
        d == [c EXCEPT !.tasks[id][b] = left, !.active[t][id] = FALSE,
                       !.warn = @ \/ c.tasks[id][b] = 0 \/ (left = 0 /\ c.bucket[id][b] > c.rq[id])]
    IN CASE ~Counted(c, t, id) -> c
         [] Counted(c, t, id) /\ left = 0 /\ c.bucket[id][b] >= c.rq[id] -> RqMaxValue(d, id, v)
         [] OTHER -> d

\* uclamp_rq_inc and uclamp_rq_dec; fair and real-time tasks are both clamped.
RqInc(c, t, eff) ==
    IF used THEN [RqIncId(RqIncId(c, t, "MIN", eff["MIN"]), t, "MAX", eff["MAX"]) EXCEPT !.idle = FALSE]
    ELSE c
RqDec(c, t) == IF used THEN RqDecId(RqDecId(c, t, "MIN"), t, "MAX") ELSE c

Eff(t) == [id \in Ids |-> uclamp_eff_get(t, id)]

\* dequeue_task and enqueue_task around a change of the task's request or group.
Requeue(t) ==
    clamp' = IF life[t] = "queued" THEN RqInc(RqDec(clamp, t), t, Eff(t)') ELSE clamp
--------------------------------------------------------------------------------
(* Tasks *)

\* activate_task and deactivate_task.
Enqueue(t) ==
    /\ life[t] = "asleep"
    /\ life' = [life EXCEPT ![t] = "queued"]
    /\ clamp' = RqInc(clamp, t, Eff(t))
    /\ UNCHANGED <<used, rt, req, user, css, tg, tgs, sys, attr, write, walk, raced>>

Dequeue(t) ==
    /\ life[t] = "queued"
    /\ life' = [life EXCEPT ![t] = "asleep"]
    /\ clamp' = RqDec(clamp, t)
    /\ UNCHANGED <<used, rt, req, user, css, tg, tgs, sys, attr, write, walk, raced>>

\* copy_process: the child starts with a copy, and uclamp_fork; with sched_reset_on_fork
\* (reset) it has no requests and is no real-time task.
Fork(t, p, reset) ==
    /\ life[t] = "queued" /\ life[p] = "unborn"
    /\ life' = [life EXCEPT ![p] = "dup"]
    /\ rt' = [rt EXCEPT ![p] = rt[t] /\ ~reset]
    /\ req' = [req EXCEPT ![p] = IF reset THEN NoClamps ELSE req[t]]
    /\ user' = [user EXCEPT ![p] = [id \in Ids |-> user[t][id] /\ ~reset]]
    /\ css' = [css EXCEPT ![p] = css[t]] /\ tg' = [tg EXCEPT ![p] = tg[t]]
    /\ clamp' = [clamp EXCEPT !.active[p] = [id \in Ids |-> FALSE]]
    /\ UNCHANGED <<used, tgs, sys, attr, write, walk, raced>>

\* The child is linked into the list of tasks.
Link(p) ==
    /\ life[p] = "dup"
    /\ life' = [life EXCEPT ![p] = "linked"]
    /\ UNCHANGED <<used, rt, req, user, css, tg, clamp, tgs, sys, attr, write, walk, raced>>

\* A value the handler of the sysctl will refuse has been read.
Read(v) == raced' = IF v > SCALE THEN raced \cup {"refused"} ELSE raced

\* uclamp_post_fork: __uclamp_update_util_min_rt_default.
PostFork(p) ==
    IF rt[p] /\ ~user[p]["MIN"] THEN [req EXCEPT ![p]["MIN"] = sysctl["rt"]] ELSE req

\* sched_post_fork, cpu_cgroup_fork, and wake_up_new_task, which finds the task's clamps.
SchedPostFork(p) ==
    /\ life[p] = "linked"
    /\ life' = [life EXCEPT ![p] = "asleep"]
    /\ req' = PostFork(p)
    /\ tg' = [tg EXCEPT ![p] = css[p]]
    /\ Read(req'[p]["MIN"])
    /\ UNCHANGED <<used, rt, user, css, clamp, tgs, sys, attr, write, walk>>

\* cpu_cgroup_can_attach refuses a task that has not been woken yet; the cgroup changes.
CanAttach(t, g) ==
    /\ life[t] \in {"asleep", "queued"} /\ group[g] = "online" /\ css[t] # g /\ css[t] = tg[t]
    /\ css' = [css EXCEPT ![t] = g]
    /\ UNCHANGED <<used, life, rt, req, user, tg, clamp, tgs, sys, attr, write, walk, raced>>

\* cpu_cgroup_attach: sched_move_task with sched_change_group.
Attach(t) ==
    /\ life[t] \in {"asleep", "queued"} /\ css[t] # tg[t]
    /\ tg' = [tg EXCEPT ![t] = css[t]]
    /\ UNCHANGED <<used, life, rt, req, user, css, tgs, sys, attr, write, walk, raced>>
    /\ Requeue(t)
--------------------------------------------------------------------------------
(* sched_setattr *)

\* uclamp_validate reads the other request without the lock, and enables the key.
UclampValidate(t, id, v) ==
    /\ life[t] \in {"asleep", "queued"} /\ attr = None
    /\ LET min == IF id = "MIN" THEN v ELSE req[t]["MIN"]
           max == IF id = "MAX" THEN v ELSE req[t]["MAX"]
       IN v # None => min <= max
    /\ attr' = [p |-> t, id |-> id, value |-> v] /\ used' = TRUE
    /\ UNCHANGED <<task, clamp, tgs, sys, write, walk, raced>>

\* The default request of a task, for uclamp_reset.
ResetValue(id, isRt) == IF isRt /\ id = "MIN" THEN sysctl["rt"] ELSE uclamp_none(id)

\* __sched_setscheduler with the lock: __setscheduler_uclamp between dequeue and enqueue.
\* A call that changes a clamp keeps the policy.
SetschedulerUclamp(t) ==
    /\ attr # None /\ attr.p = t /\ attr' = None
    /\ req' = [req EXCEPT ![t][attr.id] =
                IF attr.value = None THEN ResetValue(attr.id, rt[t]) ELSE attr.value]
    /\ user' = [user EXCEPT ![t][attr.id] = attr.value # None]
    /\ Read(req'[t][attr.id])
    /\ UNCHANGED <<used, life, rt, css, tg, tgs, sys, write, walk>>
    /\ Requeue(t)

\* __sched_setscheduler of a call that changes the policy: requests the user has not made
\* are reset.
SetPolicy(t) ==
    /\ life[t] \in {"asleep", "queued"}
    /\ rt' = [rt EXCEPT ![t] = ~@]
    /\ req' = [req EXCEPT ![t] = [id \in Ids |-> IF user[t][id] THEN req[t][id]
                                                 ELSE ResetValue(id, ~rt[t])]]
    /\ Read(req'[t]["MIN"])
    /\ UNCHANGED <<used, life, user, css, tg, tgs, sys, attr, write, walk>>
    /\ Requeue(t)
--------------------------------------------------------------------------------
(* cpu_util_update_eff *)

\* The effective clamps of a group: its requests within those of its parent, and the
\* protection within the limit.
Effective(g, parent) ==
    LET eff == [id \in Ids |-> Least(tgReq[g][id], parent[id])]
    IN [eff EXCEPT !["MIN"] = Least(@, eff["MAX"])]

\* A group that is not online yet does not know its parent.
ParentEff(g) == IF g = 0 \/ group[g] # "online" THEN [id \in Ids |-> SCALE] ELSE tgEff[g - 1]

\* The next group: the clamps are computed.
Visit(w) ==
    /\ walk[w].at # None /\ walk[w].eff = None /\ walk[w].todo = {}
    /\ walk' = [walk EXCEPT ![w].eff = Effective(walk[w].at, ParentEff(walk[w].at))]
    /\ UNCHANGED <<used, task, clamp, tgs, sys, attr, write, raced>>

\* The tasks css_task_iter finds: a child becomes a member when sched_post_fork is over.
Member(t, g) == life[t] \in {"asleep", "queued"} /\ css[t] = g

\* css_for_each_descendant_pre.
NextGroup(g) == IF g < Depth /\ group[g + 1] # "none" THEN g + 1 ELSE None

\* Mutant: only a change of the limit is passed on.
ChangedLimit(g, eff) == {id \in {"MAX"} : eff[id] # tgEff[g][id]}

\* The clamps that change, or the group's descendants are skipped.
Changed(g, eff) == {id \in Ids : eff[id] # tgEff[g][id]}

\* They are stored, and the tasks of the group are to be updated.
Store(w) ==
    LET g == walk[w].at
        ids == Changed(g, walk[w].eff)
    IN /\ walk[w].eff # None
       /\ tgEff' = [tgEff EXCEPT ![g] = [id \in Ids |-> IF id \in ids THEN walk[w].eff[id] ELSE @[id]]]
       /\ walk' = [walk EXCEPT ![w] =
            IF ids = {} THEN Idling
            ELSE [at |-> NextGroup(g), eff |-> None, todo |-> {t \in Tasks : Member(t, g)} \X ids]]
       /\ raced' = IF \E v \in {"write", "online"} \ {w} : walk[v] # Idling
                   THEN raced \cup {"online"} ELSE raced
       /\ UNCHANGED <<used, task, clamp, group, tgReq, sys, attr, write>>

\* uclamp_update_active: a task that is counted is counted anew.
UpdateActive(w, t, id) ==
    /\ <<t, id>> \in walk[w].todo
    /\ walk' = [walk EXCEPT ![w].todo = @ \ {<<t, id>>}]
    /\ clamp' = IF clamp.active[t][id]
                THEN RqIncId(RqDecId(clamp, t, id), t, id, uclamp_eff_get(t, id)) ELSE clamp
    /\ raced' = IF clamp'.idle /\ ~clamp.idle THEN raced \cup {"idle"} ELSE raced
    /\ UNCHANGED <<used, task, tgs, sys, attr, write>>
--------------------------------------------------------------------------------
(* The files and the sysctls *)

\* capacity_from_percent.
capacity_from_percent(percent) == (percent * SCALE + 5000) \div 10000

\* cpu_uclamp_write up to the mutex: the key is enabled.
CpuUclampWrite(g, id, percent) ==
    /\ write.pc = "none" /\ g > 0 /\ group[g] = "online"
    /\ write' = [pc |-> "mutex", g |-> g, id |-> id, util |-> capacity_from_percent(percent)]
    /\ used' = TRUE
    /\ UNCHANGED <<task, clamp, tgs, sys, attr, walk, raced>>

\* The request is stored, and cpu_util_update_eff follows.
CpuUclampStore ==
    /\ write.pc = "mutex"
    /\ tgReq' = [tgReq EXCEPT ![write.g][write.id] = write.util]
    /\ walk' = [walk EXCEPT !["write"].at = write.g]
    /\ write' = [pc |-> "walk"]
    /\ UNCHANGED <<used, task, clamp, group, tgEff, sys, attr, raced>>

\* sysctl_sched_uclamp_handler: proc_dointvec stores what was written.
SysctlWrite(var, v) ==
    /\ write.pc = "none" /\ sysctl[var] # v
    /\ sysctl' = [sysctl EXCEPT ![var] = v]
    /\ write' = [pc |-> "check", var |-> var, old |-> sysctl[var]]
    /\ UNCHANGED <<used, task, clamp, tgs, default, attr, walk, raced>>

\* The tasks for_each_process_thread finds.
Linked == {t \in Tasks : life[t] \in {"linked", "asleep", "queued"}}

\* The value is refused and taken back, or it becomes the default, and the root group or
\* all real-time tasks follow.
SysctlCheck ==
    /\ write.pc = "check"
    /\ IF sysctl["min"] > sysctl["max"] \/ sysctl["max"] > SCALE \/ sysctl["rt"] > SCALE
       THEN /\ sysctl' = [sysctl EXCEPT ![write.var] = write.old]
            /\ write' = [pc |-> "none"]
            /\ UNCHANGED <<used, default, tgReq, walk>>
       ELSE /\ used' = TRUE
            /\ default' = [MIN |-> sysctl["min"], MAX |-> sysctl["max"]]
            /\ IF write.var = "rt"
               THEN write' = [pc |-> "sync", todo |-> Linked] /\ UNCHANGED <<tgReq, walk>>
               ELSE /\ write' = [pc |-> "walk"]
                    /\ tgReq' = [tgReq EXCEPT ![0] = default']
                    /\ walk' = [walk EXCEPT !["write"].at = 0]
            /\ UNCHANGED sysctl
    /\ UNCHANGED <<task, clamp, group, tgEff, attr, raced>>

\* uclamp_sync_util_min_rt_default: a turn of its loop.
SyncRtDefault(t) ==
    /\ write.pc = "sync" /\ t \in write.todo
    /\ req' = PostFork(t)
    /\ write' = [write EXCEPT !.todo = @ \ {t}]
    /\ UNCHANGED <<used, life, rt, user, css, tg, clamp, tgs, sys, attr, walk, raced>>

\* The mutex is released.
WriteDone ==
    /\ \/ write.pc = "walk" /\ walk["write"] = Idling
       \/ write.pc = "sync" /\ write.todo = {}
    /\ write' = [pc |-> "none"]
    /\ UNCHANGED <<used, task, clamp, tgs, sys, attr, walk, raced>>
--------------------------------------------------------------------------------
(* Groups *)

\* cpu_cgroup_css_alloc: sched_create_group with alloc_uclamp_sched_group.  cgroup_mutex
\* is held until css_online is over.
CssAlloc(g) ==
    /\ g > 0 /\ group[g] = "none" /\ group[g - 1] = "online" /\ walk["online"] = Idling
    /\ group' = [group EXCEPT ![g] = "alloc"]
    /\ tgReq' = [tgReq EXCEPT ![g] = NoClamps] /\ tgEff' = [tgEff EXCEPT ![g] = tgEff[g - 1]]
    /\ UNCHANGED <<used, task, clamp, sys, attr, write, walk, raced>>

\* cpu_cgroup_css_online: sched_online_group, and cpu_util_update_eff without the mutex.
CssOnline(g) ==
    /\ group[g] = "alloc"
    /\ group' = [group EXCEPT ![g] = "online"]
    /\ walk' = [walk EXCEPT !["online"].at = g]
    /\ UNCHANGED <<used, task, clamp, tgReq, tgEff, sys, attr, write, raced>>

\* cpu_cgroup_css_released and cpu_cgroup_css_free, for a group without tasks and children
\* that nobody visits.
CssReleased(g) ==
    /\ g > 0 /\ group[g] = "online" /\ (g < Depth => group[g + 1] = "none")
    /\ \A t \in Tasks : g \notin {css[t], tg[t]}
    /\ \A w \in {"write", "online"} : walk[w] = Idling
    /\ write.pc # "mutex"
    /\ group' = [group EXCEPT ![g] = "none"]
    /\ UNCHANGED <<used, task, clamp, tgReq, tgEff, sys, attr, write, walk, raced>>
--------------------------------------------------------------------------------
TaskStep == \E t \in Tasks :
    \/ Enqueue(t) \/ Dequeue(t) \/ Link(t) \/ SchedPostFork(t) \/ Attach(t) 
    \/ SetschedulerUclamp(t) \/ SyncRtDefault(t)
    \/ \E p \in Tasks, reset \in BOOLEAN : Fork(t, p, reset)

WalkStep == \E w \in {"write", "online"} :
    Visit(w) \/ Store(w) \/ \E t \in Tasks, id \in Ids : UpdateActive(w, t, id)

CallStep ==
    \/ \E t \in Tasks : \/ SetPolicy(t)
                        \/ \E g \in Groups : CanAttach(t, g)
                        \/ \E id \in Ids, v \in Requests : UclampValidate(t, id, v)
    \/ \E g \in Groups : \/ CssAlloc(g) \/ CssReleased(g)
                         \/ \E id \in Ids, percent \in Percents : CpuUclampWrite(g, id, percent)
    \/ \E var \in {"min", "max", "rt"}, v \in SysctlValues : SysctlWrite(var, v)

Next ==
    \/ calls < MaxCalls /\ calls' = calls + 1 /\ CallStep
    \/ /\ UNCHANGED calls
       /\ \/ TaskStep \/ WalkStep \/ CpuUclampStore \/ SysctlCheck \/ WriteDone
          \/ \E g \in Groups : CssOnline(g)

Spec == Init /\ [][Next]_vars

\* Behaviours are not followed beyond a race the code has lost.
Followed == raced = {}
--------------------------------------------------------------------------------
(* raced holds what this code gets wrong.  "idle": uclamp_update_active of the only task on  *)
(* the runqueue leaves UCLAMP_FLAG_IDLE set, and the next enqueue lowers the clamps of the   *)
(* runqueue to those of the new task.  "online": css_online, without the mutex, stores clamps *)
(* computed from those its parent had before.  "refused": a task reads the default for        *)
(* real-time tasks before the value is refused and taken back.                                *)

\* The tasks counted in a bucket.
InBucket(id, b) == {t \in Tasks : clamp.active[t][id] /\ uclamp_bucket_id(clamp.value[t][id]) = b}

\* Everything has its type.  The buckets of the runqueue count the tasks that were enqueued
\* since the clamps are used, no more and no less, whenever the key was enabled; no task that
\* runs is below the clamps it was counted with; no SCHED_WARN_ON is met.
ClampsCounted ==
    /\ TypeOK /\ ~clamp.warn
    /\ \A id \in Ids, b \in Buckets :
        /\ clamp.tasks[id][b] = Cardinality(InBucket(id, b))
        /\ \A t \in InBucket(id, b) :
            /\ life[t] = "queued"
            /\ clamp.value[t][id] <= clamp.bucket[id][b]
            /\ raced = {} => clamp.bucket[id][b] <= clamp.rq[id]

NobodyWrites == write.pc = "none" /\ \A w \in {"write", "online"} : walk[w] = Idling

\* Once a write is over every group is within its parent, and every task on the runqueue
\* that is not being moved is within its group and within the system default, whatever was
\* enqueued, forked, moved and made during the walk; and no real-time task has missed the
\* default of its class.
Restricted ==
    NobodyWrites /\ raced = {} =>
        /\ \A g \in Groups : group[g] = "online" => tgEff[g] = Effective(g, ParentEff(g))
        /\ \A t \in Tasks, id \in Ids : clamp.active[t][id] /\ css[t] = tg[t] =>
            /\ clamp.value[t][id] <= default[id] /\ clamp.value[t][id] <= tgEff[tg[t]][id]
            /\ user[t][id] => clamp.value[t][id] = uclamp_eff_get(t, id)
        /\ \A t \in Tasks : rt[t] /\ ~user[t]["MIN"] /\ life[t] \in {"asleep", "queued"} =>
            req[t]["MIN"] = sysctl["rt"]
================================================================================
