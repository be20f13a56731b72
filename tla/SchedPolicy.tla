------------------------------ MODULE SchedPolicy ------------------------------
(***************************************************************************)
(* Assignment_4/{cfs,fifo}/core.c, stats.h: the policy and the priorities   *)
(* of tasks on one runqueue, in both patched kernels.  fork, nice,          *)
(* sched_setscheduler, sched_setparam, sched_setattr, priority inheritance, *)
(* sched_yield, exit and __schedule change them; the kernel of fifo/ turns  *)
(* SCHED_NORMAL into SCHED_FIFO, the kernel of cfs/ measures and prints the *)
(* time a task has used.                                                    *)
(*                                                                          *)
(* rt_mutex, rt.c and fair.c are external: each waiter waits for a mutex of *)
(* its own, an owner does not wait itself, and a fair task is picked and    *)
(* preempted arbitrarily.  SCHED_DEADLINE, SCHED_RR, SCHED_BATCH and        *)
(* SCHED_IDLE are left out.  The checks sched_setscheduler makes before it  *)
(* takes the lock are one step with the rest, except in sched_setparam,     *)
(* which uses a policy it has read before.                                  *)
(***************************************************************************)
EXTENDS Integers, Sequences, SequencesExt

CONSTANTS
    Tasks, InitTask, Idle,
    MaxCalls,       \* bound: calls that change a task's parameters
    Kernels,        \* "cfs", "fifo": the kernels under consideration
    MAX_RT_PRIO,    \* priorities below are those of real-time tasks
    Nices, RtPriorities,
    MaxTime         \* bound: time units in the lives of the tasks there are (kernel of cfs/)

ASSUME PolicyAssumption ==
    /\ InitTask \in Tasks /\ Idle \notin Tasks /\ MaxCalls \in Nat
    /\ Kernels \subseteq {"cfs", "fifo"}
    /\ MAX_RT_PRIO \in Nat /\ MAX_RT_PRIO >= 4 /\ MaxTime \in Nat
    /\ Nices \subseteq -20..19 /\ 0 \in Nices
    /\ RtPriorities \subseteq 1..(MAX_RT_PRIO - 1)

VARIABLES
    kernel,
    privileged,     \* whether the callers have CAP_SYS_NICE
    sp,             \* policy, priorities, class and reset_on_fork of a task
    life,           \* "unborn", "ready", "blocked", "released", "dead"
    blocked,        \* the owner of the mutex a task waits for, or Idle
    top,            \* p->pi_top_task, or Idle
    on_rq,          \* the tasks on the runqueue
    queue,          \* the real-time ones among them, in the order of the lists of rt.c
    curr, need_resched,
    acc,            \* p->accumulated_cputime
    since,          \* rq_clock - sched_info.last_arrival of current
    used,           \* history: the time the task has been running
    call,           \* sched_setparam between its checks and the lock, or NoCall
    moved,          \* history: since current was picked it has gone to the end of its list,
                    \* or another task to the head of one
    adjust,         \* the tasks rt_mutex_adjust_pi is still to be called for
    calls           \* the number of calls so far

rq == <<on_rq, queue, need_resched, moved>>
time == <<acc, since, used>>
machine == <<kernel, privileged>>
vars == <<machine, sp, life, blocked, top, rq, curr, time, call, adjust, calls>>

NICE_TO_PRIO(n) == MAX_RT_PRIO + 20 + n
Nice(s) == s.static_prio - (MAX_RT_PRIO + 20)
Priorities == 0..(MAX_RT_PRIO + 39)
Params == [policy : {"NORMAL", "FIFO"}, static_prio : Priorities, rt_priority : 0..(MAX_RT_PRIO - 1),
           normal_prio : Priorities, prio : Priorities, class : {"fair", "rt"}, reset : BOOLEAN]
NoCall == <<>>

TypeOK ==
    /\ kernel \in Kernels /\ privileged \in BOOLEAN
    /\ sp \in [Tasks -> Params]
    /\ life \in [Tasks -> {"unborn", "ready", "blocked", "released", "dead"}]
    /\ {blocked, top} \subseteq [Tasks -> Tasks \cup {Idle}]
    /\ on_rq \subseteq Tasks /\ moved \in BOOLEAN
    /\ queue \in Seq(Tasks) /\ IsInjective(queue)
    /\ ToSet(queue) = {t \in on_rq : sp[t].class = "rt"}
    /\ curr \in Tasks \cup {Idle} /\ need_resched \in BOOLEAN
    /\ {acc, used} \subseteq [Tasks -> 0..MaxTime] /\ since \in 0..MaxTime
    /\ call \in {NoCall} \cup [p : Tasks, priority : 0..(MAX_RT_PRIO - 1),
                              oldpolicy : {"NORMAL", "FIFO"}, nice : -20..19,
                              reset : BOOLEAN]
    /\ adjust \subseteq Tasks /\ calls \in 0..MaxCalls

rt_prio(prio) == prio < MAX_RT_PRIO
\* The sched_class that goes with a priority.
ClassOf(prio) == IF rt_prio(prio) THEN "rt" ELSE "fair"

\* normal_prio.
normal_prio(s) ==
    IF s.policy = "FIFO" THEN MAX_RT_PRIO - 1 - s.rt_priority ELSE s.static_prio

NormalTask ==
    LET prio == NICE_TO_PRIO(0)
    IN [policy |-> "NORMAL", static_prio |-> prio, rt_priority |-> 0, normal_prio |-> prio,
        prio |-> prio, class |-> "fair", reset |-> FALSE]

\* init is a SCHED_NORMAL task of nice 0 in both kernels.
Init ==
    /\ kernel \in Kernels /\ privileged \in BOOLEAN
    /\ sp = [t \in Tasks |-> NormalTask]
    /\ life = [t \in Tasks |-> IF t = InitTask THEN "ready" ELSE "unborn"]
    /\ blocked = [t \in Tasks |-> Idle] /\ top = blocked
    /\ on_rq = {InitTask} /\ queue = <<>> /\ curr = InitTask
    /\ need_resched = FALSE /\ moved = FALSE
    /\ acc = [t \in Tasks |-> 0] /\ used = acc /\ since = 0
    /\ call = NoCall /\ adjust = {} /\ calls = 0

Live(p) == life[p] \notin {"unborn", "dead"}
Runs(t) == curr = t /\ t \in Tasks /\ life[t] = "ready"
--------------------------------------------------------------------------------
(* What happens to the runqueue *)

\* check_preempt_curr: whether p, with parameters s, must preempt current ...
Preempts(s) == curr = Idle \/ (s.class = "rt" /\ s.prio < sp[curr].prio)
\* ... or may, because both are fair tasks.
MayPreempt(s) == curr # Idle /\ s.class = "fair" /\ sp[curr].class = "fair"

\* resched_curr if it must, and perhaps if it may.
ReschedCurr(must, may) ==
    \E b \in {must, must \/ may} : need_resched' = (need_resched \/ b)

\* Mutant: only a change of the class counts.
ClassChangedOnly(p, old, new) ==
    IF p \in on_rq /\ old.class # new.class
    THEN IF p = curr THEN ReschedCurr(new.class = "fair", FALSE)
         ELSE ReschedCurr(Preempts(new), MayPreempt(new))
    ELSE UNCHANGED need_resched

\* check_class_changed, with switched_to and prio_changed of rt.c and fair.c: current is
\* preempted if it has become fair or less urgent, another task may preempt it.
ClassChanged(p, old, new) ==
    IF p \in on_rq /\ (old.class # new.class \/ old.prio # new.prio)
    THEN IF p = curr
         THEN ReschedCurr(old.prio < new.prio \/ (old.class # new.class /\ new.class = "fair"), FALSE)
         ELSE ReschedCurr(Preempts(new), MayPreempt(new))
    ELSE UNCHANGED need_resched

Without(t) == RemoveFirst(queue, t)

\* Mutant: always to the tail.
RequeuedTail(p, old, new) ==
    CASE p \notin on_rq \/ old.prio = new.prio -> queue
      [] p \in on_rq /\ old.prio # new.prio /\ new.class = "fair" -> Without(p)
      [] OTHER -> Append(Without(p), p)

\* dequeue_task and enqueue_task with DEQUEUE_MOVE: to the head of the list of a less
\* urgent priority, to the tail of a more urgent one; without a change it stays.
Requeued(p, old, new) ==
    CASE p \notin on_rq \/ old.prio = new.prio -> queue
      [] p \in on_rq /\ old.prio # new.prio /\ new.class = "fair" -> Without(p)
      [] p \in on_rq /\ old.prio < new.prio /\ new.class = "rt" -> <<p>> \o Without(p)
      [] OTHER -> Append(Without(p), p)

\* A new priority for p, and what it does to the runqueue.
Reprioritised(p, new) ==
    /\ sp' = [sp EXCEPT ![p] = new]
    /\ queue' = Requeued(p, sp[p], new)
    /\ moved' = (moved \/ (p = curr /\ new.prio < sp[p].prio)
                       \/ (p # curr /\ p \in on_rq /\ sp[p].prio < new.prio))
    /\ ClassChanged(p, sp[p], new)
    /\ UNCHANGED on_rq

\* enqueue_task of a task that was not on the runqueue, and check_preempt_curr.
Enqueue(p, s) ==
    /\ on_rq' = on_rq \cup {p}
    /\ queue' = IF s.class = "rt" THEN Append(queue, p) ELSE queue
    /\ ReschedCurr(Preempts(s), MayPreempt(s))
    /\ UNCHANGED moved

\* sched_info_depart for prev and sched_info_arrive for next.
SchedInfoSwitch(prev, next) ==
    IF prev = next THEN UNCHANGED <<acc, since>>
    ELSE /\ acc' = [t \in Tasks |-> IF t = prev THEN acc[t] + since ELSE acc[t]]
         /\ since' = 0

\* pick_next_task: of the most urgent real-time tasks the first in the queue, or any fair
\* task, or idle.
PickNextTask(onRq, q) ==
    LET urgent(i) == \A j \in 1..Len(q) : sp[q[i]].prio < sp[q[j]].prio + (IF i <= j THEN 1 ELSE 0)
    IN IF q # <<>> THEN {q[i] : i \in {i \in 1..Len(q) : urgent(i)}}
       ELSE IF onRq # {} THEN onRq ELSE {Idle}

\* __schedule: a task that is not ready leaves the runqueue.
Schedule ==
    /\ need_resched \/ (curr # Idle /\ life[curr] # "ready")
    /\ LET off == curr # Idle /\ life[curr] # "ready"
       IN /\ queue' = IF off THEN Without(curr) ELSE queue
          /\ on_rq' = IF off THEN on_rq \ {curr} ELSE on_rq
    /\ \E next \in PickNextTask(on_rq', queue') : curr' = next /\ SchedInfoSwitch(curr, next)
    /\ need_resched' = FALSE /\ moved' = FALSE
    /\ UNCHANGED <<machine, sp, life, blocked, top, used, call, adjust>>

\* scheduler_tick: the clock, and for a fair task perhaps the end of its slice.  The
\* kernel of fifo/ adds up the same time but nothing reads it: there it is left out.
Tick ==
    /\ curr # Idle
    /\ \/ /\ kernel = "cfs" /\ acc[curr] + since < MaxTime
          /\ MapThenSumSet(LAMBDA t : used[t], Tasks) < MaxTime
          /\ since' = since + 1 /\ used' = [used EXCEPT ![curr] = @ + 1]
       \/ kernel = "fifo" /\ UNCHANGED <<since, used>>
    /\ ReschedCurr(FALSE, sp[curr].class = "fair" /\ on_rq # {curr})
    /\ UNCHANGED <<machine, sp, life, blocked, top, on_rq, queue, moved, curr, acc, call, adjust>>
--------------------------------------------------------------------------------
(* fork, exit, sched_yield *)

\* cfs/core.c: the child does not inherit a boost.
ForkPrioCfs(s) == [s EXCEPT !.prio = s.normal_prio]

\* fifo/core.c: a normal task's child becomes a SCHED_FIFO task.
ForkPrioFifo(s) ==
    IF s.policy = "NORMAL"
    THEN [s EXCEPT !.prio = MAX_RT_PRIO \div 2, !.normal_prio = MAX_RT_PRIO \div 2,
                   !.rt_priority = MAX_RT_PRIO \div 2, !.policy = "FIFO"]
    ELSE s

\* sched_reset_on_fork.
ForkReset(s) ==
    IF s.reset
    THEN LET prio == IF s.policy = "FIFO" \/ Nice(s) < 0 THEN NICE_TO_PRIO(0) ELSE s.static_prio
         IN [s EXCEPT !.policy = "NORMAL", !.static_prio = prio, !.prio = prio,
                      !.normal_prio = prio, !.reset = FALSE,
                      !.rt_priority = IF s.policy = "FIFO" THEN 0 ELSE @]
    ELSE s

\* sched_fork: the parameters of the child.
SchedFork(s) ==
    LET child == ForkReset(IF kernel = "cfs" THEN ForkPrioCfs(s) ELSE ForkPrioFifo(s))
    IN [child EXCEPT !.class = ClassOf(child.prio)]

\* Mutant: accumulated_cputime is not cleared.
ForkTimeKept(t) == acc[t]

\* p->accumulated_cputime = 0 is in cfs/core.c only; in fifo/core.c the copy stays.
ForkTime(t) == IF kernel = "cfs" THEN 0 ELSE acc[t]

\* copy_process with sched_fork, and wake_up_new_task.
Fork(t, p) ==
    /\ Runs(t) /\ life[p] = "unborn"
    /\ sp' = [sp EXCEPT ![p] = SchedFork(sp[t])]
    /\ acc' = [acc EXCEPT ![p] = ForkTime(t)]
    /\ life' = [life EXCEPT ![p] = "ready"]
    /\ Enqueue(p, SchedFork(sp[t]))
    /\ UNCHANGED <<machine, blocked, top, curr, since, used, call, adjust>>

\* do_exit; a task that owns a mutex somebody waits for does not exit.
Exit(t) ==
    /\ Runs(t) /\ t # InitTask /\ \A w \in Tasks : blocked[w] # t
    /\ life' = [life EXCEPT ![t] = "dead"]
    /\ UNCHANGED <<machine, sp, blocked, top, rq, curr, time, call, adjust>>

\* wait: the parent releases a task that has been switched out, and its task_struct is
\* used again.
Wait(t, p) ==
    /\ Runs(t) /\ life[p] = "dead" /\ curr # p /\ p \notin adjust
    /\ call # NoCall => call.p # p
    /\ life' = [life EXCEPT ![p] = "unborn"]
    /\ sp' = [sp EXCEPT ![p] = NormalTask]
    /\ acc' = [acc EXCEPT ![p] = 0] /\ used' = [used EXCEPT ![p] = 0]
    /\ UNCHANGED <<machine, blocked, top, rq, curr, since, call, adjust>>

\* sched_yield: yield_task puts current at the end of its list, schedule follows.
Yield(t) ==
    /\ Runs(t)
    /\ queue' = IF sp[t].class = "rt" THEN Append(Without(t), t) ELSE queue
    /\ need_resched' = TRUE /\ moved' = TRUE
    /\ UNCHANGED <<machine, sp, life, blocked, top, on_rq, curr, time, call, adjust>>
--------------------------------------------------------------------------------
(* nice *)

\* effective_prio.
effective_prio(s) == IF rt_prio(s.prio) THEN s.prio ELSE normal_prio(s)

\* set_user_nice, from nice and setpriority, which ask can_nice.
SetUserNice(p, n) ==
    /\ Live(p) /\ Nice(sp[p]) # n /\ (n < Nice(sp[p]) => privileged)
    /\ LET s == [sp[p] EXCEPT !.static_prio = NICE_TO_PRIO(n)]
           new == IF s.policy = "FIFO" THEN s
                  ELSE [s EXCEPT !.normal_prio = normal_prio(s), !.prio = effective_prio(s)]
       IN /\ sp' = [sp EXCEPT ![p] = new]
          /\ ClassChanged(p, sp[p], new)
    /\ UNCHANGED <<machine, life, blocked, top, on_rq, queue, moved, curr, time, call, adjust>>
--------------------------------------------------------------------------------
(* priority inheritance *)

\* __rt_effective_prio.
rt_effective_prio(w, prio) == IF w # Idle /\ sp[w].prio < prio THEN sp[w].prio ELSE prio

\* rt_mutex_setprio: p gets the priority of its top waiter w, or its own back.
RtMutexSetprio(p, w) ==
    LET prio == rt_effective_prio(w, sp[p].normal_prio)
        new == [sp[p] EXCEPT !.prio = prio, !.class = ClassOf(prio)]
    IN /\ top' = [top EXCEPT ![p] = w]
       /\ IF prio = sp[p].prio THEN UNCHANGED <<sp, rq>> ELSE Reprioritised(p, new)

\* The waiters a task may have as its top one: none is more urgent.
TopWaiters(waiters) ==
    IF waiters = {} THEN {Idle}
    ELSE {w \in waiters : \A v \in waiters : sp[w].prio <= sp[v].prio}
WaitersOf(p) == {w \in Tasks : blocked[w] = p}

\* rt_mutex_lock: current waits for a mutex of p, which inherits its priority.
Block(t, p) ==
    /\ Runs(t) /\ p # t /\ life[p] = "ready" /\ WaitersOf(t) = {}
    /\ blocked' = [blocked EXCEPT ![t] = p]
    /\ life' = [life EXCEPT ![t] = "blocked"]
    /\ \E w \in TopWaiters(WaitersOf(p) \cup {t}) : RtMutexSetprio(p, w)
    /\ UNCHANGED <<machine, curr, time, call, adjust>>

\* rt_mutex_unlock: the waiter is released, and the owner loses what it inherited from it.
Unlock(t, w) ==
    /\ Runs(t) /\ blocked[w] = t
    /\ blocked' = [blocked EXCEPT ![w] = Idle]
    /\ life' = [life EXCEPT ![w] = "released"]
    /\ \E v \in TopWaiters(WaitersOf(t) \ {w}) : RtMutexSetprio(t, v)
    /\ UNCHANGED <<machine, curr, time, call, adjust>>

\* rt_mutex_postunlock wakes the waiter.
Wake(w) ==
    /\ life[w] = "released"
    /\ life' = [life EXCEPT ![w] = "ready"]
    /\ IF w \in on_rq THEN UNCHANGED rq ELSE Enqueue(w, sp[w])
    /\ UNCHANGED <<machine, sp, blocked, top, curr, time, call, adjust>>
--------------------------------------------------------------------------------
(* __sched_setscheduler *)

\* The checks before the lock: a FIFO priority is not 0, another is, and without
\* CAP_SYS_NICE, RLIMIT_NICE and RLIMIT_RTPRIO nothing may be raised.
Allowed(s, policy, priority, n, reset) ==
    /\ (policy = "FIFO") = (priority # 0)
    /\ \/ privileged
       \/ /\ policy = "NORMAL" => n >= Nice(s)
          /\ policy = "FIFO" => policy = s.policy /\ priority <= s.rt_priority
          /\ s.reset => reset

\* Mutant: a boost is lost when the parameters change.
NewPrioUnboosted(p, s) == normal_prio(s)

\* __setscheduler: the new priority, with a potential boost kept.
NewPrio(p, s) == rt_effective_prio(top[p], normal_prio(s))

\* __setscheduler_params and __setscheduler.
NewParams(p, policy, priority, n, reset) ==
    LET s == [sp[p] EXCEPT !.policy = policy, !.reset = reset, !.rt_priority = priority,
                           !.static_prio = IF policy = "NORMAL" THEN NICE_TO_PRIO(n) ELSE @]
        prio == NewPrio(p, s)
    IN [s EXCEPT !.normal_prio = normal_prio(s), !.prio = prio, !.class = ClassOf(prio)]

\* policy == p->policy and nothing to change but perhaps reset_on_fork.
SameParams(s, policy, priority, n) ==
    policy = s.policy /\ (IF policy = "NORMAL" THEN n = Nice(s) ELSE priority = s.rt_priority)

\* The part of __sched_setscheduler with the locks of the task and of the runqueue.
\* Bound: one call at a time is between its locks and rt_mutex_adjust_pi.
Locked(p, policy, priority, n, reset) ==
    LET new == NewParams(p, policy, priority, n, reset)
    IN IF SameParams(sp[p], policy, priority, n)
       THEN /\ sp' = [sp EXCEPT ![p].reset = reset]
            /\ UNCHANGED <<rq, adjust>>
       ELSE /\ Reprioritised(p, new)
            /\ adjust = {} /\ adjust' = {p}

\* sched_setscheduler: in _sched_setscheduler fifo/core.c replaces SCHED_NORMAL, unless
\* SCHED_RESET_ON_FORK is given with it.
SysSetscheduler(p, policy, priority, reset) ==
    /\ Live(p)
    /\ LET fifo == kernel = "fifo" /\ policy = "NORMAL" /\ ~reset
           newPolicy == IF fifo THEN "FIFO" ELSE policy
           newPriority == IF fifo THEN MAX_RT_PRIO \div 2 ELSE priority
       IN /\ Allowed(sp[p], newPolicy, newPriority, Nice(sp[p]), reset)
          /\ Locked(p, newPolicy, newPriority, Nice(sp[p]), reset)
    /\ UNCHANGED <<machine, life, blocked, top, curr, time, call>>

\* sched_setattr with SCHED_NORMAL, which is not replaced; with SCHED_FIFO it does what
\* sched_setscheduler does.
SysSetattr(p, n) ==
    /\ Live(p) /\ Allowed(sp[p], "NORMAL", 0, n, FALSE)
    /\ Locked(p, "NORMAL", 0, n, FALSE)
    /\ UNCHANGED <<machine, life, blocked, top, curr, time, call>>

\* sched_setparam: policy and reset_on_fork are read and the priority is checked.
SysSetparam(p, priority) ==
    /\ call = NoCall /\ Live(p)
    /\ Allowed(sp[p], sp[p].policy, priority, Nice(sp[p]), sp[p].reset)
    /\ call' = [p |-> p, priority |-> priority, oldpolicy |-> sp[p].policy,
                nice |-> Nice(sp[p]), reset |-> sp[p].reset]
    /\ UNCHANGED <<machine, sp, life, blocked, top, rq, curr, time, adjust>>

\* Mutant: the policy is not looked at again under the lock.
PolicyStaleOnce == FALSE

\* oldpolicy != p->policy.
PolicyStale == call.oldpolicy # sp[call.p].policy

\* Mutant: the jump leads behind the checks.
RecheckBehind(s) == TRUE

\* goto recheck: the checks are made again for the policy the task has now.
Recheck(s) == Allowed(s, s.policy, call.priority, call.nice, s.reset)

\* sched_setparam takes the lock; when the policy has changed it starts again.
SetparamLocked ==
    /\ call # NoCall
    /\ LET p == call.p
           s == sp[p]
       IN IF PolicyStale
          THEN /\ call' = IF Recheck(s)
                          THEN [call EXCEPT !.oldpolicy = s.policy, !.reset = s.reset] ELSE NoCall
               /\ UNCHANGED <<sp, rq, adjust>>
          ELSE /\ Locked(p, call.oldpolicy, call.priority, call.nice, call.reset)
               /\ call' = NoCall
    /\ UNCHANGED <<machine, life, blocked, top, curr, time>>

\* rt_mutex_adjust_pi after the locks are released: the owner p waits for, if any, gets
\* its priority anew.
AdjustPi(p) ==
    /\ p \in adjust
    /\ IF blocked[p] = Idle THEN UNCHANGED <<sp, top, rq>>
       ELSE \E w \in TopWaiters(WaitersOf(blocked[p])) : RtMutexSetprio(blocked[p], w)
    /\ adjust' = adjust \ {p}
    /\ UNCHANGED <<machine, life, blocked, curr, time, call>>
--------------------------------------------------------------------------------
TaskStep == \E t \in Tasks :
    \/ \E p \in Tasks : Fork(t, p) \/ Wait(t, p) \/ Block(t, p) \/ Unlock(t, p)
    \/ Exit(t) \/ Yield(t) \/ Wake(t) \/ AdjustPi(t)

CallStep ==
    /\ calls < MaxCalls /\ calls' = calls + 1
    /\ \E p \in Tasks :
        \/ \E policy \in {"NORMAL", "FIFO"}, priority \in RtPriorities \cup {0} :
            \E reset \in BOOLEAN : SysSetscheduler(p, policy, priority, reset)
        \/ \E n \in Nices : SysSetattr(p, n) \/ SetUserNice(p, n)
        \/ \E priority \in RtPriorities \cup {0} : SysSetparam(p, priority)

Next ==
    \/ CallStep
    \/ (Schedule \/ Tick \/ TaskStep \/ SetparamLocked) /\ UNCHANGED calls

Spec == Init /\ [][Next]_vars

\* Tasks that are not there yet may be exchanged.
Symmetry == Permutations(Tasks \ {InitTask})
--------------------------------------------------------------------------------
\* Without CAP_SYS_NICE no call makes a task of the kernel of cfs/ a real-time task or
\* lowers a nice value below that of init.
Unprivileged ==
    kernel = "cfs" /\ ~privileged =>
        \A p \in Tasks : sp[p].policy = "NORMAL" /\ Nice(sp[p]) >= 0 /\ ~rt_prio(sp[p].prio)

\* Everything has its type, the class a task is queued in is the one of its priority,
\* SCHED_FIFO goes with a priority of 1 or more, and nobody without the capability has raised
\* a priority, whatever sched_setscheduler, sched_setparam, nice and boosts do at the same time.
ParamsConsistent ==
    /\ TypeOK /\ Unprivileged
    /\ \A p \in Tasks : Live(p) =>
        /\ sp[p].class = ClassOf(sp[p].prio)
        /\ (sp[p].policy = "FIFO") = (sp[p].rt_priority > 0)

\* A task nobody waits for runs at its own priority: no boost outlives its mutex and none
\* is passed on by fork.
NoBoostLeak ==
    \A p \in Tasks : Live(p) /\ WaitersOf(p) = {} => sp[p].prio = sp[p].normal_prio

\* As long as a real-time task waits for a mutex its owner is at least as urgent, also after
\* sched_setscheduler on either of them, once rt_mutex_adjust_pi is through.
BoostKept ==
    \A w \in Tasks : blocked[w] # Idle /\ rt_prio(sp[w].prio) =>
        \/ sp[blocked[w]].prio <= sp[w].prio
        \/ WaitersOf(blocked[w]) \cap adjust # {}

\* Inherited priorities are there as long as they are needed, and in the kernel of cfs/,
\* where the line of sched_fork is in force, no longer.
BoostExact == BoostKept /\ (kernel = "cfs" => NoBoostLeak)

\* sched_setparam changes no policy, also when another call has changed it since the
\* priority was checked.
SetparamKeepsPolicy ==
    [][(call # NoCall /\ call' = NoCall) => \A p \in Tasks : sp'[p].policy = sp[p].policy]_vars

\* No task that is more urgent than current waits on the runqueue without a reschedule
\* under way, after every change of a priority.
UrgentRuns ==
    \A p \in on_rq : p # curr /\ life[p] = "ready" =>
        need_resched \/ ~Preempts(sp[p]) \/ (curr # Idle /\ life[curr] # "ready")

\* A SCHED_FIFO task that is ready keeps the CPU until it yields or a more urgent one
\* comes, also when a boost ends and others wait at its own priority.
FifoKeepsTurn ==
    [][(curr \in Tasks /\ sp[curr].class = "rt" /\ life[curr] = "ready" /\ ~moved /\ curr' # curr)
        => sp[curr'].prio < sp[curr].prio]_vars

\* The time the kernel of cfs/ prints when a task exits is the time the task has run.
BurstTimeExact ==
    \A p \in Tasks : kernel = "cfs" /\ life[p] = "dead" /\ curr # p => acc[p] = used[p]
================================================================================
