--------------------------------- MODULE Wakeup ---------------------------------
(***************************************************************************)
(* Assignment_4/cfs/core.c: sleeping and waking.  A task that waits sets    *)
(* its state, tests its condition and calls schedule(); whoever makes the   *)
(* condition true calls try_to_wake_up(), which holds the task's pi_lock    *)
(* but takes the lock of the runqueue only where it has to.                 *)
(*                                                                          *)
(* pc[c] is where CPU c is: "run" is code with interrupts enabled, "finish"  *)
(* and "drop" are the end of __schedule, and "lock", "rq_lock", "spin" and   *)
(* "queue" are inside try_to_wake_up, with interrupts disabled.  A lock     *)
(* that is held from one step to the next follows from pc; a lock taken and *)
(* released in one step needs it free.                                      *)
(* Which CPU select_task_rq takes, which task pick_next_task takes and      *)
(* whether a task of the same class preempts are the scheduling classes'    *)
(* decisions, and arbitrary here.                                           *)
(***************************************************************************)
EXTENDS Integers, Sequences, FiniteSets, FiniteSetsExt

CONSTANTS
    Tasks, CPUs, Idle,
    Topologies,     \* ways the CPUs may share last level caches, each a set of sets
    Word,           \* the number of values of the unsigned nr_uninterruptible
    Waiters,        \* bound: the tasks that wait, the others only compute
    Boot            \* the tasks that run at first, the others are to be forked

ASSUME WakeupAssumption ==
    /\ IsFiniteSet(Tasks) /\ IsFiniteSet(CPUs) /\ CPUs # {} /\ Idle \notin Tasks
    /\ \A T \in Topologies : UNION T = CPUs
    /\ Word \in Nat /\ Word > Cardinality(Waiters)
    /\ Boot \subseteq Tasks /\ Waiters \subseteq Tasks

VARIABLES
    \* task_struct
    state, on_rq, on_cpu, cpu, contributes, in_iowait,
    cond,           \* the condition the task waits for is true
    sig,            \* TIF_SIGPENDING
    tpc,            \* where the task is in its own code
    \* the runqueue and what the CPU does
    caches,         \* the topology of this machine, which never changes
    curr, need_resched, nr_uninterruptible, nr_iowait, wake_list,
    wake_q,         \* the wake_q of the code that runs on the CPU
    pc,
    prev, prev_state,       \* local variables of __schedule
    target, mask, migrated, \* arguments and local variables of try_to_wake_up
    drops           \* history: references dropped by finish_task_switch

taskVars == <<state, on_rq, on_cpu, cpu, contributes, in_iowait, cond, sig, tpc>>
rqVars == <<caches, curr, need_resched, nr_uninterruptible, nr_iowait, wake_list, wake_q>>
pcVars == <<pc, prev, prev_state, target, mask, migrated>>
vars == <<taskVars, rqVars, pcVars, drops>>

Sleeping == {"INTERRUPTIBLE", "UNINTERRUPTIBLE"}
States == Sleeping \cup {"RUNNING", "WAKING", "DEAD", "unborn"}
Ttwu == {"rq_lock", "spin", "queue"}

TypeOK ==
    /\ state \in [Tasks -> States]
    /\ {on_rq, on_cpu, contributes, in_iowait, cond, sig} \subseteq [Tasks -> BOOLEAN]
    /\ cpu \in [Tasks -> CPUs]
    /\ tpc \in [Tasks -> {"work", "check", "asleep", "dead"}]
    /\ caches \in Topologies
    /\ {curr, prev} \subseteq [CPUs -> Tasks \cup {Idle}]
    /\ {need_resched, migrated} \subseteq [CPUs -> BOOLEAN]
    /\ nr_uninterruptible \in [CPUs -> 0..(Word - 1)]
    /\ nr_iowait \in [CPUs -> 0..Cardinality(Tasks)]
    /\ wake_list \in [CPUs -> SUBSET (Tasks \X BOOLEAN)]
    /\ \A c \in CPUs : wake_q[c] \in Seq(Tasks) /\ Len(wake_q[c]) <= Cardinality(Tasks)
    /\ pc \in [CPUs -> {"run", "finish", "drop", "lock"} \cup Ttwu]
    /\ prev_state \in [CPUs -> States]
    /\ target \in [CPUs -> Tasks \cup {Idle}]
    /\ mask \in [CPUs -> SUBSET Sleeping]
    /\ drops \in [Tasks -> Nat]

BootCPU == CHOOSE c \in CPUs : TRUE

\* The tasks of Boot are queued on one CPU and nobody runs yet.
Init ==
    /\ state = [t \in Tasks |-> IF t \in Boot THEN "RUNNING" ELSE "unborn"]
    /\ on_rq = [t \in Tasks |-> t \in Boot]
    /\ cpu = [t \in Tasks |-> BootCPU]
    /\ need_resched = [c \in CPUs |-> c = BootCPU]
    /\ on_cpu = [t \in Tasks |-> FALSE]
    /\ contributes = on_cpu /\ in_iowait = on_cpu
    /\ cond = on_cpu /\ sig = on_cpu
    /\ tpc = [t \in Tasks |-> "work"]
    /\ caches \in Topologies
    /\ curr = [c \in CPUs |-> Idle] /\ prev = curr
    /\ nr_uninterruptible = [c \in CPUs |-> 0] /\ nr_iowait = nr_uninterruptible
    /\ wake_list = [c \in CPUs |-> {}] /\ wake_q = [c \in CPUs |-> <<>>]
    /\ pc = [c \in CPUs |-> "run"] /\ prev_state = [c \in CPUs |-> "RUNNING"]
    /\ target = curr /\ mask = [c \in CPUs |-> {}] /\ migrated = [c \in CPUs |-> FALSE]
    /\ drops = [t \in Tasks |-> 0]

RqFree(c) == pc[c] # "finish"
PiFree(p) == \A c \in CPUs : ~(pc[c] \in Ttwu /\ target[c] = p)
Queued(c) == {t \in Tasks : on_rq[t] /\ cpu[t] = c}
\* The local variables of a call that is over have no value any more.
TtwuReturn(c) ==
    /\ pc' = [pc EXCEPT ![c] = "run"]
    /\ target' = [target EXCEPT ![c] = Idle] /\ mask' = [mask EXCEPT ![c] = {}]
    /\ migrated' = [migrated EXCEPT ![c] = FALSE]
ScheduleReturn(c) ==
    /\ pc' = [pc EXCEPT ![c] = "run"]
    /\ prev' = [prev EXCEPT ![c] = Idle] /\ prev_state' = [prev_state EXCEPT ![c] = "RUNNING"]
OnWakelist(c) == {p \in Tasks : \E far \in BOOLEAN : <<p, far>> \in wake_list[c]}
Running(c, t) == pc[c] = "run" /\ curr[c] = t /\ t \in Tasks
--------------------------------------------------------------------------------
\* check_preempt_curr: the idle task is always preempted, another one if its class says so.
CheckPreempt(c) ==
    \E b \in {curr[c] = Idle \/ need_resched[c], TRUE} :
        need_resched' = [need_resched EXCEPT ![c] = b]

\* The tasks ttwu_do_activate subtracts from nr_iowait; a migrated one was subtracted before.
WaitersEnded(woken, far) == Cardinality({p \in woken \ far : in_iowait[p]})

\* Mutant: the state is looked at, which is TASK_WAKING by then.
LoadEndedByState(woken) == {p \in woken : state[p] = "UNINTERRUPTIBLE"}

\* The tasks ttwu_do_activate subtracts from nr_uninterruptible.
LoadEnded(woken) == {p \in woken : contributes[p]}

\* ttwu_do_activate and ttwu_do_wakeup for a set of tasks, those in far with WF_MIGRATED.
\* Nothing reads sched_contributes_to_load again before the next sleep sets it.
DoActivate(c, woken, far) ==
    /\ nr_uninterruptible' = [nr_uninterruptible EXCEPT
            ![c] = (@ - Cardinality(LoadEnded(woken))) % Word]
    /\ nr_iowait' = [nr_iowait EXCEPT ![c] = @ - WaitersEnded(woken, far)]
    /\ contributes' = [t \in Tasks |-> contributes[t] /\ t \notin woken]
    /\ on_rq' = [t \in Tasks |-> t \in woken \/ on_rq[t]]
    /\ state' = [t \in Tasks |-> IF t \in woken THEN "RUNNING" ELSE state[t]]
    /\ CheckPreempt(c)
--------------------------------------------------------------------------------
(* The task's own code *)

\* set_current_state in a wait loop.
SetState(c, t, s) ==
    /\ Running(c, t) /\ tpc[t] = "work" /\ t \in Waiters
    /\ state' = [state EXCEPT ![t] = s]
    /\ tpc' = [tpc EXCEPT ![t] = "check"]
    /\ UNCHANGED <<on_rq, on_cpu, cpu, contributes, in_iowait, cond, sig,
                   rqVars, pcVars, drops>>

\* The condition holds: __set_current_state(TASK_RUNNING), and the loop is left.
LeaveLoop(c, t) ==
    /\ Running(c, t) /\ tpc[t] = "check" /\ cond[t]
    /\ state' = [state EXCEPT ![t] = "RUNNING"]
    /\ cond' = [cond EXCEPT ![t] = FALSE]
    /\ tpc' = [tpc EXCEPT ![t] = "work"]
    /\ UNCHANGED <<on_rq, on_cpu, cpu, contributes, in_iowait, sig,
                   rqVars, pcVars, drops>>

\* schedule or io_schedule has returned; io_schedule_finish resets in_iowait.
Returned(c, t) ==
    /\ Running(c, t) /\ tpc[t] = "asleep"
    /\ in_iowait' = [in_iowait EXCEPT ![t] = FALSE]
    /\ sig' = [sig EXCEPT ![t] = FALSE]
    /\ tpc' = [tpc EXCEPT ![t] = "work"]
    /\ UNCHANGED <<state, on_rq, on_cpu, cpu, contributes, cond,
                   rqVars, pcVars, drops>>

\* wake_up_new_task, for a child that sched_fork has set up: on the CPU select_task_rq takes.
WakeUpNewTask(c, t, p, d) ==
    /\ Running(c, t) /\ tpc[t] = "work" /\ state[p] = "unborn" /\ RqFree(d)
    /\ state' = [state EXCEPT ![p] = "RUNNING"]
    /\ cpu' = [cpu EXCEPT ![p] = d]
    /\ on_rq' = [on_rq EXCEPT ![p] = TRUE]
    /\ CheckPreempt(d)
    /\ UNCHANGED <<on_cpu, contributes, in_iowait, cond, sig, tpc, caches, curr,
                   nr_uninterruptible, nr_iowait, wake_list, wake_q, pcVars, drops>>

\* Mutant: a task counts as queued until its wakeup is over.
InWakeQLong(p) ==
    \E c \in CPUs : \/ p \in {wake_q[c][i] : i \in 1..Len(wake_q[c])}
                    \/ pc[c] # "run" /\ target[c] = p

\* task->wake_q.next is set: the task is in somebody's wake_q.
InWakeQ(p) == \E c \in CPUs : p \in {wake_q[c][i] : i \in 1..Len(wake_q[c])}

\* release_task: the parent has waited for p, and the next fork may use its task_struct;
\* a wakeup under way and a wake_q hold references of their own.
ReleaseTask(c, t, p) ==
    /\ Running(c, t) /\ tpc[t] = "work" /\ state[p] = "DEAD" /\ drops[p] > 0
    /\ ~InWakeQ(p) /\ \A d \in CPUs : target[d] # p
    /\ state' = [state EXCEPT ![p] = "unborn"] /\ tpc' = [tpc EXCEPT ![p] = "work"]
    /\ cond' = [cond EXCEPT ![p] = FALSE] /\ sig' = [sig EXCEPT ![p] = FALSE]
    /\ drops' = [drops EXCEPT ![p] = 0]
    /\ UNCHANGED <<on_rq, on_cpu, cpu, contributes, in_iowait, rqVars, pcVars>>

\* set_special_state takes pi_lock, against a wakeup that has seen an earlier state.
SetSpecialState(p) == PiFree(p)

\* do_task_dead up to its __schedule; init does not exit.
DoTaskDead(c, t) ==
    /\ Running(c, t) /\ tpc[t] = "work" /\ t \notin Boot /\ SetSpecialState(t)
    /\ state' = [state EXCEPT ![t] = "DEAD"]
    /\ tpc' = [tpc EXCEPT ![t] = "dead"]
    /\ UNCHANGED <<on_rq, on_cpu, cpu, contributes, in_iowait, cond, sig,
                   rqVars, pcVars, drops>>
--------------------------------------------------------------------------------
(* __schedule *)

\* signal_pending_state.
SignalPending(t) == sig[t] /\ state[t] = "INTERRUPTIBLE"

\* Whether __schedule takes prev off the runqueue.
Sleeps(t, preempt) ==
    t # Idle /\ ~preempt /\ state[t] # "RUNNING" /\ ~SignalPending(t)

\* pick_next_task: a queued task, by the choice of its class, or the idle task.
PickNextTask(queued) == IF queued = {} THEN {Idle} ELSE queued

\* rq->curr, prepare_task and context_switch; the rest follows on the stack of next.
ContextSwitch(c, p, next) ==
    /\ curr' = [curr EXCEPT ![c] = next]
    /\ on_cpu' = [t \in Tasks |-> t = next \/ on_cpu[t]]
    /\ IF next = p THEN UNCHANGED <<pc, prev>>
       ELSE pc' = [pc EXCEPT ![c] = "finish"] /\ prev' = [prev EXCEPT ![c] = p]

\* __schedule with the lock of the runqueue: prev's state is read once, prev is
\* dequeued if it sleeps and counted if it waits for I/O.
DoSchedule(c, p, preempt, io) ==
    LET off == Sleeps(p, preempt)
        load == off /\ state[p] = "UNINTERRUPTIBLE"
        queued == {t \in Queued(c) : ~(off /\ t = p)}
    IN /\ on_rq' = [t \in Tasks |-> on_rq[t] /\ ~(off /\ t = p)]
       /\ contributes' = [t \in Tasks |-> IF off /\ t = p THEN load ELSE contributes[t]]
       /\ nr_uninterruptible' = [nr_uninterruptible EXCEPT ![c] = IF load THEN (@ + 1) % Word ELSE @]
       /\ nr_iowait' = [nr_iowait EXCEPT ![c] = IF off /\ io THEN @ + 1 ELSE @]
       /\ state' = [t \in Tasks |-> IF t = p /\ ~preempt /\ SignalPending(p)
                                    THEN "RUNNING" ELSE state[t]]
       /\ need_resched' = [need_resched EXCEPT ![c] = FALSE]
       /\ \E next \in PickNextTask(queued) : ContextSwitch(c, p, next)
       /\ UNCHANGED <<cpu, cond, sig, caches, wake_list, wake_q, prev_state, target, mask,
                      migrated, drops>>

\* The waiter goes to sleep, with schedule or with io_schedule.
Sleep(c, t, io) ==
    /\ Running(c, t) /\ tpc[t] = "check" /\ ~cond[t]
    /\ in_iowait' = [in_iowait EXCEPT ![t] = io]
    /\ tpc' = [tpc EXCEPT ![t] = "asleep"]
    /\ DoSchedule(c, t, FALSE, io)

\* do_task_dead's __schedule.
LastSchedule(c, t) ==
    /\ Running(c, t) /\ tpc[t] = "dead"
    /\ DoSchedule(c, t, FALSE, in_iowait[t])
    /\ UNCHANGED <<in_iowait, tpc>>

\* preempt_schedule of a task, schedule_idle of the idle task.  do_exit disables
\* preemption before it calls do_task_dead.
Resched(c) ==
    /\ pc[c] = "run" /\ need_resched[c]
    /\ curr[c] # Idle => tpc[curr[c]] # "dead"
    /\ DoSchedule(c, curr[c], curr[c] # Idle, FALSE)
    /\ UNCHANGED <<in_iowait, tpc>>

\* finish_task_switch: prev->state is read, finish_task and finish_lock_switch.
FinishTask(c) ==
    /\ pc[c] = "finish"
    /\ prev_state' = [prev_state EXCEPT ![c] =
                        IF prev[c] = Idle THEN "RUNNING" ELSE state[prev[c]]]
    /\ on_cpu' = [t \in Tasks |-> on_cpu[t] /\ t # prev[c]]
    /\ pc' = [pc EXCEPT ![c] = "drop"]
    /\ UNCHANGED <<state, on_rq, cpu, contributes, in_iowait, cond, sig, tpc,
                   rqVars, prev, target, mask, migrated, drops>>

\* Mutant: the state is read after finish_task.
PrevDeadLate(c) == prev[c] # Idle /\ state[prev[c]] = "DEAD"

\* prev_state == TASK_DEAD.
PrevDead(c) == prev_state[c] = "DEAD"

\* The end of finish_task_switch: a dead task's reference is dropped.
PutTask(c) ==
    /\ pc[c] = "drop"
    /\ drops' = [t \in Tasks |-> IF t = prev[c] /\ PrevDead(c) THEN drops[t] + 1 ELSE drops[t]]
    /\ ScheduleReturn(c)
    /\ UNCHANGED <<taskVars, rqVars, target, mask, migrated>>
--------------------------------------------------------------------------------
(* try_to_wake_up *)

\* The caller makes the condition true, or the signal pending, and calls
\* try_to_wake_up; for current no lock is taken.
Begin(c, p, states) ==
    IF p = curr[c]
    THEN /\ state' = [state EXCEPT ![p] = IF @ \in states THEN "RUNNING" ELSE @]
         /\ UNCHANGED <<pc, target, mask>>
    ELSE /\ pc' = [pc EXCEPT ![c] = "lock"]
         /\ target' = [target EXCEPT ![c] = p] /\ mask' = [mask EXCEPT ![c] = states]
         /\ UNCHANGED state

\* Nobody waits for an event any more on behalf of a task that is past do_task_dead.
Alive(p) == state[p] # "unborn" /\ tpc[p] # "dead"

\* An interrupt handler or the current task calls wake_up_process.
WakeUpProcess(c, p) ==
    /\ pc[c] = "run" /\ Alive(p) /\ ~cond[p]
    /\ cond' = [cond EXCEPT ![p] = TRUE]
    /\ Begin(c, p, Sleeping)
    /\ UNCHANGED <<on_rq, on_cpu, cpu, contributes, in_iowait, sig, tpc,
                   rqVars, prev, prev_state, migrated, drops>>

\* A signal: wake_up_state with TASK_INTERRUPTIBLE.
WakeUpState(c, p) ==
    /\ pc[c] = "run" /\ Alive(p) /\ ~sig[p]
    /\ sig' = [sig EXCEPT ![p] = TRUE]
    /\ Begin(c, p, {"INTERRUPTIBLE"})
    /\ UNCHANGED <<on_rq, on_cpu, cpu, contributes, in_iowait, cond, tpc,
                   rqVars, prev, prev_state, migrated, drops>>

\* wake_q_add: a task that is queued already is left to whoever has queued it.
WakeQAdd(c, p) ==
    /\ pc[c] = "run" /\ Alive(p) /\ ~cond[p]
    /\ cond' = [cond EXCEPT ![p] = TRUE]
    /\ wake_q' = IF InWakeQ(p) THEN wake_q ELSE [wake_q EXCEPT ![c] = Append(@, p)]
    /\ UNCHANGED <<state, on_rq, on_cpu, cpu, contributes, in_iowait, sig, tpc, caches, curr,
                   need_resched, nr_uninterruptible, nr_iowait, wake_list, pcVars, drops>>

\* One turn of wake_up_q: the node is cleared, then the task is woken.
WakeUpQ(c) ==
    /\ pc[c] = "run" /\ wake_q[c] # <<>>
    /\ wake_q' = [wake_q EXCEPT ![c] = Tail(@)]
    /\ Begin(c, Head(wake_q[c]), Sleeping)
    /\ UNCHANGED <<on_rq, on_cpu, cpu, contributes, in_iowait, cond, sig, tpc, caches, curr,
                   need_resched, nr_uninterruptible, nr_iowait, wake_list, prev, prev_state,
                   migrated, drops>>

\* Mutant: on_rq is not read again under the lock of the runqueue.
StillQueuedOnce(p) == TRUE

\* task_on_rq_queued.
StillQueued(p) == on_rq[p]

\* cpus_share_cache.
ShareCache(c, d) == \E k \in caches : {c, d} \subseteq k

\* ttwu_queue_cond.
QueueCond(c, d, onCpu) ==
    ~ShareCache(c, d) \/ (onCpu /\ Cardinality(Queued(d)) <= 1)

\* __ttwu_queue_wakelist: p, and sched_remote_wakeup, is left to the IPI handler of CPU d.
QueueWakelist(c, p, d, far) ==
    /\ wake_list' = [wake_list EXCEPT ![d] = @ \cup {<<p, far>>}]
    /\ TtwuReturn(c)

\* p->state = TASK_WAKING for a task that is off the runqueue, and the wakelist of the
\* CPU that is still switching away from it.
Waking(c, p) ==
    /\ state' = [state EXCEPT ![p] = "WAKING"]
    /\ IF on_cpu[p] /\ QueueCond(c, cpu[p], TRUE)
       THEN QueueWakelist(c, p, cpu[p], FALSE)
       ELSE /\ pc' = [pc EXCEPT ![c] = "spin"]
            /\ UNCHANGED <<wake_list, target, mask, migrated>>

\* pi_lock is taken, p->state tested and p->on_rq read.
TtwuLock(c) ==
    /\ pc[c] = "lock" /\ PiFree(target[c])
    /\ LET p == target[c]
       IN CASE state[p] \notin mask[c] -> TtwuReturn(c) /\ UNCHANGED <<state, wake_list>>
            [] state[p] \in mask[c] /\ on_rq[p] ->
                /\ pc' = [pc EXCEPT ![c] = "rq_lock"]
                /\ UNCHANGED <<state, wake_list, target, mask, migrated>>
            [] OTHER -> Waking(c, p)
    /\ UNCHANGED <<on_rq, on_cpu, cpu, contributes, in_iowait, cond, sig, tpc, caches, curr,
                   need_resched, nr_uninterruptible, nr_iowait, wake_q, prev, prev_state, drops>>

\* ttwu_runnable: with the lock of the runqueue a task that is still queued only gets
\* its state back; otherwise schedule was faster.
TtwuRunnable(c) ==
    /\ pc[c] = "rq_lock" /\ RqFree(cpu[target[c]])
    /\ LET p == target[c]
       IN IF StillQueued(p)
          THEN /\ state' = [state EXCEPT ![p] = "RUNNING"]
               /\ CheckPreempt(cpu[p])
               /\ TtwuReturn(c) /\ UNCHANGED wake_list
          ELSE Waking(c, p) /\ UNCHANGED need_resched
    /\ UNCHANGED <<on_rq, on_cpu, cpu, contributes, in_iowait, cond, sig, tpc, caches, curr,
                   nr_uninterruptible, nr_iowait, wake_q, prev, prev_state, drops>>

\* Mutant: the waker does not wait.
SwitchedOutAtOnce(p) == TRUE

\* smp_cond_load_acquire(&p->on_cpu, !VAL).
SwitchedOut(p) == ~on_cpu[p]

\* The wait for on_cpu, select_task_rq and set_task_cpu.
TtwuSelect(c, d) ==
    /\ pc[c] = "spin" /\ SwitchedOut(target[c])
    /\ LET p == target[c]
       IN /\ nr_iowait' = [nr_iowait EXCEPT
                ![cpu[p]] = IF d # cpu[p] /\ in_iowait[p] THEN @ - 1 ELSE @]
          /\ migrated' = [migrated EXCEPT ![c] = d # cpu[p]]
          /\ cpu' = [cpu EXCEPT ![p] = d]
    /\ pc' = [pc EXCEPT ![c] = "queue"]
    /\ UNCHANGED <<state, on_rq, on_cpu, contributes, in_iowait, cond, sig, tpc,
                   caches, curr, need_resched, nr_uninterruptible, wake_list, wake_q,
                   prev, prev_state, target, mask, drops>>

\* ttwu_queue, through the wakelist.
TtwuQueueRemote(c) ==
    /\ pc[c] = "queue" /\ QueueCond(c, cpu[target[c]], FALSE)
    /\ QueueWakelist(c, target[c], cpu[target[c]], migrated[c])
    /\ UNCHANGED <<state, on_rq, on_cpu, cpu, contributes, in_iowait, cond, sig, tpc,
                   caches, curr, need_resched, nr_uninterruptible, nr_iowait, wake_q,
                   prev, prev_state, drops>>

\* ttwu_queue, with the lock of p's new runqueue.
TtwuQueueLocal(c) ==
    /\ pc[c] = "queue" /\ ~QueueCond(c, cpu[target[c]], FALSE) /\ RqFree(cpu[target[c]])
    /\ DoActivate(cpu[target[c]], {target[c]}, IF migrated[c] THEN {target[c]} ELSE {})
    /\ TtwuReturn(c)
    /\ UNCHANGED <<on_cpu, cpu, in_iowait, cond, sig, tpc,
                   caches, curr, wake_list, wake_q, prev, prev_state, drops>>

\* sched_ttwu_pending, the handler of the IPI.
TtwuPending(c) ==
    /\ pc[c] = "run" /\ wake_list[c] # {}
    /\ DoActivate(c, OnWakelist(c), {p \in Tasks : <<p, TRUE>> \in wake_list[c]})
    /\ wake_list' = [wake_list EXCEPT ![c] = {}]
    /\ UNCHANGED <<on_cpu, cpu, in_iowait, cond, sig, tpc,
                   caches, curr, wake_q, pcVars, drops>>

\* scheduler_tick: task_tick of curr's class may ask for another task.
SchedulerTick(c) ==
    /\ pc[c] = "run" /\ curr[c] # Idle /\ Cardinality(Queued(c)) > 1
    /\ need_resched' = [need_resched EXCEPT ![c] = TRUE]
    /\ UNCHANGED <<taskVars, caches, curr, nr_uninterruptible, nr_iowait, wake_list, wake_q,
                   pcVars, drops>>
--------------------------------------------------------------------------------
TaskStep(c) ==
    \E t \in Tasks :
        \/ \E s \in Sleeping : SetState(c, t, s)
        \/ LeaveLoop(c, t)
        \/ Returned(c, t)
        \/ \E p \in Tasks, d \in CPUs : WakeUpNewTask(c, t, p, d)
        \/ \E p \in Tasks : ReleaseTask(c, t, p)
        \/ DoTaskDead(c, t)
        \/ \E io \in {FALSE, state[t] = "UNINTERRUPTIBLE"} : Sleep(c, t, io)
        \/ LastSchedule(c, t)

SwitchStep(c) == FinishTask(c) \/ PutTask(c)

WakeStep(c) ==
    \/ TtwuLock(c) \/ TtwuRunnable(c)
    \/ \E d \in CPUs : TtwuSelect(c, d)
    \/ TtwuQueueRemote(c) \/ TtwuQueueLocal(c)

Event(c) ==
    \/ \E p \in Waiters : WakeUpProcess(c, p) \/ WakeUpState(c, p) \/ WakeQAdd(c, p)
    \/ SchedulerTick(c)

Next == \E c \in CPUs :
    TaskStep(c) \/ Resched(c) \/ SwitchStep(c) \/ WakeStep(c) \/ Event(c)
        \/ WakeUpQ(c) \/ TtwuPending(c)

\* A CPU that is inside __schedule or try_to_wake_up goes on.  Spinlocks are handed out
\* in order, and interrupts and wake_q's wait only for the CPU to be where they are
\* enabled: a step that is possible again and again is taken.
Fairness == \A c \in CPUs :
    /\ WF_vars(SwitchStep(c))
    /\ SF_vars(WakeStep(c))
    /\ SF_vars(TtwuPending(c))
    /\ SF_vars(WakeUpQ(c))

Spec == Init /\ [][Next]_vars /\ Fairness
--------------------------------------------------------------------------------
Busy(c) == {curr[c]} \cup (IF pc[c] = "finish" THEN {prev[c]} ELSE {})

\* What the WARN_ONs of sched_ttwu_pending and ttwu_queue_wakelist are about: no CPU
\* queues a task on its own wakelist, and when the IPI is handled the task has been
\* switched out and belongs to the CPU.
WakelistInOrder ==
    /\ \A c \in CPUs, p \in Tasks : p \in OnWakelist(c) =>
        /\ cpu[p] = c /\ state[p] = "WAKING" /\ ~on_rq[p]
        /\ on_cpu[p] => pc[c] = "finish"
    /\ \A c \in CPUs : pc[c] \in {"lock", "rq_lock"} /\ ~on_rq[target[c]] /\ on_cpu[target[c]]
            => cpu[target[c]] # c

\* Two CPUs never use a task's stack at once, the CPU that still switches away from it
\* included: try_to_wake_up waits for on_cpu before it queues the task elsewhere, or leaves
\* the task to the wakelist of that CPU, whose order is kept.
SingleStack ==
    /\ \A t \in Tasks : Cardinality({c \in CPUs : t \in Busy(c)}) <= 1
    /\ WakelistInOrder

\* Someone is on the way to wake p: in try_to_wake_up with a mask that fits, or later.
WakeupUnderway(p, m) ==
    \/ \E c \in CPUs : /\ target[c] = p
                       /\ \/ pc[c] = "lock" /\ m \in mask[c]
                          \/ pc[c] \in Ttwu
    \/ \E c \in CPUs : p \in OnWakelist(c)

\* An idle CPU with a task on its runqueue has been told to reschedule.
IdleWoken == \A c \in CPUs : curr[c] = Idle /\ pc[c] = "run" /\ Queued(c) # {} => need_resched[c]

\* A task that sleeps although its condition holds, or an interruptible one with a
\* signal, is being woken: no order of set_current_state, the test, schedule and
\* try_to_wake_up or wake_q_add loses a wakeup, and no idle CPU leaves it on its runqueue.
NoLostWakeup ==
    /\ IdleWoken
    /\ \A p \in Tasks : (state[p] \in Sleeping \cup {"WAKING"} /\ ~on_rq[p]) =>
            /\ cond[p] => WakeupUnderway(p, state[p]) \/ InWakeQ(p)
            /\ sig[p] /\ state[p] # "UNINTERRUPTIBLE" => WakeupUnderway(p, "INTERRUPTIBLE")

\* A task that sleeps although its condition holds gets back on a runqueue.
Wakes == \A p \in Waiters :
    (state[p] \in Sleeping \cup {"WAKING"} /\ ~on_rq[p] /\ cond[p]) ~> on_rq[p]

\* A task that has called do_task_dead never gets another state, whatever wakeup was under
\* way; the reference it has as "current" is dropped once, and only for the dead.
DeadOnce == \A t \in Tasks :
    /\ tpc[t] = "dead" => state[t] = "DEAD"
    /\ drops[t] <= 1 /\ (drops[t] = 1 => state[t] = "DEAD")

\* nr_iowait counts the tasks that sleep in io_schedule and were last on the runqueue,
\* whichever CPU wakes them and wherever they go.
IowaitExact == \A c \in CPUs :
    nr_iowait[c] = Cardinality({t \in Tasks :
        /\ in_iowait[t] /\ ~on_rq[t] /\ cpu[t] = c
        /\ ~\E d \in CPUs : pc[d] = "queue" /\ target[d] = t /\ migrated[d]
        /\ ~\E d \in CPUs : <<t, TRUE>> \in wake_list[d]})

\* The sum of nr_uninterruptible over all runqueues, in the arithmetic of unsigned
\* numbers, is the number of tasks asleep that contribute to the load, although a
\* task is added on one runqueue and subtracted on another.
LoadExact ==
    MapThenSumSet(LAMBDA c : nr_uninterruptible[c], CPUs) % Word
        = Cardinality({t \in Tasks : contributes[t] /\ ~on_rq[t]})

\* Everything has its type, and both counters are exact.
CountersExact == TypeOK /\ IowaitExact /\ LoadExact
================================================================================
