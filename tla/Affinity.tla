-------------------------------- MODULE Affinity --------------------------------
(***************************************************************************)
(* Assignment_4/cfs/core.c (the same code is in fifo/core.c): where a task  *)
(* may run.  Callers of set_cpus_allowed_ptr change the mask of one task p, *)
(* which meanwhile runs, sleeps, is woken and disables migration, while     *)
(* CPUs are taken down and brought up again.  A call returns when p is on a *)
(* CPU of its mask; the stopper of a CPU moves p when it is running.        *)
(*                                                                          *)
(* What is done under p->pi_lock and a runqueue lock is one step; what the  *)
(* code does after it has released them (stop_one_cpu_nowait, complete_all) *)
(* is a step of its own.  The stopper, workqueues, cpusets and the hotplug  *)
(* state machine are external.  All CPUs are of one node.                   *)
(***************************************************************************)
EXTENDS Naturals, Sequences, FiniteSets, TLC

CONSTANTS
    CPUs, Callers, None,
    HotCPUs,        \* the CPUs that can be taken down
    MaxNest         \* bound: nesting of migrate_disable

ASSUME AffinityAssumption ==
    /\ CPUs # {} /\ HotCPUs \subseteq CPUs /\ IsFiniteSet(CPUs) /\ IsFiniteSet(Callers)
    /\ None \notin CPUs \cup Callers /\ MaxNest \in Nat \ {0}

VARIABLES
    kthread,        \* PF_KTHREAD of p
    cpu,            \* task_cpu(p)
    on_rq,          \* "queued", "asleep", or "waking": on the wakelist of its CPU
    mask,           \* p->cpus_mask
    pin,            \* p->cpus_ptr = cpumask_of(pin), or None: it points to cpus_mask
    disabled,       \* p->migration_disabled
    mdf_push,       \* MDF_PUSH
    pending,        \* p->migration_pending: the caller that owns the request, or None
    enabling,       \* what migrate_enable does after the lock, or None
    run,            \* what runs on a CPU: "p", "idle", "stop", "hotplug" or nothing: "off"
    works,          \* the queue of the stopper of a CPU
    hand,           \* what a stopper does after the lock, or None
    call,           \* a caller: where it is, and in which request it takes part
    req,            \* struct set_affinity_pending of a caller
    active, online, balance_push, push_busy, nr_pinned, rq_online,
    hp,             \* the CPU that is taken down or brought up, and how far that is
    tick, twork,    \* the state of the remote tick of a CPU, and its work items
    warn,           \* the WARN_ONs and BUG_ONs met
    known           \* history: the races with hotplug and migrate_disable the code has lost

p_ == <<kthread, cpu, on_rq, mask, pin, disabled, mdf_push, pending, enabling>>
cpus == <<active, online, balance_push, nr_pinned, rq_online, hp, tick, twork>>
vars == <<p_, run, works, hand, call, req, cpus, push_busy, warn, known>>

\* struct cpu_stop_work: that of a request, or the ones of the CPUs.
Works == [kind : {"migrate"}, of : Callers] \cup [kind : {"exec"}, of : CPUs]
            \cup [kind : {"push", "balance"}, of : {None}]
Work(kind, of) == [kind |-> kind, of |-> of]
Afterwards == [do : {"complete", "requeue"}, of : Callers]
Enabling == [stop : Callers \cup {None}, done : Callers \cup {None}, push : BOOLEAN]
NoRequest == [refs |-> 0, stop_pending |-> FALSE, done |-> FALSE]
Hotplug == {"none", "inactive", "pushing", "rq_offline", "wait", "sleep", "empty", "down", "up"}

Warnings == {"set_task_cpu: offline", "set_task_cpu: migration disabled",
             "select_fallback_rq: no CPU", "migration_cpu_stop: no stop_pending",
             "affine_move_task: no pending", "affine_move_task: stop_pending", "sched_cpu_dying",
             "sched_tick_start", "sched_tick_stop", "sched_tick_remote"}

Settled == [cpu |-> None, pc |-> "none"]

\* None stands for no CPU, no caller and nothing left to do.
ASSUME NoneAssumption == None \notin Afterwards \cup Enabling

TypeOK ==
    /\ kthread \in BOOLEAN /\ cpu \in CPUs /\ on_rq \in {"queued", "asleep", "waking"}
    /\ mask \in (SUBSET CPUs) \ {{}} /\ pin \in CPUs \cup {None}
    /\ disabled \in 0..MaxNest /\ mdf_push \in BOOLEAN
    /\ pending \in Callers \cup {None}
    /\ enabling \in {None} \cup Enabling
    /\ run \in [CPUs -> {"p", "idle", "stop", "hotplug", "off"}]
    /\ works \in [CPUs -> Seq(Works)]
    /\ hand \in [CPUs -> Afterwards \cup {None}]
    /\ call \in [Callers -> [pc : {"idle", "stop", "complete", "wait", "refs"},
                             on : Callers \cup {None}, cpu : CPUs \cup {None}, waits : BOOLEAN]]
    /\ req \in [Callers -> [refs : 0..Cardinality(Callers), stop_pending : BOOLEAN, done : BOOLEAN]]
    /\ {active, online, balance_push, push_busy, rq_online} \subseteq SUBSET CPUs
    /\ nr_pinned \in [CPUs -> 0..1]
    /\ hp \in [cpu : CPUs \cup {None}, pc : Hotplug]
    /\ tick \in [CPUs -> {"OFFLINE", "OFFLINING", "RUNNING"}] /\ twork \in [CPUs -> 0..2]
    /\ warn \subseteq Warnings /\ known \subseteq {"outside", "pinned", "refused"}

cpus_ptr == IF pin = None THEN mask ELSE {pin}
\* task_running, by way of p->on_cpu.
Running == \E c \in CPUs : run[c] = "p"
NotCalling == [pc |-> "idle", on |-> None, cpu |-> None, waits |-> FALSE]

Init ==
    /\ kthread \in BOOLEAN
    /\ cpu \in CPUs /\ on_rq = "queued" /\ mask = CPUs /\ pin = None
    /\ disabled = 0 /\ mdf_push = FALSE /\ pending = None /\ enabling = None
    /\ run = [c \in CPUs |-> IF c = cpu THEN "p" ELSE "idle"]
    /\ works = [c \in CPUs |-> <<>>] /\ hand = [c \in CPUs |-> None]
    /\ call = [c \in Callers |-> NotCalling] /\ req = [c \in Callers |-> NoRequest]
    /\ active = CPUs /\ online = CPUs /\ rq_online = CPUs
    /\ balance_push = {} /\ push_busy = {}
    /\ nr_pinned = [c \in CPUs |-> 0]
    /\ hp = Settled
    /\ tick = [c \in CPUs |-> IF c \in HotCPUs THEN "RUNNING" ELSE "OFFLINE"]
    /\ twork = [c \in CPUs |-> IF c \in HotCPUs THEN 1 ELSE 0]
    /\ warn = {} /\ known = {}

\* stop_one_cpu_nowait: the stopper of a CPU that is offline refuses the work.
StopOneCpu(c, w) ==
    /\ works' = IF c \in online THEN [works EXCEPT ![c] = Append(@, w)] ELSE works
    /\ known' = IF c \in online THEN known ELSE known \cup {"refused"}

Warn(conditions) == warn' = warn \cup conditions
--------------------------------------------------------------------------------
(* Which CPU *)

\* is_cpu_allowed.
Allowed(c, ptr) ==
    /\ c \in ptr
    /\ CASE disabled > 0 -> c \in online
         [] disabled = 0 /\ ~kthread -> c \in active
         [] OTHER -> c \in online \ balance_push

\* select_fallback_rq: the CPUs it may return, and the mask p then has.
SelectFallbackRq ==
    LET near == active \cap cpus_ptr
        allowed == {c \in CPUs : Allowed(c, cpus_ptr)}
        possible == {c \in CPUs : Allowed(c, IF pin = None THEN CPUs ELSE {pin})}
    IN CASE near # {} -> [to : near, mask : {mask}]
         [] near = {} /\ allowed # {} -> [to : allowed, mask : {mask}]
         [] OTHER -> [to : possible, mask : {CPUs}]

\* select_task_rq, with any choice of the scheduling class.
SelectTaskRq ==
    LET chosen == IF disabled = 0 /\ Cardinality(mask) > 1 THEN mask \cup {cpu} ELSE cpus_ptr
    IN [to : {c \in chosen : Allowed(c, cpus_ptr)}, mask : {mask}] \cup
       (IF \A c \in chosen : Allowed(c, cpus_ptr) THEN {} ELSE SelectFallbackRq)

\* set_task_cpu and its warnings.
SetTaskCpu(c) ==
    /\ cpu' = c
    /\ Warn({w \in {"set_task_cpu: offline", "set_task_cpu: migration disabled"} :
                \/ w = "set_task_cpu: offline" /\ c \notin online
                \/ w = "set_task_cpu: migration disabled" /\ disabled > 0})

\* __migrate_task: move_queued_task, unless the affinity has changed again.
MigrateTask(c) ==
    IF Allowed(c, cpus_ptr) THEN SetTaskCpu(c) ELSE UNCHANGED <<cpu, warn>>
--------------------------------------------------------------------------------
(* The scheduler and the stopper *)

\* __schedule picks the stopper, then the hotplug thread, then p.
PickNextTask(c, queued) ==
    CASE works[c] # <<>> \/ hand[c] # None -> "stop"
      [] works[c] = <<>> /\ hand[c] = None /\ hp = [cpu |-> c, pc |-> "wait"] -> "hotplug"
      [] OTHER -> IF queued THEN "p" ELSE "idle"

\* balance_push, the balance callback of a CPU that goes down: a p that is not pinned is
\* pushed away, and when nothing is left the hotplug thread is woken.
PushedAway(c, next) == c \in balance_push /\ next = "p" /\ disabled = 0
IdleWakes(c, next) ==
    /\ c \in balance_push /\ next = "idle" /\ nr_pinned[c] = 0
    /\ hp = [cpu |-> c, pc |-> "sleep"]

BalancePush(c, next) ==
    /\ IF PushedAway(c, next) THEN StopOneCpu(c, Work("balance", None)) ELSE UNCHANGED <<works, known>>
    /\ hp' = IF IdleWakes(c, next) THEN [hp EXCEPT !.pc = "wait"] ELSE hp

\* __schedule on c.  p goes to sleep, or is preempted; migrate_disable_switch pins it when
\* it is switched out.  After balance_push the loop of schedule goes on to the stopper.
Schedule(c) ==
    /\ run[c] = "p" => enabling = None
    /\ run[c] = "stop" => works[c] = <<>> /\ hand[c] = None
    /\ run[c] = "hotplug" => hp # [cpu |-> c, pc |-> "wait"]
    /\ run[c] # "off"
    /\ \E sleeps \in {FALSE, run[c] = "p"} :
        LET queued == on_rq = "queued" /\ cpu = c /\ ~sleeps
            next == PickNextTask(c, queued)
        IN /\ run[c] = next => PushedAway(c, next)
           /\ run' = [run EXCEPT ![c] = IF PushedAway(c, next) THEN "stop" ELSE next]
           /\ on_rq' = IF sleeps THEN "asleep" ELSE on_rq
           /\ pin' = IF run[c] = "p" /\ next # "p" /\ disabled > 0 /\ pin = None THEN c ELSE pin
           /\ BalancePush(c, next)
    /\ UNCHANGED <<kthread, cpu, mask, disabled, mdf_push, pending, enabling, hand, call, req,
                   active, online, balance_push, nr_pinned, rq_online, tick, twork, push_busy, warn>>

\* try_to_wake_up; a CPU that is not active is not asked to enqueue p itself.
TryToWakeUp ==
    /\ on_rq = "asleep"
    /\ \E s \in SelectTaskRq :
        /\ mask' = s.mask
        /\ IF s.to # cpu THEN SetTaskCpu(s.to) ELSE UNCHANGED <<cpu, warn>>
        /\ \E w \in {"queued"} \cup (IF s.to \in active THEN {"waking"} ELSE {}) : on_rq' = w
    /\ UNCHANGED <<kthread, pin, disabled, mdf_push, pending, enabling, run, works, hand, call,
                   req, cpus, push_busy, known>>

\* select_fallback_rq finds no CPU: BUG.
NoFallback ==
    /\ on_rq = "asleep" /\ SelectTaskRq = {}
    /\ Warn({"select_fallback_rq: no CPU"})
    /\ UNCHANGED <<p_, run, works, hand, call, req, cpus, push_busy, known>>

\* sched_ttwu_pending.
TtwuPending ==
    /\ on_rq = "waking" /\ on_rq' = "queued"
    /\ UNCHANGED <<kthread, cpu, mask, pin, disabled, mdf_push, pending, enabling, run, works,
                   hand, call, req, cpus, push_busy, warn, known>>

\* sched_exec: p asks the stopper of its CPU to move it to another one.
SchedExec(dest) ==
    /\ run[cpu] = "p" /\ enabling = None /\ disabled = 0
    /\ dest \in (mask \cap active) \ {cpu} /\ works[cpu] = <<>>
    /\ StopOneCpu(cpu, Work("exec", dest))
    /\ UNCHANGED <<p_, run, hand, call, req, cpus, push_busy, warn>>

\* migrate_swap_stop: p and a task of another CPU change places.
MigrateSwap(dest) ==
    /\ dest # cpu /\ {cpu, dest} \subseteq active /\ dest \in cpus_ptr
    /\ run[cpu] # "p" /\ on_rq = "queued"
    /\ SetTaskCpu(dest)
    /\ UNCHANGED <<kthread, on_rq, mask, pin, disabled, mdf_push, pending, enabling, run, works,
                   hand, call, req, cpus, push_busy, known>>
--------------------------------------------------------------------------------
(* migration_cpu_stop and the other work of a stopper *)

\* migration_cpu_stop for a request r, or for sched_exec (r = None, to a given CPU): wakeups
\* are flushed, and p is moved if it is here, may be moved and must be.  The request is
\* complete, or p is to be chased to the CPU it has gone to.
MigrationCpuStop(c, r, dests) ==
    LET here == cpu = c
        queued == on_rq = "queued" \/ (on_rq = "waking" /\ here)
        chase == ~here /\ r # None /\ cpu \notin cpus_ptr
        complete == r # None /\ ~chase /\ ~(here /\ disabled > 0)
        moves == here /\ disabled = 0 /\ queued /\ (r # None => cpu \notin mask)
    IN /\ on_rq' = IF queued THEN "queued" ELSE on_rq
       /\ pending' = IF complete /\ pending = r THEN None ELSE pending
       /\ req' = IF r # None /\ ~chase THEN [req EXCEPT ![r].stop_pending = FALSE] ELSE req
       /\ hand' = [hand EXCEPT ![c] =
                    CASE complete -> [do |-> "complete", of |-> r]
                      [] chase -> [do |-> "requeue", of |-> r]
                      [] OTHER -> None]
       /\ IF moves THEN \E dest \in dests : MigrateTask(dest)
          ELSE /\ UNCHANGED cpu
               /\ Warn(IF chase /\ ~req[r].stop_pending THEN {"migration_cpu_stop: no stop_pending"} ELSE {})
       /\ known' = IF complete /\ cpu' \notin mask /\ (queued \/ disabled > 0)
                   THEN known \cup {"outside"} ELSE known
       /\ UNCHANGED <<mask, mdf_push, push_busy>>

\* push_cpu_stop, for a real-time task that should make room; find_lock_rq is external and
\* finds a CPU for a task that is queued, or none.
PushCpuStop(c) ==
    /\ mdf_push' = IF cpu = c THEN disabled > 0 ELSE mdf_push
    /\ \/ /\ cpu = c /\ disabled = 0 /\ on_rq = "queued"
          /\ \E dest \in (mask \cap rq_online) \ {c} : SetTaskCpu(dest)
       \/ UNCHANGED <<cpu, warn>>
    /\ push_busy' = push_busy \ {c}
    /\ UNCHANGED <<on_rq, mask, pending, req, hand, known>>

\* __balance_push_cpu_stop.
BalancePushCpuStop(c) ==
    /\ IF cpu = c /\ on_rq = "queued"
       THEN \E s \in SelectFallbackRq : MigrateTask(s.to) /\ mask' = s.mask
       ELSE UNCHANGED <<cpu, mask, warn>>
    /\ UNCHANGED <<on_rq, mdf_push, pending, req, hand, push_busy, known>>

\* The stopper takes the first work of its queue.
Stop(c) ==
    /\ run[c] = "stop" /\ hand[c] = None /\ works[c] # <<>>
    /\ LET w == Head(works[c])
       IN CASE w.kind = "migrate" -> MigrationCpuStop(c, w.of, mask)
            [] w.kind = "exec" -> MigrationCpuStop(c, None, {w.of})
            [] w.kind = "push" -> PushCpuStop(c)
            [] w.kind = "balance" -> BalancePushCpuStop(c)
    /\ works' = [works EXCEPT ![c] = Tail(@)]
    /\ UNCHANGED <<kthread, pin, disabled, enabling, run, call, cpus>>

\* What the stopper does after it has released the locks: complete_all, or
\* stop_one_cpu_nowait on the CPU p is on now.
StopAfterwards(c) ==
    /\ run[c] = "stop" /\ hand[c] # None
    /\ IF hand[c].do = "complete"
       THEN req' = [req EXCEPT ![hand[c].of].done = TRUE] /\ UNCHANGED <<works, known>>
       ELSE StopOneCpu(cpu, Work("migrate", hand[c].of)) /\ UNCHANGED req
    /\ hand' = [hand EXCEPT ![c] = None]
    /\ UNCHANGED <<p_, run, call, cpus, push_busy, warn>>

\* rt.c asks for p, which is running, to be pushed away (external).
RtPush(c) ==
    /\ run[c] = "p" /\ c \notin push_busy /\ disabled = 0 /\ Cardinality(mask) > 1
    /\ push_busy' = push_busy \cup {c}
    /\ StopOneCpu(c, Work("push", None))
    /\ UNCHANGED <<p_, run, hand, call, req, cpus, warn>>
--------------------------------------------------------------------------------
(* set_cpus_allowed_ptr *)

\* cpu_valid_mask.
Valid == IF kthread \/ disabled > 0 THEN online ELSE active

\* Mutant: only the stopper releases waiters.
ReleasesNobody == FALSE

\* affine_move_task when p is on a CPU of the new mask: waiters whose request has no work
\* under way are released.
ReleasesWaiters == pending # None /\ ~req[pending].stop_pending

\* The request a caller joins: the one there is, or its own.
Joined(c) == IF pending = None THEN c ELSE pending

Install(c) ==
    IF pending = None THEN [req EXCEPT ![c] = [NoRequest EXCEPT !.refs = 1]]
    ELSE [req EXCEPT ![pending].refs = @ + 1]

\* task_running(rq, p) || p->state == TASK_WAKING: the stopper has to move p.
Busy == Running \/ on_rq = "waking"

\* Mutant: the work is queued for every call.
StartsAlways(request) == TRUE

\* stop_pending: the work of a request is in use.
StartsStop(request) == ~request.stop_pending

\* __set_cpus_allowed_ptr by a caller: the part under the locks.
SetCpusAllowed(c, m) ==
    /\ call[c].pc = "idle" /\ m # mask /\ Valid \cap m # {}
    /\ mask' = m
    /\ LET r == Joined(c)
           here == cpu \in m
           moved == ~here /\ ~Busy /\ disabled = 0
           complete == IF here THEN ReleasesWaiters ELSE moved /\ ~Install(c)[r].stop_pending
           starts == ~here /\ Busy /\ StartsStop(Install(c)[r])
       IN /\ req' = CASE here -> req
                       [] ~here /\ Busy -> [Install(c) EXCEPT ![r].stop_pending = TRUE]
                       [] OTHER -> Install(c)
          /\ pending' = IF complete THEN None ELSE IF here THEN pending ELSE r
          /\ call' = [call EXCEPT ![c] =
                [pc |-> CASE complete -> "complete" [] starts -> "stop"
                          [] OTHER -> IF here THEN "idle" ELSE "wait",
                 on |-> IF here THEN (IF complete THEN pending ELSE None) ELSE r,
                 cpu |-> IF starts /\ ~complete THEN cpu ELSE None, waits |-> ~here]]
          /\ IF moved /\ on_rq = "queued" THEN \E dest \in Valid \cap m : SetTaskCpu(dest)
             ELSE UNCHANGED <<cpu, warn>>
    /\ UNCHANGED <<kthread, on_rq, pin, disabled, mdf_push, enabling, run, works, hand, cpus, push_busy, known>>

\* stop_one_cpu_nowait, after the locks are released.
CallStop(c) ==
    /\ call[c].pc = "stop"
    /\ StopOneCpu(call[c].cpu, Work("migrate", call[c].on))
    /\ call' = [call EXCEPT ![c].pc = "wait", ![c].cpu = None]
    /\ UNCHANGED <<p_, run, hand, req, cpus, push_busy, warn>>

\* complete_all; a caller that found p on an allowed CPU returns.
CallComplete(c) ==
    /\ call[c].pc = "complete"
    /\ req' = [req EXCEPT ![call[c].on].done = TRUE]
    /\ call' = [call EXCEPT ![c].pc = IF call[c].waits THEN "wait" ELSE "idle",
                            ![c].on = IF call[c].waits THEN @ ELSE None]
    /\ UNCHANGED <<p_, run, works, hand, cpus, push_busy, warn, known>>

\* wait_for_completion and refcount_dec_and_test.
CallWoken(c) ==
    /\ call[c].pc = "wait" /\ req[call[c].on].done
    /\ req' = [req EXCEPT ![call[c].on].refs = @ - 1]
    /\ call' = [call EXCEPT ![c].pc = "refs", ![c].on = None]
    /\ UNCHANGED <<p_, run, works, hand, cpus, push_busy, warn, known>>

\* Mutant: it does not.
OwnerReturns(c) == TRUE

\* wait_var_event: the owner of a request stays until all others have seen its completion.
OwnerMayReturn(c) == req[c].refs = 0

CallReturn(c) ==
    /\ call[c].pc = "refs" /\ OwnerMayReturn(c)
    /\ Warn(IF req[c].stop_pending THEN {"affine_move_task: stop_pending"} ELSE {})
    /\ call' = [call EXCEPT ![c] = NotCalling] /\ req' = [req EXCEPT ![c] = NoRequest]
    /\ UNCHANGED <<p_, run, works, hand, cpus, push_busy, known>>
--------------------------------------------------------------------------------
(* migrate_disable and migrate_enable, by p *)

MigrateDisable ==
    /\ run[cpu] = "p" /\ enabling = None /\ disabled < MaxNest
    /\ disabled' = disabled + 1
    /\ nr_pinned' = IF disabled = 0 THEN [nr_pinned EXCEPT ![cpu] = @ + 1] ELSE nr_pinned
    /\ UNCHANGED <<kthread, cpu, on_rq, mask, pin, mdf_push, pending, enabling, run, works, hand,
                   call, req, active, online, balance_push, rq_online, hp, tick, twork, push_busy,
                   warn, known>>

\* migrate_enable up to the end of __set_cpus_allowed_ptr(SCA_MIGRATE_ENABLE), with
\* preemption disabled: cpus_ptr is reset, unless no CPU of the mask is online.
MigrateEnable ==
    /\ run[cpu] = "p" /\ enabling = None /\ disabled > 0
    /\ LET sets == disabled = 1 /\ pin # None /\ mask \cap online # {}
           here == cpu \in mask
           pushes == sets /\ here /\ mdf_push /\ cpu \notin push_busy
           complete == sets /\ here /\ ReleasesWaiters
           moves == sets /\ ~here /\ pending # None
           starts == moves /\ StartsStop(req[pending])
       IN /\ disabled' = IF disabled > 1 THEN disabled - 1 ELSE disabled
          /\ pin' = IF sets THEN None ELSE pin
          /\ push_busy' = IF pushes THEN push_busy \cup {cpu} ELSE push_busy
          /\ pending' = IF complete THEN None ELSE pending
          /\ mdf_push' = IF moves THEN FALSE ELSE mdf_push
          /\ req' = IF moves THEN [req EXCEPT ![pending].stop_pending = TRUE] ELSE req
          /\ Warn(IF sets /\ ~here /\ pending = None THEN {"affine_move_task: no pending"} ELSE {})
          /\ known' = IF disabled = 1 /\ pin # None /\ ~sets THEN known \cup {"pinned"} ELSE known
          /\ enabling' = IF disabled > 1 THEN None
                         ELSE [stop |-> IF starts THEN pending ELSE None,
                               done |-> IF complete THEN pending ELSE None, push |-> pushes]
    /\ UNCHANGED <<kthread, cpu, on_rq, mask, run, works, hand, call, cpus>>

\* The rest of migrate_enable.
MigrateEnabled ==
    /\ enabling # None
    /\ CASE enabling.push -> StopOneCpu(cpu, Work("push", None))
         [] enabling.stop # None -> StopOneCpu(cpu, Work("migrate", enabling.stop))
         [] OTHER -> UNCHANGED <<works, known>>
    /\ req' = IF enabling.done = None THEN req ELSE [req EXCEPT ![enabling.done].done = TRUE]
    /\ disabled' = 0 /\ nr_pinned' = [nr_pinned EXCEPT ![cpu] = @ - 1]
    /\ enabling' = None
    /\ UNCHANGED <<kthread, cpu, on_rq, mask, pin, mdf_push, pending, run, hand, call,
                   active, online, balance_push, rq_online, hp, tick, twork, push_busy, warn>>
--------------------------------------------------------------------------------
(* CPU hotplug *)

Set(pc) == hp' = [hp EXCEPT !.pc = pc]
state == <<p_, hand, call, req, push_busy, nr_pinned, known>>

\* sched_cpu_deactivate: set_cpu_active(false).  One CPU at a time, never the last.
Deactivate(c) ==
    /\ hp.pc = "none" /\ c \in active /\ active # {c}
    /\ active' = active \ {c} /\ hp' = [cpu |-> c, pc |-> "inactive"]
    /\ UNCHANGED <<state, run, works, online, balance_push, rq_online, tick, twork, warn>>

\* balance_push_set(true).
BalancePushOn ==
    /\ hp.pc = "inactive" /\ Set("pushing")
    /\ balance_push' = balance_push \cup {hp.cpu}
    /\ UNCHANGED <<state, run, works, active, online, rq_online, tick, twork, warn>>

\* synchronize_rcu, which waits for migrate_enable and for the interrupt that takes p from a
\* wakelist, and set_rq_offline.
RqOffline ==
    /\ hp.pc = "pushing" /\ enabling = None /\ ~(on_rq = "waking" /\ cpu = hp.cpu)
    /\ Set("rq_offline")
    /\ rq_online' = rq_online \ {hp.cpu}
    /\ UNCHANGED <<state, run, works, active, online, balance_push, tick, twork, warn>>

\* cpuset_cpu_inactive: sched_cpu_wait_empty follows, or everything but set_rq_offline is
\* taken back.
CpusetCpuInactive ==
    /\ hp.pc = "rq_offline"
    /\ \/ Set("wait") /\ UNCHANGED <<active, balance_push>>
       \/ /\ hp' = Settled /\ balance_push' = balance_push \ {hp.cpu}
          /\ active' = active \cup {hp.cpu}
    /\ UNCHANGED <<state, run, works, online, rq_online, tick, twork, warn>>

\* Mutant: tasks that sleep with migration disabled do not count.
VacatedQueue(c) == ~(on_rq = "queued" /\ cpu = c)

\* rq->nr_running == 1 && !rq_has_pinned_tasks(rq).
Vacated(c) == ~(on_rq = "queued" /\ cpu = c) /\ nr_pinned[c] = 0

\* balance_hotplug_wait: the hotplug thread of the CPU looks, and sleeps if it has to.
HotplugWait ==
    /\ hp.pc = "wait" /\ run[hp.cpu] = "hotplug"
    /\ Set(IF Vacated(hp.cpu) THEN "empty" ELSE "sleep")
    /\ UNCHANGED <<state, run, works, active, online, balance_push, rq_online, tick, twork, warn>>

\* sched_cpu_dying in the stopper of the CPU, with sched_tick_stop.
Dying ==
    LET c == hp.cpu
    IN /\ hp.pc = "empty" /\ works[c] = <<>> /\ hand[c] = None /\ run[c] \notin {"p", "stop"}
       /\ Warn({w \in {"sched_cpu_dying", "sched_tick_stop"} :
                    \/ w = "sched_cpu_dying" /\ ~Vacated(c)
                    \/ w = "sched_tick_stop" /\ tick[c] # "RUNNING"})
       /\ Set("down") /\ online' = online \ {c} /\ balance_push' = balance_push \ {c}
       /\ run' = [run EXCEPT ![c] = "off"]
       /\ tick' = [tick EXCEPT ![c] = "OFFLINING"]
       /\ UNCHANGED <<state, works, active, rq_online, twork>>

\* sched_tick_start: work is queued only if none is left.
TickQueued(c) == tick[c] = "OFFLINE"

SchedTickStart(c) ==
    /\ tick' = [tick EXCEPT ![c] = "RUNNING"]
    /\ twork' = [twork EXCEPT ![c] = IF TickQueued(c) THEN @ + 1 ELSE @]
    /\ Warn(IF tick[c] = "RUNNING" THEN {"sched_tick_start"} ELSE {})

\* The CPU comes up: sched_cpu_starting.
Starting ==
    /\ hp.pc = "down" /\ Set("up")
    /\ online' = online \cup {hp.cpu} /\ run' = [run EXCEPT ![hp.cpu] = "idle"]
    /\ SchedTickStart(hp.cpu)
    /\ UNCHANGED <<state, works, active, balance_push, rq_online>>

\* sched_cpu_activate.
Activate ==
    /\ hp.pc = "up" /\ hp' = Settled
    /\ balance_push' = balance_push \ {hp.cpu} /\ active' = active \cup {hp.cpu}
    /\ rq_online' = rq_online \cup {hp.cpu}
    /\ UNCHANGED <<state, run, works, online, tick, twork, warn>>

\* sched_tick_remote: the work queues itself again unless the CPU has gone.
SchedTickRemote(c) ==
    /\ twork[c] > 0
    /\ tick' = [tick EXCEPT ![c] = IF @ = "OFFLINING" THEN "OFFLINE" ELSE @]
    /\ twork' = [twork EXCEPT ![c] = IF tick[c] = "RUNNING" THEN @ ELSE @ - 1]
    /\ Warn(IF tick[c] = "OFFLINE" THEN {"sched_tick_remote"} ELSE {})
    /\ UNCHANGED <<state, run, works, active, online, balance_push, rq_online, hp>>
--------------------------------------------------------------------------------
CallNext(c) == CallStop(c) \/ CallComplete(c) \/ CallWoken(c) \/ CallReturn(c)
TakeDown == BalancePushOn \/ RqOffline \/ CpusetCpuInactive \/ HotplugWait \/ Dying
BringUp == Starting \/ Activate

Next ==
    \/ \E c \in CPUs : Schedule(c) \/ Stop(c) \/ StopAfterwards(c) \/ SchedExec(c) \/ RtPush(c)
    \/ \E c \in CPUs : MigrateSwap(c)
    \/ TryToWakeUp \/ NoFallback \/ TtwuPending
    \/ \E c \in Callers : CallNext(c) \/ \E m \in SUBSET CPUs : SetCpusAllowed(c, m)
    \/ MigrateDisable \/ MigrateEnable \/ MigrateEnabled
    \/ \E c \in HotCPUs : Deactivate(c) \/ SchedTickRemote(c)
    \/ TakeDown \/ BringUp

Spec == Init /\ [][Next]_vars

\* Behaviours are not followed beyond a race the code has lost.
Followed == known = {} /\ warn = {}

Symmetry == Permutations(Callers)
--------------------------------------------------------------------------------
(* known holds the three races this code loses.  "outside": a stopper completes a request  *)
(* though p stays outside its mask, because p is pinned to another CPU by then or because   *)
(* the CPU of the mask is going down.  "pinned": migrate_enable finds no CPU of the mask     *)
(* online and leaves cpus_ptr as it is.  "refused": the CPU goes offline before              *)
(* stop_one_cpu_nowait.  The properties are about the behaviours without them.              *)

QueuedWork(c) == {works[c][i] : i \in 1..Len(works[c])}

\* No WARN_ON and no BUG_ON of this code is met: p is never moved to a CPU that is offline
\* nor while migration is disabled, a fallback CPU is always found, a CPU that dies has been
\* vacated, a request is there when migrate_enable needs it.  Everything has its type.
\* (set_cpus_allowed_ptr may send a kernel thread to a CPU that is dying.)
NoWarning ==
    TypeOK /\ (known = {} => warn \subseteq (IF kthread THEN {"sched_cpu_dying"} ELSE {}))

\* A request lives on the stack of the caller that installed it: whoever can still touch it,
\* the task, a work item, a stopper, migrate_enable or another caller, does so before that
\* caller returns.
NoUseAfterReturn ==
    \A r \in Callers : call[r].pc = "idle" =>
        /\ pending # r
        /\ \A c \in CPUs : Work("migrate", r) \notin QueuedWork(c) /\ (hand[c] # None => hand[c].of # r)
        /\ \A c \in Callers : call[c].on # r
        /\ enabling # None => r \notin {enabling.stop, enabling.done}

\* The hotplug thread does not sleep on a CPU that is idle and has been vacated: the wakeup
\* of balance_push is not lost.
HotplugWoken ==
    hp.pc = "sleep" /\ run[hp.cpu] = "idle" /\ works[hp.cpu] = <<>> => ~Vacated(hp.cpu)

\* A caller that waits will be told: somebody is about to complete its request, or its work
\* is queued, or p is pinned and its migrate_enable will see to it.  The hotplug thread is
\* told as well.
NoLostRequest ==
    /\ HotplugWoken
    /\ \A c \in Callers : LET r == call[c].on IN
        call[c].pc = "wait" /\ ~req[r].done /\ known = {} =>
            \/ \E d \in Callers : call[d].pc \in {"stop", "complete"} /\ call[d].on = r
            \/ \E d \in CPUs : \/ d \in online /\ Work("migrate", r) \in QueuedWork(d)
                               \/ hand[d] # None /\ hand[d].of = r
            \/ enabling # None /\ r \in {enabling.stop, enabling.done}
            \/ pending = r /\ disabled > 0 /\ pin # None

\* p is runnable on a CPU outside its mask only while a request is under way or migration is
\* disabled: the mask of the last call takes effect.
PlacedOnMask ==
    on_rq = "queued" /\ disabled = 0 /\ known = {} => cpu \in mask \/ pending # None

\* However often a CPU goes and comes back, it has one remote tick work as long as the tick
\* is not offline, and none afterwards.
TickWorkOnce == \A c \in CPUs : twork[c] = IF tick[c] = "OFFLINE" THEN 0 ELSE 1

\* No work item of a stopper is queued while it is in a queue, which would corrupt the lists,
\* and no remote tick twice.
WorkOnce ==
    /\ TickWorkOnce
    /\ \A c, d \in CPUs : \A i \in 1..Len(works[c]), j \in 1..Len(works[d]) :
        works[c][i] = works[d][j] /\ works[c][i].kind = "migrate" => c = d /\ i = j
    /\ \A c \in CPUs : \A i, j \in 1..Len(works[c]) : works[c][i] = works[c][j] => i = j
================================================================================
