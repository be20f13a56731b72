------------------------------ MODULE WakeupProofs ------------------------------
(***************************************************************************)
(* Proofs about Wakeup: whatever the CPUs, the tasks and the topology are,  *)
(* a task's stack is used by one CPU only, a dead task stays dead and is    *)
(* given up once, and no wakeup is lost.                                    *)
(*                                                                          *)
(* The argument rests on who may change what.  While a CPU runs a task or    *)
(* switches away from it, task_cpu is that CPU (Placing); a task off the     *)
(* runqueue is in TASK_WAKING exactly as long as one CPU in try_to_wake_up   *)
(* or one wakelist is in charge of it (Wakers, Wakelists, InCharge); and a   *)
(* task that is dead keeps the CPU until its last __schedule (Lives), which  *)
(* is followed by one finish_task_switch (Dropping).                         *)
(***************************************************************************)
EXTENDS Wakeup, FiniteSetTheorems, WellFoundedInduction, TLAPS

--------------------------------------------------------------------------------
(* The invariant *)

\* The types of what the proofs are about; the counters are not.
Typing ==
    /\ state \in [Tasks -> States] /\ on_rq \in [Tasks -> BOOLEAN]
    /\ on_cpu \in [Tasks -> BOOLEAN] /\ cpu \in [Tasks -> CPUs]
    /\ in_iowait \in [Tasks -> BOOLEAN] /\ cond \in [Tasks -> BOOLEAN]
    /\ sig \in [Tasks -> BOOLEAN]
    /\ tpc \in [Tasks -> {"work", "check", "asleep", "dead"}]
    /\ curr \in [CPUs -> Tasks \cup {Idle}] /\ prev \in [CPUs -> Tasks \cup {Idle}]
    /\ need_resched \in [CPUs -> BOOLEAN]
    /\ wake_list \in [CPUs -> SUBSET (Tasks \X BOOLEAN)]
    /\ wake_q \in [CPUs -> Seq(Tasks)]
    /\ pc \in [CPUs -> {"run", "finish", "drop", "lock"} \cup Ttwu]
    /\ prev_state \in [CPUs -> States]
    /\ target \in [CPUs -> Tasks \cup {Idle}]
    /\ mask \in [CPUs -> SUBSET Sleeping] /\ migrated \in [CPUs -> BOOLEAN]
    /\ drops \in [Tasks -> Nat]

\* A task that runs, or that is being switched out, belongs to the CPU; on_cpu says so.
Placing ==
    /\ \A c \in CPUs, t \in Tasks :
        /\ curr[c] = t => cpu[t] = c /\ on_rq[t] /\ on_cpu[t]
        /\ pc[c] = "finish" /\ prev[c] = t => cpu[t] = c /\ on_cpu[t] /\ curr[c] # t
    /\ \A t \in Tasks : on_cpu[t] =>
        curr[cpu[t]] = t \/ (pc[cpu[t]] = "finish" /\ prev[cpu[t]] = t)

\* What the state of a task says of its place.
Lives == \A t \in Tasks :
    /\ on_rq[t] => state[t] \notin {"WAKING", "unborn"}
    /\ ~on_rq[t] => state[t] # "RUNNING"
    /\ state[t] = "unborn" => ~on_cpu[t]
    /\ tpc[t] = "dead" <=> state[t] = "DEAD"
    /\ state[t] = "DEAD" /\ on_rq[t] => curr[cpu[t]] = t

\* A CPU in try_to_wake_up: pi_lock keeps others and do_task_dead away from its task.
Wakers ==
    /\ \A c \in CPUs :
        /\ pc[c] \in Ttwu \cup {"lock"} => target[c] \in Tasks
        /\ pc[c] = "rq_lock" => state[target[c]] \in Sleeping \cup {"RUNNING"}
        /\ pc[c] \in {"spin", "queue"} => state[target[c]] = "WAKING"
    /\ \A c, d \in CPUs :
        pc[c] \in Ttwu /\ pc[d] \in Ttwu /\ target[c] = target[d] => c = d

\* A task on a wakelist belongs to its CPU, and nobody else is waking it.
Wakelists == \A c \in CPUs, p \in Tasks : p \in OnWakelist(c) =>
    /\ cpu[p] = c /\ state[p] = "WAKING"
    /\ \A d \in CPUs : ~(pc[d] \in Ttwu /\ target[d] = p)

\* A task in TASK_WAKING has somebody who is in charge of it.
InCharge == \A p \in Tasks : state[p] = "WAKING" =>
    \/ \E c \in CPUs : pc[c] \in {"spin", "queue"} /\ target[c] = p
    \/ \E c \in CPUs : p \in OnWakelist(c)

\* The reference of a dead task is dropped after it has been switched out, by one CPU.
Dropping ==
    /\ \A t \in Tasks : drops[t] > 0 =>
        drops[t] = 1 /\ state[t] = "DEAD" /\ ~on_cpu[t] /\ ~on_rq[t]
    /\ \A c \in CPUs, t \in Tasks : pc[c] = "drop" /\ prev_state[c] = "DEAD" /\ prev[c] = t =>
        /\ state[t] = "DEAD" /\ ~on_cpu[t] /\ ~on_rq[t] /\ drops[t] = 0
        /\ \A d \in CPUs : pc[d] = "drop" /\ prev_state[d] = "DEAD" /\ prev[d] = t => c = d

\* IdleWoken, wherever the CPU is.
IdleTold == \A c \in CPUs, t \in Tasks :
    curr[c] = Idle /\ on_rq[t] /\ cpu[t] = c => need_resched[c]

\* A task that sleeps although its condition holds or a signal is pending has not been
\* forgotten: somebody is in try_to_wake_up with a mask that fits, or will be.
Asked(p) == \E c \in CPUs :
    target[c] = p /\ (pc[c] = "rq_lock" \/ (pc[c] = "lock" /\ state[p] \in mask[c]))
BeingWoken == \A p \in Tasks : state[p] \in Sleeping /\ ~on_rq[p] =>
    /\ cond[p] => Asked(p) \/ InWakeQ(p)
    /\ sig[p] /\ state[p] = "INTERRUPTIBLE" => Asked(p)

WInv == /\ Typing /\ Placing /\ Lives /\ Wakers /\ Wakelists /\ InCharge /\ Dropping
        /\ IdleTold /\ BeingWoken
--------------------------------------------------------------------------------
(* What the shared parts of the actions do *)

\* check_preempt_curr never takes a request back, and always asks the idle task.
LEMMA PreemptEffect ==
    ASSUME Typing, NEW c \in CPUs, CheckPreempt(c)
    PROVE  /\ need_resched' \in [CPUs -> BOOLEAN]
           /\ \A d \in CPUs : need_resched[d] => need_resched'[d]
           /\ curr[c] = Idle => need_resched'[c]
<1>1. PICK b \in {curr[c] = Idle \/ need_resched[c], TRUE} :
        need_resched' = [need_resched EXCEPT ![c] = b]
  BY DEF CheckPreempt
<1>2. b \in BOOLEAN /\ (need_resched[c] => b) /\ (curr[c] = Idle => b)
  BY <1>1, Zenon DEF Typing
<1>3. need_resched \in [CPUs -> BOOLEAN]
  BY DEF Typing
<1> HIDE DEF Typing
<1> QED
  BY <1>1, <1>2, <1>3

\* __schedule: the task goes or stays, and the next one is the idle task only if nothing
\* is queued.
Switched(c, preempt) ==
    /\ \A t \in Tasks : on_rq'[t] = (on_rq[t] /\ ~(Sleeps(curr[c], preempt) /\ t = curr[c]))
    /\ \A t \in Tasks : \/ state'[t] = state[t]
                        \/ /\ t = curr[c] /\ ~Sleeps(t, preempt) /\ ~preempt
                           /\ state[t] = "INTERRUPTIBLE" /\ state'[t] = "RUNNING"
    /\ \A d \in CPUs \ {c} : /\ curr'[d] = curr[d] /\ pc'[d] = pc[d] /\ prev'[d] = prev[d]
                             /\ need_resched'[d] = need_resched[d]
    /\ \/ curr'[c] = Idle /\ \A t \in Tasks : ~(on_rq'[t] /\ cpu[t] = c)
       \/ curr'[c] \in Tasks /\ on_rq'[curr'[c]] /\ cpu[curr'[c]] = c
    /\ \A t \in Tasks : on_cpu'[t] = (t = curr'[c] \/ on_cpu[t])
    /\ \/ curr'[c] = curr[c] /\ pc'[c] = "run" /\ prev' = prev
       \/ curr'[c] # curr[c] /\ pc'[c] = "finish" /\ prev'[c] = curr[c]
    /\ state' \in [Tasks -> States] /\ on_rq' \in [Tasks -> BOOLEAN]
    /\ on_cpu' \in [Tasks -> BOOLEAN] /\ curr' \in [CPUs -> Tasks \cup {Idle}]
    /\ prev' \in [CPUs -> Tasks \cup {Idle}] /\ need_resched' \in [CPUs -> BOOLEAN]
    /\ pc' \in [CPUs -> {"run", "finish", "drop", "lock"} \cup Ttwu]
    /\ UNCHANGED <<cpu, cond, sig, caches, wake_list, wake_q, prev_state, target, mask,
                   migrated, drops>>

LEMMA ScheduleEffect ==
    ASSUME Typing, NEW c \in CPUs, NEW preempt \in BOOLEAN, NEW io,
           pc[c] = "run", DoSchedule(c, curr[c], preempt, io)
    PROVE  Switched(c, preempt)
<1> DEFINE p == curr[c]
           off == Sleeps(p, preempt)
           queued == {t \in Queued(c) : ~(off /\ t = p)}
<1>1. /\ on_rq' = [t \in Tasks |-> on_rq[t] /\ ~(off /\ t = p)]
      /\ state' = [t \in Tasks |-> IF t = p /\ ~preempt /\ SignalPending(p)
                                   THEN "RUNNING" ELSE state[t]]
      /\ need_resched' = [need_resched EXCEPT ![c] = FALSE]
      /\ UNCHANGED <<cpu, cond, sig, caches, wake_list, wake_q, prev_state, target, mask,
                     migrated, drops>>
  BY DEF DoSchedule
<1>2. PICK next \in PickNextTask(queued) : ContextSwitch(c, p, next)
  BY DEF DoSchedule
<1>3. p \in Tasks \cup {Idle} /\ off \in BOOLEAN
  BY DEF Typing, Sleeps
<1>4. \/ next = Idle /\ queued = {}
      \/ next \in queued
  BY <1>2 DEF PickNextTask
<1>5. next \in Tasks \cup {Idle}
  BY <1>4 DEF Queued
<1>6. \A t \in Tasks : on_rq'[t] = (on_rq[t] /\ ~(off /\ t = p))
  BY <1>1
<1>7. on_rq' \in [Tasks -> BOOLEAN]
  BY <1>1, <1>3 DEF Typing
<1>8. /\ curr' = [curr EXCEPT ![c] = next]
      /\ on_cpu' = [t \in Tasks |-> t = next \/ on_cpu[t]]
      /\ \/ next = p /\ pc' = pc /\ prev' = prev
         \/ next # p /\ pc' = [pc EXCEPT ![c] = "finish"] /\ prev' = [prev EXCEPT ![c] = p]
  BY <1>2 DEF ContextSwitch
<1>9. /\ curr'[c] = next /\ curr' \in [CPUs -> Tasks \cup {Idle}]
      /\ \A d \in CPUs \ {c} : curr'[d] = curr[d]
  BY <1>5, <1>8 DEF Typing
<1>10. /\ \A t \in Tasks : on_cpu'[t] = (t = next \/ on_cpu[t])
       /\ on_cpu' \in [Tasks -> BOOLEAN]
  BY <1>8 DEF Typing
<1>11. \/ next = Idle /\ \A t \in Tasks : ~(on_rq'[t] /\ cpu[t] = c)
       \/ next \in Tasks /\ on_rq'[next] /\ cpu[next] = c
  BY <1>4, <1>6 DEF Queued
<1>12. \A t \in Tasks : \/ state'[t] = state[t]
                        \/ /\ t = p /\ ~Sleeps(t, preempt) /\ ~preempt
                           /\ state[t] = "INTERRUPTIBLE" /\ state'[t] = "RUNNING"
  BY <1>1 DEF SignalPending, Sleeps, Typing
<1>13. state' \in [Tasks -> States]
  BY <1>1 DEF Typing, States
<1>14. /\ pc' \in [CPUs -> {"run", "finish", "drop", "lock"} \cup Ttwu]
       /\ prev' \in [CPUs -> Tasks \cup {Idle}]
       /\ \A d \in CPUs \ {c} : pc'[d] = pc[d] /\ prev'[d] = prev[d]
       /\ \/ next = p /\ pc'[c] = "run" /\ prev' = prev
          \/ next # p /\ pc'[c] = "finish" /\ prev'[c] = p
  BY <1>3, <1>8 DEF Typing
<1>15. /\ need_resched' \in [CPUs -> BOOLEAN]
       /\ \A d \in CPUs \ {c} : need_resched'[d] = need_resched[d]
  BY <1>1 DEF Typing
<1> QED
  BY <1>1, <1>6, <1>7, <1>9, <1>10, <1>11, <1>12, <1>13, <1>14, <1>15 DEF Switched
--------------------------------------------------------------------------------
(* Parts of the invariant an action leaves alone *)

LEMMA KeepWakelists ==
    ASSUME Wakelists, wake_list' = wake_list,
           \A p \in Tasks : state[p] = "WAKING" => state'[p] = "WAKING" /\ cpu'[p] = cpu[p],
           \A d \in CPUs : pc'[d] \in Ttwu => pc[d] \in Ttwu /\ target'[d] = target[d]
    PROVE  Wakelists'
<1>1. \A d \in CPUs : OnWakelist(d)' = OnWakelist(d)
  BY DEF OnWakelist
<1> QED
  BY <1>1 DEF Wakelists

LEMMA KeepInCharge ==
    ASSUME InCharge, wake_list' = wake_list,
           \A p \in Tasks : state'[p] = "WAKING" => state[p] = "WAKING",
           \A d \in CPUs : pc[d] \in {"spin", "queue"} =>
                pc'[d] \in {"spin", "queue"} /\ target'[d] = target[d]
    PROVE  InCharge'
<1>1. \A d \in CPUs : OnWakelist(d)' = OnWakelist(d)
  BY DEF OnWakelist
<1> QED
  BY <1>1 DEF InCharge

LEMMA KeepBeingWoken ==
    ASSUME BeingWoken, wake_q' = wake_q,
           \A p \in Tasks : state'[p] \in Sleeping /\ ~on_rq'[p] =>
                /\ state'[p] = state[p] /\ ~on_rq[p]
                /\ (cond'[p] => cond[p]) /\ (sig'[p] => sig[p]),
           \A d \in CPUs : pc[d] \in {"lock", "rq_lock"} =>
                pc'[d] = pc[d] /\ target'[d] = target[d] /\ mask'[d] = mask[d]
    PROVE  BeingWoken'
<1>1. \A p \in Tasks : InWakeQ(p)' = InWakeQ(p)
  BY DEF InWakeQ
<1>2. \A p \in Tasks : state'[p] = state[p] /\ Asked(p) => Asked(p)'
  BY DEF Asked
<1> QED
  BY <1>1, <1>2 DEF BeingWoken
--------------------------------------------------------------------------------
(* The task's own code, and the end of __schedule *)

LEMMA SetStateStep ==
    ASSUME WInv, NEW c \in CPUs, NEW t \in Tasks, NEW s \in Sleeping, SetState(c, t, s)
    PROVE  WInv'
<1> USE WakeupAssumption DEF WInv, SetState, Running, rqVars, pcVars, taskVars, Ttwu, States, Sleeping
<1>1. Typing'
  BY DEF Typing
<1>2. Placing'
  BY DEF Typing, Placing
<1>3. Lives'
  BY DEF Typing, Lives, Placing
<1>4. Wakers'
  BY DEF Typing, Wakers, Lives, Placing
<1>5. Wakelists'
  <2>1. /\ wake_list' = wake_list
        /\ \A x \in Tasks : state[x] = "WAKING" => state'[x] = "WAKING" /\ cpu'[x] = cpu[x]
        /\ \A x \in CPUs : pc'[x] \in Ttwu => pc[x] \in Ttwu /\ target'[x] = target[x]
    BY DEF Typing, Lives, Placing
  <2> QED
    BY <2>1, KeepWakelists DEF WInv
<1>6. InCharge'
  <2>1. /\ wake_list' = wake_list
        /\ \A x \in Tasks : state'[x] = "WAKING" => state[x] = "WAKING"
        /\ \A x \in CPUs : pc[x] \in {"spin", "queue"} =>
                pc'[x] \in {"spin", "queue"} /\ target'[x] = target[x]
    BY DEF Typing, Lives, Placing
  <2> QED
    BY <2>1, KeepInCharge DEF WInv
<1>7. Dropping'
  BY DEF Typing, Dropping, Lives, Placing
<1>8. IdleTold'
  BY DEF Typing, IdleTold, Lives, Placing
<1>9. BeingWoken'
  <2>1. /\ wake_q' = wake_q
        /\ \A x \in Tasks : state'[x] \in Sleeping /\ ~on_rq'[x] =>
                /\ state'[x] = state[x] /\ ~on_rq[x]
                /\ (cond'[x] => cond[x]) /\ (sig'[x] => sig[x])
        /\ \A x \in CPUs : pc[x] \in {"lock", "rq_lock"} =>
                pc'[x] = pc[x] /\ target'[x] = target[x] /\ mask'[x] = mask[x]
    BY DEF Typing, Lives, Placing
  <2> QED
    BY <2>1, KeepBeingWoken DEF WInv
<1> QED
  BY <1>1, <1>2, <1>3, <1>4, <1>5, <1>6, <1>7, <1>8, <1>9

LEMMA LeaveLoopStep ==
    ASSUME WInv, NEW c \in CPUs, NEW t \in Tasks, LeaveLoop(c, t)
    PROVE  WInv'
<1> USE WakeupAssumption DEF WInv, LeaveLoop, Running, rqVars, pcVars, taskVars, Ttwu, States, Sleeping
<1>1. Typing'
  BY DEF Typing
<1>2. Placing'
  BY DEF Typing, Placing
<1>3. Lives'
  BY DEF Typing, Lives, Placing
<1>4. Wakers'
  BY DEF Typing, Wakers, Lives, Placing
<1>5. Wakelists'
  <2>1. /\ wake_list' = wake_list
        /\ \A x \in Tasks : state[x] = "WAKING" => state'[x] = "WAKING" /\ cpu'[x] = cpu[x]
        /\ \A x \in CPUs : pc'[x] \in Ttwu => pc[x] \in Ttwu /\ target'[x] = target[x]
    BY DEF Typing, Lives, Placing
  <2> QED
    BY <2>1, KeepWakelists DEF WInv
<1>6. InCharge'
  <2>1. /\ wake_list' = wake_list
        /\ \A x \in Tasks : state'[x] = "WAKING" => state[x] = "WAKING"
        /\ \A x \in CPUs : pc[x] \in {"spin", "queue"} =>
                pc'[x] \in {"spin", "queue"} /\ target'[x] = target[x]
    BY DEF Typing, Lives, Placing
  <2> QED
    BY <2>1, KeepInCharge DEF WInv
<1>7. Dropping'
  BY DEF Typing, Dropping, Lives, Placing
<1>8. IdleTold'
  BY DEF Typing, IdleTold, Lives, Placing
<1>9. BeingWoken'
  <2>1. /\ wake_q' = wake_q
        /\ \A x \in Tasks : state'[x] \in Sleeping /\ ~on_rq'[x] =>
                /\ state'[x] = state[x] /\ ~on_rq[x]
                /\ (cond'[x] => cond[x]) /\ (sig'[x] => sig[x])
        /\ \A x \in CPUs : pc[x] \in {"lock", "rq_lock"} =>
                pc'[x] = pc[x] /\ target'[x] = target[x] /\ mask'[x] = mask[x]
    BY DEF Typing, Lives, Placing
  <2> QED
    BY <2>1, KeepBeingWoken DEF WInv
<1> QED
  BY <1>1, <1>2, <1>3, <1>4, <1>5, <1>6, <1>7, <1>8, <1>9

LEMMA ReturnedStep ==
    ASSUME WInv, NEW c \in CPUs, NEW t \in Tasks, Returned(c, t)
    PROVE  WInv'
<1> USE WakeupAssumption DEF WInv, Returned, Running, rqVars, pcVars, taskVars, Ttwu, States, Sleeping
<1>1. Typing'
  BY DEF Typing
<1>2. Placing'
  BY DEF Typing, Placing
<1>3. Lives'
  BY DEF Typing, Lives, Placing
<1>4. Wakers'
  BY DEF Typing, Wakers, Lives, Placing
<1>5. Wakelists'
  <2>1. /\ wake_list' = wake_list
        /\ \A x \in Tasks : state[x] = "WAKING" => state'[x] = "WAKING" /\ cpu'[x] = cpu[x]
        /\ \A x \in CPUs : pc'[x] \in Ttwu => pc[x] \in Ttwu /\ target'[x] = target[x]
    BY DEF Typing, Lives, Placing
  <2> QED
    BY <2>1, KeepWakelists DEF WInv
<1>6. InCharge'
  <2>1. /\ wake_list' = wake_list
        /\ \A x \in Tasks : state'[x] = "WAKING" => state[x] = "WAKING"
        /\ \A x \in CPUs : pc[x] \in {"spin", "queue"} =>
                pc'[x] \in {"spin", "queue"} /\ target'[x] = target[x]
    BY DEF Typing, Lives, Placing
  <2> QED
    BY <2>1, KeepInCharge DEF WInv
<1>7. Dropping'
  BY DEF Typing, Dropping, Lives, Placing
<1>8. IdleTold'
  BY DEF Typing, IdleTold, Lives, Placing
<1>9. BeingWoken'
  <2>1. /\ wake_q' = wake_q
        /\ \A x \in Tasks : state'[x] \in Sleeping /\ ~on_rq'[x] =>
                /\ state'[x] = state[x] /\ ~on_rq[x]
                /\ (cond'[x] => cond[x]) /\ (sig'[x] => sig[x])
        /\ \A x \in CPUs : pc[x] \in {"lock", "rq_lock"} =>
                pc'[x] = pc[x] /\ target'[x] = target[x] /\ mask'[x] = mask[x]
    BY DEF Typing, Lives, Placing
  <2> QED
    BY <2>1, KeepBeingWoken DEF WInv
<1> QED
  BY <1>1, <1>2, <1>3, <1>4, <1>5, <1>6, <1>7, <1>8, <1>9

LEMMA WakeUpNewTaskStep ==
    ASSUME WInv, NEW c \in CPUs, NEW t \in Tasks, NEW p \in Tasks, NEW d \in CPUs, WakeUpNewTask(c, t, p, d)
    PROVE  WInv'
<1> USE WakeupAssumption DEF WInv, WakeUpNewTask, Running, rqVars, pcVars, taskVars, Ttwu, States, Sleeping
<1>1. Typing'
  BY PreemptEffect DEF Typing
<1>2. Placing'
  BY PreemptEffect DEF Typing, Placing, Lives
<1>3. Lives'
  BY PreemptEffect DEF Typing, Lives
<1>4. Wakers'
  BY PreemptEffect DEF Typing, Wakers, Lives, Placing
<1>5. Wakelists'
  <2>1. /\ wake_list' = wake_list
        /\ \A x \in Tasks : state[x] = "WAKING" => state'[x] = "WAKING" /\ cpu'[x] = cpu[x]
        /\ \A x \in CPUs : pc'[x] \in Ttwu => pc[x] \in Ttwu /\ target'[x] = target[x]
    BY PreemptEffect DEF Typing, Lives, Placing
  <2> QED
    BY <2>1, KeepWakelists DEF WInv
<1>6. InCharge'
  <2>1. /\ wake_list' = wake_list
        /\ \A x \in Tasks : state'[x] = "WAKING" => state[x] = "WAKING"
        /\ \A x \in CPUs : pc[x] \in {"spin", "queue"} =>
                pc'[x] \in {"spin", "queue"} /\ target'[x] = target[x]
    BY PreemptEffect DEF Typing, Lives, Placing
  <2> QED
    BY <2>1, KeepInCharge DEF WInv
<1>7. Dropping'
  BY PreemptEffect DEF Typing, Dropping, Lives, Placing
<1>8. IdleTold'
  BY PreemptEffect DEF Typing, IdleTold, Lives, Placing
<1>9. BeingWoken'
  <2>1. /\ wake_q' = wake_q
        /\ \A x \in Tasks : state'[x] \in Sleeping /\ ~on_rq'[x] =>
                /\ state'[x] = state[x] /\ ~on_rq[x]
                /\ (cond'[x] => cond[x]) /\ (sig'[x] => sig[x])
        /\ \A x \in CPUs : pc[x] \in {"lock", "rq_lock"} =>
                pc'[x] = pc[x] /\ target'[x] = target[x] /\ mask'[x] = mask[x]
    BY PreemptEffect DEF Typing, Lives, Placing
  <2> QED
    BY <2>1, KeepBeingWoken DEF WInv
<1> QED
  BY <1>1, <1>2, <1>3, <1>4, <1>5, <1>6, <1>7, <1>8, <1>9

LEMMA ReleaseTaskStep ==
    ASSUME WInv, NEW c \in CPUs, NEW t \in Tasks, NEW p \in Tasks, ReleaseTask(c, t, p)
    PROVE  WInv'
<1> USE WakeupAssumption DEF WInv, ReleaseTask, Running, rqVars, pcVars, taskVars, Ttwu, States, Sleeping
<1>1. Typing'
  BY DEF Typing
<1>2. Placing'
  BY DEF Typing, Placing
<1>3. Lives'
  BY DEF Typing, Lives, Dropping
<1>4. Wakers'
  BY DEF Typing, Wakers, Lives, Placing
<1>5. Wakelists'
  <2>1. /\ wake_list' = wake_list
        /\ \A x \in Tasks : state[x] = "WAKING" => state'[x] = "WAKING" /\ cpu'[x] = cpu[x]
        /\ \A x \in CPUs : pc'[x] \in Ttwu => pc[x] \in Ttwu /\ target'[x] = target[x]
    BY DEF Typing, Lives, Placing
  <2> QED
    BY <2>1, KeepWakelists DEF WInv
<1>6. InCharge'
  <2>1. /\ wake_list' = wake_list
        /\ \A x \in Tasks : state'[x] = "WAKING" => state[x] = "WAKING"
        /\ \A x \in CPUs : pc[x] \in {"spin", "queue"} =>
                pc'[x] \in {"spin", "queue"} /\ target'[x] = target[x]
    BY DEF Typing, Lives, Placing
  <2> QED
    BY <2>1, KeepInCharge DEF WInv
<1>7. Dropping'
  BY DEF Typing, Dropping, Lives, Placing
<1>8. IdleTold'
  BY DEF Typing, IdleTold, Lives, Placing
<1>9. BeingWoken'
  <2>1. /\ wake_q' = wake_q
        /\ \A x \in Tasks : state'[x] \in Sleeping /\ ~on_rq'[x] =>
                /\ state'[x] = state[x] /\ ~on_rq[x]
                /\ (cond'[x] => cond[x]) /\ (sig'[x] => sig[x])
        /\ \A x \in CPUs : pc[x] \in {"lock", "rq_lock"} =>
                pc'[x] = pc[x] /\ target'[x] = target[x] /\ mask'[x] = mask[x]
    BY DEF Typing, Lives, Placing
  <2> QED
    BY <2>1, KeepBeingWoken DEF WInv
<1> QED
  BY <1>1, <1>2, <1>3, <1>4, <1>5, <1>6, <1>7, <1>8, <1>9

LEMMA DoTaskDeadStep ==
    ASSUME WInv, NEW c \in CPUs, NEW t \in Tasks, DoTaskDead(c, t)
    PROVE  WInv'
<1> USE WakeupAssumption DEF WInv, DoTaskDead, Running, rqVars, pcVars, taskVars, Ttwu, States, Sleeping
<1>1. Typing'
  BY DEF Typing, SetSpecialState, PiFree
<1>2. Placing'
  BY DEF Typing, Placing, SetSpecialState, PiFree
<1>3. Lives'
  BY DEF Typing, Lives, Placing, SetSpecialState, PiFree
<1>4. Wakers'
  BY DEF Typing, Wakers, SetSpecialState, PiFree, Lives, Placing
<1>5. Wakelists'
  <2>1. /\ wake_list' = wake_list
        /\ \A x \in Tasks : state[x] = "WAKING" => state'[x] = "WAKING" /\ cpu'[x] = cpu[x]
        /\ \A x \in CPUs : pc'[x] \in Ttwu => pc[x] \in Ttwu /\ target'[x] = target[x]
    BY DEF Typing, Lives, Placing, SetSpecialState, PiFree
  <2> QED
    BY <2>1, KeepWakelists DEF WInv
<1>6. InCharge'
  <2>1. /\ wake_list' = wake_list
        /\ \A x \in Tasks : state'[x] = "WAKING" => state[x] = "WAKING"
        /\ \A x \in CPUs : pc[x] \in {"spin", "queue"} =>
                pc'[x] \in {"spin", "queue"} /\ target'[x] = target[x]
    BY DEF Typing, Lives, Placing, SetSpecialState, PiFree
  <2> QED
    BY <2>1, KeepInCharge DEF WInv
<1>7. Dropping'
  BY DEF Typing, Dropping, SetSpecialState, PiFree, Lives, Placing
<1>8. IdleTold'
  BY DEF Typing, IdleTold, SetSpecialState, PiFree, Lives, Placing
<1>9. BeingWoken'
  <2>1. /\ wake_q' = wake_q
        /\ \A x \in Tasks : state'[x] \in Sleeping /\ ~on_rq'[x] =>
                /\ state'[x] = state[x] /\ ~on_rq[x]
                /\ (cond'[x] => cond[x]) /\ (sig'[x] => sig[x])
        /\ \A x \in CPUs : pc[x] \in {"lock", "rq_lock"} =>
                pc'[x] = pc[x] /\ target'[x] = target[x] /\ mask'[x] = mask[x]
    BY DEF Typing, Lives, Placing, SetSpecialState, PiFree
  <2> QED
    BY <2>1, KeepBeingWoken DEF WInv
<1> QED
  BY <1>1, <1>2, <1>3, <1>4, <1>5, <1>6, <1>7, <1>8, <1>9

LEMMA FinishTaskStep ==
    ASSUME WInv, NEW c \in CPUs, FinishTask(c)
    PROVE  WInv'
<1> USE WakeupAssumption DEF WInv, FinishTask, Running, rqVars, pcVars, taskVars, Ttwu, States, Sleeping
<1>1. Typing'
  BY DEF Typing
<1>2. Placing'
  <2>1. /\ \A t \in Tasks : on_cpu'[t] <=> on_cpu[t] /\ t # prev[c]
        /\ pc'[c] = "drop" /\ \A d \in CPUs \ {c} : pc'[d] = pc[d]
        /\ UNCHANGED <<curr, cpu, on_rq, prev>>
    BY ZenonT(30) DEF Typing
  <2>2. \A d \in CPUs, t \in Tasks : curr[d] = t => t # prev[c]
    BY DEF Placing
  <2>3. \A d \in CPUs, t \in Tasks : curr'[d] = t => cpu'[t] = d /\ on_rq'[t] /\ on_cpu'[t]
    BY <2>1, <2>2 DEF Placing
  <2>4. \A d \in CPUs, t \in Tasks : pc'[d] = "finish" /\ prev'[d] = t =>
            cpu'[t] = d /\ on_cpu'[t] /\ curr'[d] # t
    BY <2>1 DEF Placing
  <2>5. \A t \in Tasks : on_cpu'[t] =>
            curr'[cpu'[t]] = t \/ (pc'[cpu'[t]] = "finish" /\ prev'[cpu'[t]] = t)
    BY <2>1 DEF Placing, Typing
  <2> QED
    BY <2>3, <2>4, <2>5 DEF Placing
<1>3. Lives'
  BY DEF Typing, Lives, Placing
<1>4. Wakers'
  BY DEF Typing, Wakers, Lives, Placing
<1>5. Wakelists'
  <2>1. /\ wake_list' = wake_list
        /\ \A x \in Tasks : state[x] = "WAKING" => state'[x] = "WAKING" /\ cpu'[x] = cpu[x]
        /\ \A x \in CPUs : pc'[x] \in Ttwu => pc[x] \in Ttwu /\ target'[x] = target[x]
    BY DEF Typing, Lives, Placing
  <2> QED
    BY <2>1, KeepWakelists DEF WInv
<1>6. InCharge'
  <2>1. /\ wake_list' = wake_list
        /\ \A x \in Tasks : state'[x] = "WAKING" => state[x] = "WAKING"
        /\ \A x \in CPUs : pc[x] \in {"spin", "queue"} =>
                pc'[x] \in {"spin", "queue"} /\ target'[x] = target[x]
    BY DEF Typing, Lives, Placing
  <2> QED
    BY <2>1, KeepInCharge DEF WInv
<1>7. Dropping'
  BY DEF Typing, Dropping, Lives, Placing
<1>8. IdleTold'
  BY DEF Typing, IdleTold, Lives, Placing
<1>9. BeingWoken'
  <2>1. /\ wake_q' = wake_q
        /\ \A x \in Tasks : state'[x] \in Sleeping /\ ~on_rq'[x] =>
                /\ state'[x] = state[x] /\ ~on_rq[x]
                /\ (cond'[x] => cond[x]) /\ (sig'[x] => sig[x])
        /\ \A x \in CPUs : pc[x] \in {"lock", "rq_lock"} =>
                pc'[x] = pc[x] /\ target'[x] = target[x] /\ mask'[x] = mask[x]
    BY DEF Typing, Lives, Placing
  <2> QED
    BY <2>1, KeepBeingWoken DEF WInv
<1> QED
  BY <1>1, <1>2, <1>3, <1>4, <1>5, <1>6, <1>7, <1>8, <1>9

LEMMA PutTaskStep ==
    ASSUME WInv, NEW c \in CPUs, PutTask(c)
    PROVE  WInv'
<1> USE WakeupAssumption DEF WInv, PutTask, Running, rqVars, pcVars, taskVars, Ttwu, States, Sleeping
<1>1. Typing'
  BY DEF Typing, ScheduleReturn, PrevDead
<1>2. Placing'
  BY DEF Typing, Placing, ScheduleReturn, PrevDead
<1>3. Lives'
  BY DEF Typing, Lives, Placing, ScheduleReturn, PrevDead
<1>4. Wakers'
  BY DEF Typing, Wakers, ScheduleReturn, PrevDead, Lives, Placing
<1>5. Wakelists'
  <2>1. /\ wake_list' = wake_list
        /\ \A x \in Tasks : state[x] = "WAKING" => state'[x] = "WAKING" /\ cpu'[x] = cpu[x]
        /\ \A x \in CPUs : pc'[x] \in Ttwu => pc[x] \in Ttwu /\ target'[x] = target[x]
    BY DEF Typing, Lives, Placing, ScheduleReturn, PrevDead
  <2> QED
    BY <2>1, KeepWakelists DEF WInv
<1>6. InCharge'
  <2>1. /\ wake_list' = wake_list
        /\ \A x \in Tasks : state'[x] = "WAKING" => state[x] = "WAKING"
        /\ \A x \in CPUs : pc[x] \in {"spin", "queue"} =>
                pc'[x] \in {"spin", "queue"} /\ target'[x] = target[x]
    BY DEF Typing, Lives, Placing, ScheduleReturn, PrevDead
  <2> QED
    BY <2>1, KeepInCharge DEF WInv
<1>7. Dropping'
  BY DEF Typing, Dropping, ScheduleReturn, PrevDead, Lives, Placing
<1>8. IdleTold'
  BY DEF Typing, IdleTold, ScheduleReturn, PrevDead, Lives, Placing
<1>9. BeingWoken'
  <2>1. /\ wake_q' = wake_q
        /\ \A x \in Tasks : state'[x] \in Sleeping /\ ~on_rq'[x] =>
                /\ state'[x] = state[x] /\ ~on_rq[x]
                /\ (cond'[x] => cond[x]) /\ (sig'[x] => sig[x])
        /\ \A x \in CPUs : pc[x] \in {"lock", "rq_lock"} =>
                pc'[x] = pc[x] /\ target'[x] = target[x] /\ mask'[x] = mask[x]
    BY DEF Typing, Lives, Placing, ScheduleReturn, PrevDead
  <2> QED
    BY <2>1, KeepBeingWoken DEF WInv
<1> QED
  BY <1>1, <1>2, <1>3, <1>4, <1>5, <1>6, <1>7, <1>8, <1>9

LEMMA TtwuSelectStep ==
    ASSUME WInv, NEW c \in CPUs, NEW d \in CPUs, TtwuSelect(c, d)
    PROVE  WInv'
<1> USE WakeupAssumption DEF WInv, TtwuSelect, Running, rqVars, pcVars, taskVars, Ttwu, States, Sleeping
<1>1. Typing'
  BY DEF Typing, SwitchedOut
<1>2. Placing'
  BY DEF Typing, Placing, SwitchedOut
<1>3. Lives'
  BY DEF Typing, Lives, Placing, SwitchedOut
<1>4. Wakers'
  BY DEF Typing, Wakers, SwitchedOut, Lives, Placing
<1>5. Wakelists'
  <2>1. \A x \in CPUs : OnWakelist(x)' = OnWakelist(x)
    BY DEF OnWakelist
  <2>2. \A x \in CPUs, y \in Tasks : y \in OnWakelist(x) => y # target[c]
    BY DEF Wakelists
  <2>3. /\ \A y \in Tasks : y # target[c] => cpu'[y] = cpu[y]
        /\ \A x \in CPUs : pc'[x] \in Ttwu => pc[x] \in Ttwu
        /\ UNCHANGED <<state, target>>
    BY DEF Typing
  <2> QED
    BY <2>1, <2>2, <2>3 DEF Wakelists
<1>6. InCharge'
  <2>1. /\ wake_list' = wake_list
        /\ \A x \in Tasks : state'[x] = "WAKING" => state[x] = "WAKING"
        /\ \A x \in CPUs : pc[x] \in {"spin", "queue"} =>
                pc'[x] \in {"spin", "queue"} /\ target'[x] = target[x]
    BY DEF Typing, Lives, Placing, SwitchedOut
  <2> QED
    BY <2>1, KeepInCharge DEF WInv
<1>7. Dropping'
  BY DEF Typing, Dropping, SwitchedOut, Lives, Placing
<1>8. IdleTold'
  BY DEF Typing, IdleTold, Lives, Wakers
<1>9. BeingWoken'
  <2>1. /\ wake_q' = wake_q
        /\ \A x \in Tasks : state'[x] \in Sleeping /\ ~on_rq'[x] =>
                /\ state'[x] = state[x] /\ ~on_rq[x]
                /\ (cond'[x] => cond[x]) /\ (sig'[x] => sig[x])
        /\ \A x \in CPUs : pc[x] \in {"lock", "rq_lock"} =>
                pc'[x] = pc[x] /\ target'[x] = target[x] /\ mask'[x] = mask[x]
    BY DEF Typing, Lives, Placing, SwitchedOut
  <2> QED
    BY <2>1, KeepBeingWoken DEF WInv
<1> QED
  BY <1>1, <1>2, <1>3, <1>4, <1>5, <1>6, <1>7, <1>8, <1>9

--------------------------------------------------------------------------------
(* try_to_wake_up *)

\* __ttwu_queue_wakelist adds one task.
LEMMA WakelistAdded ==
    ASSUME Typing, NEW d \in CPUs, NEW p \in Tasks, NEW far \in BOOLEAN,
           wake_list' = [wake_list EXCEPT ![d] = @ \cup {<<p, far>>}]
    PROVE  /\ wake_list' \in [CPUs -> SUBSET (Tasks \X BOOLEAN)]
           /\ \A x \in CPUs, y \in Tasks :
                y \in OnWakelist(x)' <=> y \in OnWakelist(x) \/ (x = d /\ y = p)
<1>1. /\ wake_list' \in [CPUs -> SUBSET (Tasks \X BOOLEAN)]
      /\ wake_list'[d] = wake_list[d] \cup {<<p, far>>}
      /\ \A x \in CPUs \ {d} : wake_list'[x] = wake_list[x]
  BY DEF Typing
<1> QED
  BY <1>1 DEF OnWakelist

\* A CPU that has made its task TASK_WAKING hands it over to the wakelist, or keeps it.
LEMMA InChargeAfter ==
    ASSUME WInv, NEW c \in CPUs, pc[c] \in Ttwu \cup {"lock"}, NEW p \in Tasks, p = target[c],
           \A x \in CPUs : p \notin OnWakelist(x),
           \A x \in CPUs \ {c} : ~(pc[x] \in Ttwu /\ target[x] = p),
           NEW far \in BOOLEAN,
           \/ /\ wake_list' = [wake_list EXCEPT ![cpu[p]] = @ \cup {<<p, far>>}]
              /\ pc'[c] = "run"
           \/ wake_list' = wake_list /\ pc'[c] = "spin" /\ target'[c] = p,
           \A x \in CPUs \ {c} : pc'[x] = pc[x] /\ target'[x] = target[x],
           cpu' = cpu, state'[p] = "WAKING", \A y \in Tasks \ {p} : state'[y] = state[y]
    PROVE  Wakelists' /\ InCharge'
<1> USE DEF WInv
<1>0. cpu[p] \in CPUs
  BY DEF Typing
<1>1. CASE wake_list' = wake_list /\ pc'[c] = "spin" /\ target'[c] = p
  <2>1. \A x \in CPUs : OnWakelist(x)' = OnWakelist(x)
    BY <1>1 DEF OnWakelist
  <2>2. Wakelists'
    BY <1>1, <2>1 DEF Wakelists, Ttwu
  <2>3. InCharge'
    BY <1>1, <2>1 DEF InCharge, Ttwu
  <2> QED
    BY <2>2, <2>3
<1>2. CASE wake_list' = [wake_list EXCEPT ![cpu[p]] = @ \cup {<<p, far>>}] /\ pc'[c] = "run"
  <2>1. \A x \in CPUs, y \in Tasks :
            y \in OnWakelist(x)' <=> y \in OnWakelist(x) \/ (x = cpu[p] /\ y = p)
    BY <1>0, <1>2, WakelistAdded
  <2>2. Wakelists'
    BY <1>2, <2>1 DEF Wakelists, Ttwu
  <2>3. InCharge'
    BY <1>0, <1>2, <2>1 DEF InCharge, Ttwu
  <2> QED
    BY <2>2, <2>3
<1> QED
  BY <1>1, <1>2

LEMMA TtwuQueueRemoteStep ==
    ASSUME WInv, NEW c \in CPUs, TtwuQueueRemote(c)
    PROVE  WInv'
<1> USE WakeupAssumption DEF WInv, Ttwu, States, Sleeping
<1> DEFINE p == target[c]
<1>1. /\ pc[c] = "queue" /\ p \in Tasks /\ state[p] = "WAKING" /\ cpu[p] \in CPUs
      /\ migrated[c] \in BOOLEAN
  BY DEF TtwuQueueRemote, Wakers, Typing
<1>2. /\ wake_list' = [wake_list EXCEPT ![cpu[p]] = @ \cup {<<p, migrated[c]>>}]
      /\ TtwuReturn(c)
      /\ UNCHANGED <<state, on_rq, on_cpu, cpu, in_iowait, cond, sig, tpc, curr, need_resched,
                     wake_q, prev, prev_state, drops>>
  BY DEF TtwuQueueRemote, QueueWakelist
<1>3. /\ pc'[c] = "run" /\ \A x \in CPUs \ {c} : pc'[x] = pc[x] /\ target'[x] = target[x]
      /\ \A x \in CPUs \ {c} : mask'[x] = mask[x]
  BY <1>2 DEF TtwuReturn, Typing
<1>4. Typing'
  <2>1. wake_list' \in [CPUs -> SUBSET (Tasks \X BOOLEAN)]
    BY <1>1, <1>2, WakelistAdded
  <2> QED
    BY <1>2, <2>1 DEF Typing, TtwuReturn
<1>5. Wakelists' /\ InCharge'
  <2>1. \A x \in CPUs : p \notin OnWakelist(x)
    BY <1>1 DEF Wakelists
  <2>2. \A x \in CPUs \ {c} : ~(pc[x] \in Ttwu /\ target[x] = p)
    BY <1>1 DEF Wakers
  <2> QED
    BY <1>1, <1>2, <1>3, <2>1, <2>2, InChargeAfter
<1>6. Placing' /\ Lives'
  <2>1. \A x \in CPUs : pc'[x] = "finish" <=> pc[x] = "finish"
    BY <1>1, <1>3
  <2>2. Placing'
    BY <1>1, <1>2, <2>1 DEF Placing, Typing
  <2> QED
    BY <1>2, <2>2 DEF Lives
<1>7. Dropping' /\ IdleTold'
  BY <1>1, <1>2, <1>3 DEF Dropping, IdleTold
<1>9. Wakers'
  BY <1>2, <1>3 DEF Wakers
<1>8. BeingWoken'
  <2>1. \A x \in CPUs : pc[x] \in {"lock", "rq_lock"} =>
            pc'[x] = pc[x] /\ target'[x] = target[x] /\ mask'[x] = mask[x]
    BY <1>1, <1>3
  <2> QED
    BY <1>2, <2>1, KeepBeingWoken
<1> QED
  BY <1>4, <1>5, <1>6, <1>7, <1>8, <1>9

\* wake_q_add and wake_up_q: one task more, or the first one less.
LEMMA WakeQAdded ==
    ASSUME Typing, NEW c \in CPUs, NEW p \in Tasks,
           wake_q' = [wake_q EXCEPT ![c] = Append(@, p)]
    PROVE  \A x \in Tasks : InWakeQ(x)' <=> InWakeQ(x) \/ x = p
<1>1. /\ wake_q'[c] = Append(wake_q[c], p) /\ wake_q[c] \in Seq(Tasks)
      /\ \A d \in CPUs \ {c} : wake_q'[d] = wake_q[d]
  BY DEF Typing
<1>2. {wake_q'[c][i] : i \in 1..Len(wake_q'[c])} = {wake_q[c][i] : i \in 1..Len(wake_q[c])} \cup {p}
  BY <1>1
<1> QED
  BY <1>1, <1>2 DEF InWakeQ

LEMMA WakeQTaken ==
    ASSUME Typing, NEW c \in CPUs, wake_q[c] # <<>>, wake_q' = [wake_q EXCEPT ![c] = Tail(@)]
    PROVE  /\ wake_q' \in [CPUs -> Seq(Tasks)] /\ Head(wake_q[c]) \in Tasks
           /\ \A x \in Tasks : InWakeQ(x) => InWakeQ(x)' \/ x = Head(wake_q[c])
<1>1. /\ wake_q'[c] = Tail(wake_q[c]) /\ wake_q[c] \in Seq(Tasks)
      /\ \A d \in CPUs \ {c} : wake_q'[d] = wake_q[d]
      /\ wake_q' \in [CPUs -> Seq(Tasks)] /\ Head(wake_q[c]) \in Tasks
  BY DEF Typing
<1>2. {wake_q[c][i] : i \in 1..Len(wake_q[c])}
        \subseteq {wake_q'[c][i] : i \in 1..Len(wake_q'[c])} \cup {Head(wake_q[c])}
  <2> SUFFICES ASSUME NEW i \in 1..Len(wake_q[c]), i # 1
               PROVE  \E k \in 1..Len(Tail(wake_q[c])) : wake_q[c][i] = Tail(wake_q[c])[k]
    BY <1>1
  <2>1. i - 1 \in 1..Len(Tail(wake_q[c])) /\ Tail(wake_q[c])[i - 1] = wake_q[c][i]
    BY <1>1
  <2> QED
    BY <2>1
<1> QED
  BY <1>1, <1>2 DEF InWakeQ

LEMMA WakeQAddStep ==
    ASSUME WInv, NEW c \in CPUs, NEW p \in Tasks, WakeQAdd(c, p)
    PROVE  WInv'
<1> USE WakeupAssumption DEF WInv, WakeQAdd, Running, rqVars, pcVars, taskVars, Ttwu, States, Sleeping
<1>1. Typing'
  BY DEF Typing
<1>2. Placing'
  BY DEF Typing, Placing
<1>3. Lives'
  BY DEF Typing, Lives, Placing
<1>4. Wakers'
  BY DEF Typing, Wakers, Lives, Placing
<1>5. Wakelists'
  BY KeepWakelists
<1>6. InCharge'
  BY KeepInCharge
<1>7. Dropping'
  BY DEF Typing, Dropping, Lives, Placing
<1>8. IdleTold'
  BY DEF Typing, IdleTold, Lives, Placing
<1>9. BeingWoken'
  <2>1. InWakeQ(p)'
    <3>1. CASE InWakeQ(p)
      BY <3>1 DEF InWakeQ
    <3>2. CASE ~InWakeQ(p)
      BY <3>2, WakeQAdded
    <3> QED
      BY <3>1, <3>2
  <2>2. \A x \in Tasks : InWakeQ(x) => InWakeQ(x)'
    BY WakeQAdded DEF InWakeQ
  <2>3. \A x \in Tasks : Asked(x)' = Asked(x)
    BY DEF Asked
  <2>4. \A x \in Tasks \ {p} : cond'[x] = cond[x]
    BY DEF Typing
  <2> QED
    BY <2>1, <2>2, <2>3, <2>4 DEF BeingWoken
<1> QED
  BY <1>1, <1>2, <1>3, <1>4, <1>5, <1>6, <1>7, <1>8, <1>9

LEMMA SchedulerTickStep ==
    ASSUME WInv, NEW c \in CPUs, SchedulerTick(c)
    PROVE  WInv'
<1> USE WakeupAssumption DEF WInv, SchedulerTick, Running, rqVars, pcVars, taskVars, Ttwu, States, Sleeping
<1>1. Typing'
  BY DEF Typing
<1>2. Placing'
  BY DEF Typing, Placing
<1>3. Lives'
  BY DEF Typing, Lives, Placing
<1>4. Wakers'
  BY DEF Typing, Wakers, Lives, Placing
<1>5. Wakelists'
  <2>1. /\ wake_list' = wake_list
        /\ \A x \in Tasks : state[x] = "WAKING" => state'[x] = "WAKING" /\ cpu'[x] = cpu[x]
        /\ \A x \in CPUs : pc'[x] \in Ttwu => pc[x] \in Ttwu /\ target'[x] = target[x]
    BY DEF Typing, Lives, Placing
  <2> QED
    BY <2>1, KeepWakelists DEF WInv
<1>6. InCharge'
  <2>1. /\ wake_list' = wake_list
        /\ \A x \in Tasks : state'[x] = "WAKING" => state[x] = "WAKING"
        /\ \A x \in CPUs : pc[x] \in {"spin", "queue"} =>
                pc'[x] \in {"spin", "queue"} /\ target'[x] = target[x]
    BY DEF Typing, Lives, Placing
  <2> QED
    BY <2>1, KeepInCharge DEF WInv
<1>7. Dropping'
  BY DEF Typing, Dropping, Lives, Placing
<1>8. IdleTold'
  BY DEF Typing, IdleTold, Lives, Placing
<1>9. BeingWoken'
  <2>1. /\ wake_q' = wake_q
        /\ \A x \in Tasks : state'[x] \in Sleeping /\ ~on_rq'[x] =>
                /\ state'[x] = state[x] /\ ~on_rq[x]
                /\ (cond'[x] => cond[x]) /\ (sig'[x] => sig[x])
        /\ \A x \in CPUs : pc[x] \in {"lock", "rq_lock"} =>
                pc'[x] = pc[x] /\ target'[x] = target[x] /\ mask'[x] = mask[x]
    BY DEF Typing, Lives, Placing
  <2> QED
    BY <2>1, KeepBeingWoken DEF WInv
<1> QED
  BY <1>1, <1>2, <1>3, <1>4, <1>5, <1>6, <1>7, <1>8, <1>9

\* ttwu_do_activate, for tasks the CPU or one CPU in try_to_wake_up is in charge of.
LEMMA ActivateStep ==
    ASSUME WInv, NEW c \in CPUs, NEW woken \in SUBSET Tasks, NEW far, DoActivate(c, woken, far),
           \A t \in woken : state[t] = "WAKING" /\ cpu[t] = c,
           \A x \in CPUs :
                \/ /\ pc'[x] = pc[x] /\ target'[x] = target[x] /\ mask'[x] = mask[x]
                   /\ ~(pc[x] \in Ttwu /\ target[x] \in woken)
                \/ pc[x] = "queue" /\ pc'[x] = "run" /\ target[x] \in woken,
           \A x \in CPUs, y \in Tasks : y \in OnWakelist(x)' <=> y \in OnWakelist(x) /\ y \notin woken,
           UNCHANGED <<on_cpu, cpu, in_iowait, cond, sig, tpc, curr, wake_q, prev, prev_state, drops>>,
           pc' \in [CPUs -> {"run", "finish", "drop", "lock"} \cup Ttwu],
           target' \in [CPUs -> Tasks \cup {Idle}], mask' \in [CPUs -> SUBSET Sleeping],
           migrated' \in [CPUs -> BOOLEAN], wake_list' \in [CPUs -> SUBSET (Tasks \X BOOLEAN)]
    PROVE  WInv'
<1> USE WakeupAssumption DEF WInv
<1>1. /\ \A t \in Tasks : on_rq'[t] <=> t \in woken \/ on_rq[t]
      /\ \A t \in Tasks : state'[t] = IF t \in woken THEN "RUNNING" ELSE state[t]
      /\ on_rq' \in [Tasks -> BOOLEAN] /\ state' \in [Tasks -> States]
  BY DEF DoActivate, Typing, States
<1>2. CheckPreempt(c)
  BY DEF DoActivate
<1>3. /\ need_resched' \in [CPUs -> BOOLEAN]
      /\ \A d \in CPUs : need_resched[d] => need_resched'[d]
      /\ curr[c] = Idle => need_resched'[c]
  BY <1>2, PreemptEffect
<1>4. Typing'
  BY <1>1, <1>3 DEF Typing
<1>5. \A x \in CPUs : /\ pc'[x] = "finish" <=> pc[x] = "finish"
                      /\ pc'[x] = "drop" <=> pc[x] = "drop"
  OBVIOUS
<1>6. Placing'
  BY <1>1, <1>5 DEF Placing, Typing
<1>7. Lives'
  BY <1>1 DEF Lives
<1>8. Wakers'
  BY <1>1 DEF Wakers, Ttwu
<1>9. Wakelists'
  BY <1>1 DEF Wakelists, Ttwu
<1>10. InCharge'
  <2>1. \A x \in CPUs : pc[x] \in {"spin", "queue"} /\ target[x] \notin woken =>
            pc'[x] = pc[x] /\ target'[x] = target[x]
    OBVIOUS
  <2> QED
    BY <1>1, <2>1 DEF InCharge
<1>11. Dropping'
  BY <1>1, <1>5 DEF Dropping
<1>12. IdleTold'
  BY <1>1, <1>3 DEF IdleTold
<1>13. BeingWoken'
  <2>1. \A x \in Tasks : InWakeQ(x)' = InWakeQ(x)
    BY DEF InWakeQ
  <2>2. \A x \in Tasks : state'[x] = state[x] /\ Asked(x) => Asked(x)'
    BY DEF Asked
  <2> QED
    BY <1>1, <2>1, <2>2 DEF BeingWoken, Sleeping
<1> QED
  BY <1>4, <1>6, <1>7, <1>8, <1>9, <1>10, <1>11, <1>12, <1>13

LEMMA TtwuQueueLocalStep ==
    ASSUME WInv, NEW c \in CPUs, TtwuQueueLocal(c)
    PROVE  WInv'
<1> USE DEF WInv
<1> DEFINE p == target[c]
           far == IF migrated[c] THEN {target[c]} ELSE {}
<1>1. pc[c] = "queue" /\ p \in Tasks /\ state[p] = "WAKING" /\ cpu[p] \in CPUs
  BY DEF TtwuQueueLocal, Wakers, Typing, Ttwu
<1>2. /\ DoActivate(cpu[p], {p}, far) /\ TtwuReturn(c) /\ wake_list' = wake_list
      /\ UNCHANGED <<on_cpu, cpu, in_iowait, cond, sig, tpc, curr, wake_q, prev, prev_state, drops>>
  BY DEF TtwuQueueLocal
<1>3. /\ pc'[c] = "run"
      /\ \A x \in CPUs \ {c} : pc'[x] = pc[x] /\ target'[x] = target[x] /\ mask'[x] = mask[x]
      /\ pc' \in [CPUs -> {"run", "finish", "drop", "lock"} \cup Ttwu]
      /\ target' \in [CPUs -> Tasks \cup {Idle}] /\ mask' \in [CPUs -> SUBSET Sleeping]
      /\ migrated' \in [CPUs -> BOOLEAN]
  BY <1>2 DEF TtwuReturn, Typing
<1>4. \A x \in CPUs : p \notin OnWakelist(x)
  BY <1>1 DEF Wakelists, Ttwu
<1>5. \A x \in CPUs : OnWakelist(x)' = OnWakelist(x)
  BY <1>2 DEF OnWakelist
<1>6. \A x \in CPUs \ {c} : ~(pc[x] \in Ttwu /\ target[x] = p)
  BY <1>1 DEF Wakers, Ttwu
<1>7. wake_list' \in [CPUs -> SUBSET (Tasks \X BOOLEAN)]
  BY <1>2 DEF Typing
<1> HIDE DEF p, far, WInv
<1>8. \A x \in CPUs :
        \/ /\ pc'[x] = pc[x] /\ target'[x] = target[x] /\ mask'[x] = mask[x]
           /\ ~(pc[x] \in Ttwu /\ target[x] \in {p})
        \/ pc[x] = "queue" /\ pc'[x] = "run" /\ target[x] \in {p}
  BY <1>1, <1>3, <1>6 DEF p
<1>9. \A x \in CPUs, y \in Tasks : y \in OnWakelist(x)' <=> y \in OnWakelist(x) /\ y \notin {p}
  BY <1>4, <1>5
<1> QED
  BY <1>1, <1>2, <1>3, <1>7, <1>8, <1>9, ActivateStep

LEMMA TtwuPendingStep ==
    ASSUME WInv, NEW c \in CPUs, TtwuPending(c)
    PROVE  WInv'
<1> DEFINE woken == OnWakelist(c)
           far == {p \in Tasks : <<p, TRUE>> \in wake_list[c]}
<1>1. /\ DoActivate(c, woken, far) /\ wake_list' = [wake_list EXCEPT ![c] = {}]
      /\ UNCHANGED <<pc, target, mask, migrated>>
      /\ UNCHANGED <<on_cpu, cpu, in_iowait, cond, sig, tpc, curr, wake_q, prev, prev_state, drops>>
  BY DEF TtwuPending, pcVars
<1>2. woken \in SUBSET Tasks
  BY DEF OnWakelist
<1>3. /\ \A t \in woken : state[t] = "WAKING" /\ cpu[t] = c
      /\ \A x \in CPUs : ~(pc[x] \in Ttwu /\ target[x] \in woken)
  BY <1>2 DEF WInv, Wakelists
<1>4. \A x \in CPUs, y \in Tasks : y \in OnWakelist(x)' <=> y \in OnWakelist(x) /\ y \notin woken
  <2>1. OnWakelist(c)' = {} /\ \A x \in CPUs \ {c} : OnWakelist(x)' = OnWakelist(x)
    BY <1>1 DEF OnWakelist, WInv, Typing
  <2>2. \A x \in CPUs \ {c}, y \in Tasks : ~(y \in OnWakelist(x) /\ y \in OnWakelist(c))
    BY DEF WInv, Wakelists
  <2> QED
    BY <2>1, <2>2
<1>5. /\ pc' \in [CPUs -> {"run", "finish", "drop", "lock"} \cup Ttwu]
      /\ target' \in [CPUs -> Tasks \cup {Idle}] /\ mask' \in [CPUs -> SUBSET Sleeping]
      /\ migrated' \in [CPUs -> BOOLEAN] /\ wake_list' \in [CPUs -> SUBSET (Tasks \X BOOLEAN)]
  BY <1>1 DEF WInv, Typing
<1> HIDE DEF woken, far
<1> QED
  BY <1>1, <1>2, <1>3, <1>4, <1>5, ActivateStep

\* TASK_WAKING: the task is off the runqueue, and from now on the caller or a wakelist is
\* in charge of it.
LEMMA WakingStep ==
    ASSUME WInv, NEW c \in CPUs, NEW p \in Tasks, p = target[c], pc[c] \in {"lock", "rq_lock"},
           state[p] \in Sleeping, ~on_rq[p],
           \A x \in CPUs \ {c} : ~(pc[x] \in Ttwu /\ target[x] = p),
           Waking(c, p),
           UNCHANGED <<on_rq, on_cpu, cpu, in_iowait, cond, sig, tpc, curr, need_resched,
                       wake_q, prev, prev_state, drops>>
    PROVE  WInv'
<1> USE WakeupAssumption DEF WInv
<1>1. /\ state'[p] = "WAKING" /\ \A y \in Tasks \ {p} : state'[y] = state[y]
      /\ state' \in [Tasks -> States]
  BY DEF Waking, Typing, States
<1>2. cpu[p] \in CPUs
  BY DEF Typing
<1>3. \/ /\ wake_list' = [wake_list EXCEPT ![cpu[p]] = @ \cup {<<p, FALSE>>}]
         /\ TtwuReturn(c)
      \/ wake_list' = wake_list /\ pc' = [pc EXCEPT ![c] = "spin"]
         /\ UNCHANGED <<target, mask, migrated>>
  BY DEF Waking, QueueWakelist
<1>4. /\ \/ /\ wake_list' = [wake_list EXCEPT ![cpu[p]] = @ \cup {<<p, FALSE>>}]
            /\ pc'[c] = "run"
         \/ wake_list' = wake_list /\ pc'[c] = "spin" /\ target'[c] = p
      /\ \A x \in CPUs \ {c} : pc'[x] = pc[x] /\ target'[x] = target[x] /\ mask'[x] = mask[x]
      /\ pc' \in [CPUs -> {"run", "finish", "drop", "lock"} \cup Ttwu]
      /\ target' \in [CPUs -> Tasks \cup {Idle}] /\ mask' \in [CPUs -> SUBSET Sleeping]
      /\ migrated' \in [CPUs -> BOOLEAN]
  <2>1. /\ pc \in [CPUs -> {"run", "finish", "drop", "lock"} \cup Ttwu]
        /\ target \in [CPUs -> Tasks \cup {Idle}] /\ mask \in [CPUs -> SUBSET Sleeping]
        /\ migrated \in [CPUs -> BOOLEAN]
    BY DEF Typing
  <2>2. CASE /\ wake_list' = [wake_list EXCEPT ![cpu[p]] = @ \cup {<<p, FALSE>>}]
             /\ TtwuReturn(c)
    <3> HIDE DEF WInv
    <3> QED
      BY <2>1, <2>2 DEF TtwuReturn
  <2>3. CASE wake_list' = wake_list /\ pc' = [pc EXCEPT ![c] = "spin"]
             /\ UNCHANGED <<target, mask, migrated>>
    <3> HIDE DEF WInv
    <3> QED
      BY <2>1, <2>3 DEF Ttwu
  <2> QED
    BY <1>3, <2>2, <2>3
<1>5. \A x \in CPUs \ {c} : pc'[x] \in Ttwu => target'[x] # p
  BY <1>4
<1>6. wake_list' \in [CPUs -> SUBSET (Tasks \X BOOLEAN)]
  <2>1. CASE wake_list' = [wake_list EXCEPT ![cpu[p]] = @ \cup {<<p, FALSE>>}]
    BY <1>2, <2>1, WakelistAdded
  <2>2. CASE wake_list' = wake_list
    BY <2>2 DEF Typing
  <2> QED
    BY <1>4, <2>1, <2>2
<1>7. Typing'
  BY <1>1, <1>4, <1>6 DEF Typing
<1>8. Wakelists' /\ InCharge'
  <2>1. \A x \in CPUs : p \notin OnWakelist(x)
    BY DEF Wakelists, Sleeping
  <2>2. pc[c] \in Ttwu \cup {"lock"}
    BY DEF Ttwu
  <2> QED
    BY <1>1, <1>4, <2>1, <2>2, InChargeAfter
<1>9. \A x \in CPUs : /\ pc'[x] = "finish" <=> pc[x] = "finish"
                      /\ pc'[x] = "drop" <=> pc[x] = "drop"
  BY <1>4
<1>10. Placing'
  BY <1>9 DEF Placing, Typing
<1>11. Lives'
  BY <1>1 DEF Lives, Sleeping
<1>12. Wakers'
  <2>1. \A x \in CPUs : pc'[x] \in Ttwu \cup {"lock"} => pc[x] \in Ttwu \cup {"lock"}
            /\ target'[x] = target[x]
    BY <1>4 DEF Ttwu
  <2>2. \A x \in CPUs \ {c} : pc'[x] = "rq_lock" \/ pc'[x] \in {"spin", "queue"} =>
            target[x] # p /\ target[x] \in Tasks /\ pc'[x] = pc[x] /\ target'[x] = target[x]
    BY <1>4 DEF Ttwu, Wakers
  <2>3. pc'[c] # "rq_lock" /\ pc'[c] # "queue" /\ (pc'[c] \in Ttwu => target'[c] = p)
    BY <1>4 DEF Ttwu
  <2>4. \A x \in CPUs :
            /\ pc'[x] \in Ttwu \cup {"lock"} => target'[x] \in Tasks
            /\ pc'[x] = "rq_lock" => state'[target'[x]] \in Sleeping \cup {"RUNNING"}
            /\ pc'[x] \in {"spin", "queue"} => state'[target'[x]] = "WAKING"
    BY <1>1, <2>1, <2>2, <2>3 DEF Wakers, Ttwu
  <2>5. \A x, y \in CPUs :
            pc'[x] \in Ttwu /\ pc'[y] \in Ttwu /\ target'[x] = target'[y] => x = y
    BY <1>4, <1>5, <2>3 DEF Wakers
  <2> QED
    BY <2>4, <2>5 DEF Wakers
<1>13. Dropping'
  BY <1>1, <1>9 DEF Dropping, Sleeping
<1>14. IdleTold'
  BY DEF IdleTold
<1>15. BeingWoken'
  <2>1. \A x \in Tasks : InWakeQ(x)' = InWakeQ(x)
    BY DEF InWakeQ
  <2>2. \A x \in Tasks \ {p} : Asked(x) => Asked(x)'
    BY <1>1, <1>4 DEF Asked
  <2> QED
    BY <1>1, <2>1, <2>2 DEF BeingWoken, Sleeping
<1> QED
  BY <1>7, <1>8, <1>10, <1>11, <1>12, <1>13, <1>14, <1>15

LEMMA TtwuLockStep ==
    ASSUME WInv, NEW c \in CPUs, TtwuLock(c)
    PROVE  WInv'
<1> USE WakeupAssumption
<1> DEFINE p == target[c]
<1>1. /\ pc[c] = "lock" /\ PiFree(p)
      /\ UNCHANGED <<on_rq, on_cpu, cpu, in_iowait, cond, sig, tpc, curr, need_resched,
                     wake_q, prev, prev_state, drops>>
  BY DEF TtwuLock
<1>2. p \in Tasks /\ \A x \in CPUs : ~(pc[x] \in Ttwu /\ target[x] = p)
  BY <1>1 DEF WInv, Wakers, PiFree
<1>3. mask[c] \subseteq Sleeping
  BY DEF WInv, Typing
<1>4. \/ state[p] \notin mask[c] /\ TtwuReturn(c) /\ UNCHANGED <<state, wake_list>>
      \/ /\ state[p] \in mask[c] /\ on_rq[p] /\ pc' = [pc EXCEPT ![c] = "rq_lock"]
         /\ UNCHANGED <<state, wake_list, target, mask, migrated>>
      \/ state[p] \in mask[c] /\ ~on_rq[p] /\ Waking(c, p)
  BY DEF TtwuLock
<1>5. CASE state[p] \in mask[c] /\ ~on_rq[p] /\ Waking(c, p)
  <2> HIDE DEF p
  <2> QED
    BY <1>1, <1>2, <1>3, <1>5, WakingStep DEF p
<1>6. CASE \/ state[p] \notin mask[c] /\ TtwuReturn(c) /\ UNCHANGED <<state, wake_list>>
           \/ /\ state[p] \in mask[c] /\ on_rq[p] /\ pc' = [pc EXCEPT ![c] = "rq_lock"]
              /\ UNCHANGED <<state, wake_list, target, mask, migrated>>
  <2> USE DEF WInv
  <2>1. /\ \/ state[p] \notin mask[c] /\ pc'[c] = "run"
           \/ /\ state[p] \in mask[c] /\ on_rq[p] /\ pc'[c] = "rq_lock"
              /\ target'[c] = p /\ mask'[c] = mask[c]
        /\ UNCHANGED <<state, wake_list>>
        /\ \A x \in CPUs \ {c} : pc'[x] = pc[x] /\ target'[x] = target[x] /\ mask'[x] = mask[x]
    BY <1>6 DEF TtwuReturn, Typing
  <2>2. /\ pc' \in [CPUs -> {"run", "finish", "drop", "lock"} \cup Ttwu]
        /\ target' \in [CPUs -> Tasks \cup {Idle}] /\ mask' \in [CPUs -> SUBSET Sleeping]
        /\ migrated' \in [CPUs -> BOOLEAN]
    <3>1. /\ pc \in [CPUs -> {"run", "finish", "drop", "lock"} \cup Ttwu]
          /\ target \in [CPUs -> Tasks \cup {Idle}] /\ mask \in [CPUs -> SUBSET Sleeping]
          /\ migrated \in [CPUs -> BOOLEAN]
      BY DEF Typing
    <3>2. CASE TtwuReturn(c)
      <4> HIDE DEF WInv
      <4> QED
        BY <3>1, <3>2 DEF TtwuReturn
    <3>3. CASE pc' = [pc EXCEPT ![c] = "rq_lock"] /\ UNCHANGED <<target, mask, migrated>>
      <4> HIDE DEF WInv
      <4> QED
        BY <3>1, <3>3 DEF Ttwu
    <3> QED
      BY <1>6, <3>2, <3>3
  <2>3. Typing'
    BY <1>1, <2>1, <2>2 DEF Typing
  <2>4. \A x \in CPUs : /\ pc'[x] = "finish" <=> pc[x] = "finish"
                        /\ pc'[x] = "drop" <=> pc[x] = "drop"
                        /\ pc[x] \in {"spin", "queue"} => pc'[x] = pc[x] /\ target'[x] = target[x]
    BY <1>1, <2>1
  <2>5. Placing'
    BY <1>1, <2>4 DEF Placing, Typing
  <2>6. Lives'
    BY <1>1, <2>1 DEF Lives
  <2>7. Wakers'
    BY <1>2, <1>3, <2>1 DEF Wakers, Ttwu
  <2>8. Wakelists'
    <3>1. \A x \in CPUs : OnWakelist(x)' = OnWakelist(x)
      BY <2>1 DEF OnWakelist
    <3>2. \A x \in CPUs : p \in OnWakelist(x) => state[p] = "WAKING"
      BY <1>2 DEF Wakelists
    <3>3. pc'[c] = "rq_lock" => \A x \in CPUs : p \notin OnWakelist(x)
      BY <1>3, <2>1, <3>2 DEF Sleeping
    <3> QED
      BY <1>1, <2>1, <3>1, <3>3 DEF Wakelists, Ttwu
  <2>9. InCharge'
    <3>1. \A x \in CPUs : OnWakelist(x)' = OnWakelist(x)
      BY <2>1 DEF OnWakelist
    <3> QED
      BY <2>1, <2>4, <3>1 DEF InCharge
  <2>10. Dropping' /\ IdleTold'
    BY <1>1, <2>1, <2>4 DEF Dropping, IdleTold
  <2>11. BeingWoken'
    <3>1. \A x \in Tasks : InWakeQ(x)' = InWakeQ(x)
      BY <1>1 DEF InWakeQ
    <3>2. \A x \in Tasks : Asked(x) => Asked(x)'
      BY <1>1, <2>1 DEF Asked
    <3> QED
      BY <1>1, <2>1, <3>1, <3>2 DEF BeingWoken
  <2> QED
    BY <2>3, <2>5, <2>6, <2>7, <2>8, <2>9, <2>10, <2>11
<1> QED
  BY <1>4, <1>5, <1>6

LEMMA TtwuRunnableStep ==
    ASSUME WInv, NEW c \in CPUs, TtwuRunnable(c)
    PROVE  WInv'
<1> USE WakeupAssumption
<1> DEFINE p == target[c]
<1>1. /\ pc[c] = "rq_lock"
      /\ UNCHANGED <<on_rq, on_cpu, cpu, in_iowait, cond, sig, tpc, curr,
                     wake_q, prev, prev_state, drops>>
  BY DEF TtwuRunnable
<1>2. /\ p \in Tasks /\ cpu[p] \in CPUs /\ \A x \in CPUs \ {c} : ~(pc[x] \in Ttwu /\ target[x] = p)
      /\ state[p] \in Sleeping \cup {"RUNNING"}
  BY <1>1 DEF WInv, Wakers, Ttwu, Typing
<1>3. CASE ~on_rq[p] /\ Waking(c, p) /\ UNCHANGED need_resched
  <2>1. state[p] \in Sleeping
    BY <1>2, <1>3 DEF WInv, Lives
  <2> HIDE DEF p
  <2> QED
    BY <1>1, <1>2, <1>3, <2>1, WakingStep DEF p
<1>4. CASE /\ on_rq[p] /\ state' = [state EXCEPT ![p] = "RUNNING"] /\ CheckPreempt(cpu[p])
           /\ TtwuReturn(c) /\ UNCHANGED wake_list
  <2> USE DEF WInv
  <2>1. /\ state'[p] = "RUNNING" /\ \A y \in Tasks \ {p} : state'[y] = state[y]
        /\ state' \in [Tasks -> States]
    BY <1>2, <1>4 DEF Typing, States
  <2>2. /\ pc'[c] = "run"
        /\ \A x \in CPUs \ {c} : pc'[x] = pc[x] /\ target'[x] = target[x] /\ mask'[x] = mask[x]
    BY <1>4 DEF TtwuReturn, Typing
  <2>3. /\ pc' \in [CPUs -> {"run", "finish", "drop", "lock"} \cup Ttwu]
        /\ target' \in [CPUs -> Tasks \cup {Idle}] /\ mask' \in [CPUs -> SUBSET Sleeping]
        /\ migrated' \in [CPUs -> BOOLEAN]
    BY <1>4 DEF TtwuReturn, Typing, Ttwu
  <2>4. /\ need_resched' \in [CPUs -> BOOLEAN]
        /\ \A d \in CPUs : need_resched[d] => need_resched'[d]
    BY <1>2, <1>4, PreemptEffect
  <2>5. Typing'
    BY <1>1, <1>4, <2>1, <2>3, <2>4 DEF Typing
  <2>6. \A x \in CPUs : /\ pc'[x] = "finish" <=> pc[x] = "finish"
                        /\ pc'[x] = "drop" <=> pc[x] = "drop"
                        /\ pc[x] \in {"spin", "queue"} => pc'[x] = pc[x] /\ target'[x] = target[x]
                        /\ pc'[x] \in Ttwu => pc[x] \in Ttwu /\ target'[x] = target[x]
    BY <1>1, <2>2 DEF Ttwu
  <2>7. Placing'
    BY <1>1, <2>6 DEF Placing, Typing
  <2>8. Lives'
    BY <1>1, <1>2, <1>4, <2>1 DEF Lives, Sleeping
  <2>9. Wakers'
    BY <1>1, <1>2, <2>1, <2>2 DEF Wakers, Ttwu
  <2>10. Wakelists'
    <3>1. \A x \in Tasks : state[x] = "WAKING" => state'[x] = "WAKING" /\ cpu'[x] = cpu[x]
      BY <1>1, <1>2, <2>1 DEF Sleeping
    <3> QED
      BY <1>4, <2>6, <3>1, KeepWakelists
  <2>11. InCharge'
    <3>1. \A x \in Tasks : state'[x] = "WAKING" => state[x] = "WAKING"
      BY <2>1
    <3> QED
      BY <1>4, <2>6, <3>1, KeepInCharge
  <2>12. Dropping' /\ IdleTold'
    BY <1>1, <1>2, <1>4, <2>1, <2>4, <2>6 DEF Dropping, IdleTold, Sleeping
  <2>13. BeingWoken'
    <3>1. \A x \in Tasks : InWakeQ(x)' = InWakeQ(x)
      BY <1>1 DEF InWakeQ
    <3>2. \A x \in Tasks \ {p} : Asked(x) => Asked(x)'
      BY <2>1, <2>2 DEF Asked
    <3> QED
      BY <1>1, <1>4, <2>1, <3>1, <3>2 DEF BeingWoken
  <2> QED
    BY <2>5, <2>7, <2>8, <2>9, <2>10, <2>11, <2>12, <2>13
<1> QED
  <2>1. \/ /\ on_rq[p] /\ state' = [state EXCEPT ![p] = "RUNNING"] /\ CheckPreempt(cpu[p])
           /\ TtwuReturn(c) /\ UNCHANGED wake_list
        \/ ~on_rq[p] /\ Waking(c, p) /\ UNCHANGED need_resched
    BY DEF TtwuRunnable, StillQueued
  <2> QED
    BY <1>3, <1>4, <2>1

\* The callers of try_to_wake_up: what they make true, or take from a wake_q, is what the
\* call is about to act on.
LEMMA BeginStep ==
    ASSUME WInv, NEW c \in CPUs, NEW p \in Tasks, NEW states \in SUBSET Sleeping, pc[c] = "run",
           Begin(c, p, states),
           cond' \in [Tasks -> BOOLEAN], sig' \in [Tasks -> BOOLEAN],
           wake_q' \in [CPUs -> Seq(Tasks)],
           \A x \in Tasks : cond'[x] => cond[x] \/ (x = p /\ states = Sleeping),
           \A x \in Tasks : sig'[x] => sig[x] \/ (x = p /\ "INTERRUPTIBLE" \in states),
           \A x \in Tasks : InWakeQ(x) => InWakeQ(x)' \/ (x = p /\ states = Sleeping),
           UNCHANGED <<on_rq, on_cpu, cpu, in_iowait, tpc, curr, need_resched, wake_list,
                       prev, prev_state, migrated, drops>>
    PROVE  WInv'
<1> USE WakeupAssumption DEF WInv
<1>1. /\ \/ /\ p = curr[c] /\ pc'[c] = "run"
            /\ target'[c] = target[c] /\ mask'[c] = mask[c]
            /\ state'[p] = IF state[p] \in states THEN "RUNNING" ELSE state[p]
         \/ /\ p # curr[c] /\ pc'[c] = "lock" /\ target'[c] = p /\ mask'[c] = states
            /\ state'[p] = state[p]
      /\ \A y \in Tasks \ {p} : state'[y] = state[y]
      /\ \A x \in CPUs \ {c} : pc'[x] = pc[x] /\ target'[x] = target[x] /\ mask'[x] = mask[x]
      /\ state' \in [Tasks -> States]
      /\ pc' \in [CPUs -> {"run", "finish", "drop", "lock"} \cup Ttwu]
      /\ target' \in [CPUs -> Tasks \cup {Idle}] /\ mask' \in [CPUs -> SUBSET Sleeping]
  <2>1. /\ pc \in [CPUs -> {"run", "finish", "drop", "lock"} \cup Ttwu]
        /\ target \in [CPUs -> Tasks \cup {Idle}] /\ mask \in [CPUs -> SUBSET Sleeping]
        /\ state \in [Tasks -> States] /\ "RUNNING" \in States
    BY DEF Typing, States
  <2>2. CASE p = curr[c]
    <3>1. /\ state' = [state EXCEPT ![p] = IF @ \in states THEN "RUNNING" ELSE @]
          /\ UNCHANGED <<pc, target, mask>>
      BY <2>2 DEF Begin
    <3> HIDE DEF WInv
    <3> QED
      BY <2>1, <2>2, <3>1
  <2>3. CASE p # curr[c]
    <3>1. /\ pc' = [pc EXCEPT ![c] = "lock"]
          /\ target' = [target EXCEPT ![c] = p] /\ mask' = [mask EXCEPT ![c] = states]
          /\ UNCHANGED state
      BY <2>3 DEF Begin
    <3> HIDE DEF WInv
    <3> QED
      BY <2>1, <2>3, <3>1
  <2> QED
    BY <2>2, <2>3
<1>2. Typing'
  BY <1>1 DEF Typing
<1>3. \A x \in CPUs : /\ pc'[x] = "finish" <=> pc[x] = "finish"
                      /\ pc'[x] = "drop" <=> pc[x] = "drop"
                      /\ pc[x] \in {"spin", "queue"} => pc'[x] = pc[x] /\ target'[x] = target[x]
                      /\ pc'[x] \in Ttwu => pc[x] \in Ttwu /\ target'[x] = target[x]
                                            /\ pc'[x] = pc[x]
  BY <1>1 DEF Ttwu
<1>4. \A x \in Tasks : \/ state'[x] = state[x]
                       \/ /\ x = p /\ p = curr[c] /\ on_rq[x] /\ state[x] \in Sleeping
                          /\ state'[x] = "RUNNING"
  BY <1>1 DEF Placing
<1>5. Placing'
  BY SMTT(30), <1>3 DEF Placing, Typing
<1>6. Lives'
  BY <1>4 DEF Lives, Sleeping
<1>7. Wakers'
  <2>1. \A x \in CPUs : pc'[x] \in Ttwu \cup {"lock"} => target'[x] \in Tasks
    <3>1. pc'[c] \in Ttwu \cup {"lock"} => target'[c] \in Tasks
      BY <1>1 DEF Ttwu
    <3>2. \A x \in CPUs \ {c} : pc'[x] = pc[x] /\ target'[x] = target[x]
      BY <1>1
    <3>3. \A x \in CPUs : pc[x] \in Ttwu \cup {"lock"} => target[x] \in Tasks
      BY DEF Wakers
    <3> HIDE DEF WInv
    <3> QED
      BY <3>1, <3>2, <3>3
  <2>2. \A x \in CPUs : pc'[x] = "rq_lock" => state'[target'[x]] \in Sleeping \cup {"RUNNING"}
    BY <1>3, <1>4 DEF Wakers, Ttwu
  <2>3. \A x \in CPUs : pc'[x] \in {"spin", "queue"} => state'[target'[x]] = "WAKING"
    <3>1. \A x \in CPUs : pc'[x] \in {"spin", "queue"} =>
            target'[x] = target[x] /\ target[x] \in Tasks /\ state[target[x]] = "WAKING"
      BY <1>3 DEF Wakers, Ttwu
    <3>2. \A y \in Tasks : state[y] = "WAKING" => state'[y] = "WAKING"
      BY <1>4 DEF Sleeping
    <3> QED
      BY <3>1, <3>2
  <2> QED
    BY <1>3, <2>1, <2>2, <2>3 DEF Wakers
<1>8. Wakelists'
  <2>1. \A x \in Tasks : state[x] = "WAKING" => state'[x] = "WAKING" /\ cpu'[x] = cpu[x]
    BY <1>4 DEF Sleeping
  <2> QED
    BY <1>3, <2>1, KeepWakelists
<1>9. InCharge'
  <2>1. \A x \in Tasks : state'[x] = "WAKING" => state[x] = "WAKING"
    BY <1>4
  <2> QED
    BY <1>3, <2>1, KeepInCharge
<1>10. Dropping' /\ IdleTold'
  <2>1. \A y \in Tasks : state[y] = "DEAD" => state'[y] = "DEAD"
    BY <1>4 DEF Sleeping
  <2>2. Dropping'
    BY <1>3, <2>1 DEF Dropping
  <2>3. IdleTold'
    BY DEF IdleTold
  <2> QED
    BY <2>2, <2>3
<1>11. BeingWoken'
  <2> SUFFICES ASSUME NEW x \in Tasks, state'[x] \in Sleeping, ~on_rq[x]
               PROVE  /\ cond'[x] => Asked(x)' \/ InWakeQ(x)'
                      /\ sig'[x] /\ state'[x] = "INTERRUPTIBLE" => Asked(x)'
    BY DEF BeingWoken
  <2>1. state'[x] = state[x] /\ x # curr[c]
    BY <1>4 DEF Placing
  <2>2. Asked(x) => Asked(x)'
    BY <1>1, <2>1 DEF Asked
  <2>3. x = p /\ state[x] \in states => Asked(x)'
    BY <1>1, <2>1 DEF Asked
  <2>4. /\ cond[x] => Asked(x) \/ InWakeQ(x)
        /\ sig[x] /\ state[x] = "INTERRUPTIBLE" => Asked(x)
    BY <2>1 DEF BeingWoken
  <2> QED
    BY <2>1, <2>2, <2>3, <2>4
<1> QED
  BY <1>2, <1>5, <1>6, <1>7, <1>8, <1>9, <1>10, <1>11

LEMMA WakeUpProcessStep ==
    ASSUME WInv, NEW c \in CPUs, NEW p \in Tasks, WakeUpProcess(c, p)
    PROVE  WInv'
<1>1. /\ pc[c] = "run" /\ cond' = [cond EXCEPT ![p] = TRUE] /\ Begin(c, p, Sleeping)
      /\ UNCHANGED <<on_rq, on_cpu, cpu, in_iowait, sig, tpc, curr, need_resched, wake_list,
                     wake_q, prev, prev_state, migrated, drops>>
  BY DEF WakeUpProcess, rqVars
<1>2. /\ cond' \in [Tasks -> BOOLEAN] /\ sig' \in [Tasks -> BOOLEAN]
      /\ wake_q' \in [CPUs -> Seq(Tasks)]
      /\ \A x \in Tasks : cond'[x] => cond[x] \/ x = p
  BY <1>1 DEF WInv, Typing
<1>3. \A x \in Tasks : InWakeQ(x) => InWakeQ(x)'
  BY <1>1 DEF InWakeQ
<1> QED
  BY <1>1, <1>2, <1>3, BeginStep

LEMMA WakeUpStateStep ==
    ASSUME WInv, NEW c \in CPUs, NEW p \in Tasks, WakeUpState(c, p)
    PROVE  WInv'
<1>1. /\ pc[c] = "run" /\ sig' = [sig EXCEPT ![p] = TRUE] /\ Begin(c, p, {"INTERRUPTIBLE"})
      /\ UNCHANGED <<on_rq, on_cpu, cpu, in_iowait, cond, tpc, curr, need_resched, wake_list,
                     wake_q, prev, prev_state, migrated, drops>>
  BY DEF WakeUpState, rqVars
<1>2. /\ cond' \in [Tasks -> BOOLEAN] /\ sig' \in [Tasks -> BOOLEAN]
      /\ wake_q' \in [CPUs -> Seq(Tasks)]
      /\ \A x \in Tasks : sig'[x] => sig[x] \/ x = p
  BY <1>1 DEF WInv, Typing
<1>3. \A x \in Tasks : InWakeQ(x) => InWakeQ(x)'
  BY <1>1 DEF InWakeQ
<1> DEFINE states == {"INTERRUPTIBLE"}
<1>4. states \in SUBSET Sleeping /\ "INTERRUPTIBLE" \in states /\ Begin(c, p, states)
  BY <1>1 DEF Sleeping
<1> HIDE DEF states
<1> QED
  BY <1>1, <1>2, <1>3, <1>4, BeginStep

LEMMA WakeUpQStep ==
    ASSUME WInv, NEW c \in CPUs, WakeUpQ(c)
    PROVE  WInv'
<1> DEFINE p == Head(wake_q[c])
<1>1. /\ pc[c] = "run" /\ wake_q[c] # <<>> /\ Begin(c, p, Sleeping)
      /\ wake_q' = [wake_q EXCEPT ![c] = Tail(@)]
      /\ UNCHANGED <<on_rq, on_cpu, cpu, in_iowait, cond, sig, tpc, curr, need_resched, wake_list,
                     prev, prev_state, migrated, drops>>
  BY DEF WakeUpQ
<1>2. /\ wake_q' \in [CPUs -> Seq(Tasks)] /\ p \in Tasks
      /\ \A x \in Tasks : InWakeQ(x) => InWakeQ(x)' \/ x = p
  BY <1>1, WakeQTaken DEF WInv
<1>3. cond' \in [Tasks -> BOOLEAN] /\ sig' \in [Tasks -> BOOLEAN]
  BY <1>1 DEF WInv, Typing
<1> HIDE DEF p
<1> QED
  BY <1>1, <1>2, <1>3, BeginStep
--------------------------------------------------------------------------------
(* __schedule *)

\* A task leaves the CPU for good only if nothing has happened that it would have to be
\* woken for, and a dead one always leaves it.
LEMMA SwitchedStep ==
    ASSUME WInv, NEW c \in CPUs, NEW preempt \in BOOLEAN, pc[c] = "run", Switched(c, preempt),
           curr[c] \in Tasks /\ tpc[curr[c]] = "dead" => ~preempt,
           curr[c] \in Tasks /\ ~preempt => ~cond[curr[c]] \/ tpc[curr[c]] = "dead",
           in_iowait' \in [Tasks -> BOOLEAN],
           tpc' \in [Tasks -> {"work", "check", "asleep", "dead"}],
           \A t \in Tasks : tpc'[t] = "dead" <=> tpc[t] = "dead"
    PROVE  WInv'
<1> USE WakeupAssumption DEF WInv
<1> DEFINE p == curr[c]
           off == Sleeps(p, preempt)
<1>1. /\ \A t \in Tasks : on_rq'[t] <=> on_rq[t] /\ ~(off /\ t = p)
      /\ \A t \in Tasks : on_cpu'[t] <=> t = curr'[c] \/ on_cpu[t]
      /\ UNCHANGED <<cpu, cond, sig, wake_list, wake_q, prev_state, target, mask, migrated, drops>>
  BY DEF Switched, Typing
<1>2. \A t \in Tasks : \/ state'[t] = state[t]
                       \/ /\ t = p /\ ~off
                          /\ state[t] = "INTERRUPTIBLE" /\ state'[t] = "RUNNING"
  BY DEF Switched
<1>3. /\ \A d \in CPUs \ {c} : /\ curr'[d] = curr[d] /\ pc'[d] = pc[d] /\ prev'[d] = prev[d]
                               /\ need_resched'[d] = need_resched[d]
      /\ \/ curr'[c] = Idle /\ \A t \in Tasks : ~(on_rq'[t] /\ cpu[t] = c)
         \/ curr'[c] \in Tasks /\ on_rq'[curr'[c]] /\ cpu[curr'[c]] = c
      /\ \/ curr'[c] = p /\ pc'[c] = "run"
         \/ curr'[c] # p /\ pc'[c] = "finish" /\ prev'[c] = p
  BY DEF Switched
<1>4. /\ off => p # Idle /\ ~preempt /\ state[p] # "RUNNING"
      /\ p \in Tasks /\ state[p] = "DEAD" => off
      /\ off /\ state[p] = "INTERRUPTIBLE" => ~sig[p]
  BY DEF Sleeps, SignalPending, Lives
<1>5. p \in Tasks => cpu[p] = c /\ on_rq[p] /\ on_cpu[p]
  BY DEF Placing
<1>6. p \in Tasks \cup {Idle} /\ \A t \in Tasks : cpu[t] \in CPUs
  BY DEF Typing
<1>7. Typing'
  BY DEF Switched, Typing
<1> HIDE DEF p, off
<1>8. \A x \in CPUs : /\ pc'[x] = "drop" <=> pc[x] = "drop"
                      /\ pc'[x] = "drop" => prev'[x] = prev[x]
                      /\ pc[x] \in Ttwu \cup {"lock"} <=> pc'[x] \in Ttwu \cup {"lock"}
                      /\ pc[x] \in Ttwu \cup {"lock"} => pc'[x] = pc[x]
                      /\ pc'[x] \in Ttwu => pc[x] \in Ttwu
  BY <1>3 DEF Ttwu
<1>9. Placing'
  <2>1. \A d \in CPUs, t \in Tasks : curr'[d] = t => cpu[t] = d /\ on_rq'[t] /\ on_cpu'[t]
    BY <1>1, <1>3, <1>5 DEF Placing
  <2>2. \A d \in CPUs, t \in Tasks : pc'[d] = "finish" /\ prev'[d] = t =>
            cpu[t] = d /\ on_cpu'[t] /\ curr'[d] # t
    <3>1. \A t \in Tasks : pc'[c] = "finish" /\ prev'[c] = t =>
            cpu[t] = c /\ on_cpu'[t] /\ curr'[c] # t
      BY <1>1, <1>3, <1>5
    <3>2. \A d \in CPUs \ {c}, t \in Tasks : pc'[d] = "finish" /\ prev'[d] = t =>
            cpu[t] = d /\ on_cpu'[t] /\ curr'[d] # t
      BY <1>1, <1>3 DEF Placing
    <3> QED
      BY <3>1, <3>2
  <2>3. ASSUME NEW t \in Tasks, on_cpu'[t]
        PROVE  curr'[cpu[t]] = t \/ (pc'[cpu[t]] = "finish" /\ prev'[cpu[t]] = t)
    <3>1. CASE t = curr'[c]
      BY <1>3, <1>6, <3>1, WakeupAssumption
    <3>2. CASE on_cpu[t]
      BY <1>3, <1>6, <3>2 DEF Placing, p
    <3> QED
      BY <1>1, <2>3, <3>1, <3>2
  <2> QED
    BY <1>1, <2>1, <2>2, <2>3 DEF Placing
<1>10. Lives'
  <2> SUFFICES ASSUME NEW t \in Tasks
               PROVE  /\ on_rq'[t] => state'[t] \notin {"WAKING", "unborn"}
                      /\ ~on_rq'[t] => state'[t] # "RUNNING"
                      /\ state'[t] = "unborn" => ~on_cpu'[t]
                      /\ tpc'[t] = "dead" <=> state'[t] = "DEAD"
                      /\ state'[t] = "DEAD" /\ on_rq'[t] => curr'[cpu[t]] = t
    BY <1>1 DEF Lives
  <2>1. /\ on_rq[t] => state[t] \notin {"WAKING", "unborn"}
        /\ ~on_rq[t] => state[t] # "RUNNING"
        /\ state[t] = "unborn" => ~on_cpu[t]
        /\ tpc[t] = "dead" <=> state[t] = "DEAD"
        /\ state[t] = "DEAD" /\ on_rq[t] => curr[cpu[t]] = t
    BY DEF Lives
  <2>2. t = curr'[c] => on_rq[t]
    BY <1>1, <1>3, WakeupAssumption
  <2>3. ~on_rq'[t] => state'[t] # "RUNNING"
    BY <1>1, <1>2, <1>4, <1>5, <2>1
  <2>4. state'[t] = "DEAD" /\ on_rq'[t] => curr'[cpu[t]] = t
    <3> SUFFICES ASSUME state'[t] = "DEAD", on_rq'[t] PROVE curr'[cpu[t]] = t
      OBVIOUS
    <3>1. state[t] = "DEAD" /\ curr[cpu[t]] = t
      BY <1>1, <1>2, <2>1
    <3>2. t # p
      BY <1>1, <1>4, <3>1
    <3>3. cpu[t] # c
      BY <3>1, <3>2 DEF p
    <3> QED
      BY <1>3, <1>6, <3>1, <3>3
  <2> QED
    BY <1>1, <1>2, <2>1, <2>2, <2>3, <2>4
<1>11. Wakers'
  <2>1. \A x \in CPUs : pc'[x] \in Ttwu \cup {"lock"} => target'[x] \in Tasks
    BY <1>1, <1>8 DEF Wakers
  <2>2. \A x \in CPUs : pc'[x] = "rq_lock" => state'[target'[x]] \in Sleeping \cup {"RUNNING"}
    BY <1>1, <1>2, <1>8 DEF Wakers, Ttwu
  <2>3. \A x \in CPUs : pc'[x] \in {"spin", "queue"} => state'[target'[x]] = "WAKING"
    BY <1>1, <1>2, <1>8 DEF Wakers, Ttwu
  <2> QED
    BY <1>1, <1>8, <2>1, <2>2, <2>3 DEF Wakers
<1>12. Wakelists'
  <2>1. \A x \in Tasks : state[x] = "WAKING" => state'[x] = "WAKING" /\ cpu'[x] = cpu[x]
    BY <1>1, <1>2
  <2>2. \A d \in CPUs : pc'[d] \in Ttwu => pc[d] \in Ttwu /\ target'[d] = target[d]
    BY <1>1, <1>8
  <2> QED
    BY <1>1, <2>1, <2>2, KeepWakelists
<1>13. InCharge'
  <2>1. \A x \in Tasks : state'[x] = "WAKING" => state[x] = "WAKING"
    BY <1>2
  <2>2. \A d \in CPUs : pc[d] \in {"spin", "queue"} =>
            pc'[d] \in {"spin", "queue"} /\ target'[d] = target[d]
    BY <1>1, <1>8 DEF Ttwu
  <2> QED
    BY <1>1, <2>1, <2>2, KeepInCharge
<1>14. Dropping'
  <2>1. \A t \in Tasks : state[t] = "DEAD" /\ ~on_cpu[t] /\ ~on_rq[t] =>
            state'[t] = "DEAD" /\ ~on_cpu'[t] /\ ~on_rq'[t]
    BY <1>1, <1>2, <1>3, WakeupAssumption
  <2>2. \A t \in Tasks : drops'[t] = drops[t]
    BY <1>1
  <2>3. \A x \in CPUs, t \in Tasks : pc'[x] = "drop" /\ prev_state'[x] = "DEAD" /\ prev'[x] = t =>
            pc[x] = "drop" /\ prev_state[x] = "DEAD" /\ prev[x] = t
    BY <1>1, <1>8
  <2>4. \A t \in Tasks : drops'[t] > 0 =>
            drops'[t] = 1 /\ state'[t] = "DEAD" /\ ~on_cpu'[t] /\ ~on_rq'[t]
    BY <2>1, <2>2 DEF Dropping
  <2>5. \A x \in CPUs, t \in Tasks :
            pc'[x] = "drop" /\ prev_state'[x] = "DEAD" /\ prev'[x] = t =>
            /\ state'[t] = "DEAD" /\ ~on_cpu'[t] /\ ~on_rq'[t] /\ drops'[t] = 0
            /\ \A d \in CPUs : pc'[d] = "drop" /\ prev_state'[d] = "DEAD" /\ prev'[d] = t => x = d
    BY <2>1, <2>2, <2>3 DEF Dropping
  <2> QED
    BY <2>4, <2>5 DEF Dropping
<1>15. IdleTold'
  BY <1>1, <1>3, WakeupAssumption DEF IdleTold
<1>16. BeingWoken'
  <2>1. \A x \in Tasks : InWakeQ(x)' = InWakeQ(x)
    BY <1>1 DEF InWakeQ
  <2>2. \A x \in Tasks : state'[x] = state[x] /\ Asked(x) => Asked(x)'
    BY <1>1, <1>8 DEF Asked, Ttwu
  <2>3. \A x \in Tasks : state'[x] \in Sleeping /\ ~on_rq'[x] => state'[x] = state[x]
    BY <1>2 DEF Sleeping
  <2>4. off /\ state[p] \in Sleeping => ~cond[p]
    BY <1>4, <1>6 DEF Lives, Sleeping, p
  <2>5. \A x \in Tasks : cond'[x] = cond[x] /\ sig'[x] = sig[x]
    BY <1>1
  <2> SUFFICES ASSUME NEW x \in Tasks, state'[x] \in Sleeping, ~on_rq'[x]
               PROVE  /\ cond[x] => Asked(x)' \/ InWakeQ(x)'
                      /\ sig[x] /\ state'[x] = "INTERRUPTIBLE" => Asked(x)'
    BY <2>5 DEF BeingWoken
  <2>6. CASE on_rq[x]
    BY <1>1, <1>4, <2>3, <2>4, <2>6
  <2>7. CASE ~on_rq[x]
    BY <2>1, <2>2, <2>3, <2>7 DEF BeingWoken
  <2> QED
    BY <2>6, <2>7
<1> QED
  BY <1>7, <1>9, <1>10, <1>11, <1>12, <1>13, <1>14, <1>15, <1>16

LEMMA SleepStep ==
    ASSUME WInv, NEW c \in CPUs, NEW t \in Tasks, NEW io \in BOOLEAN, Sleep(c, t, io)
    PROVE  WInv'
<1>1. /\ pc[c] = "run" /\ curr[c] = t /\ tpc[t] = "check" /\ ~cond[t]
      /\ DoSchedule(c, curr[c], FALSE, io)
      /\ in_iowait' = [in_iowait EXCEPT ![t] = io] /\ tpc' = [tpc EXCEPT ![t] = "asleep"]
  BY DEF Sleep, Running
<1>2. Switched(c, FALSE)
  BY <1>1, ScheduleEffect DEF WInv
<1>3. /\ in_iowait' \in [Tasks -> BOOLEAN]
      /\ tpc' \in [Tasks -> {"work", "check", "asleep", "dead"}]
      /\ \A x \in Tasks : tpc'[x] = "dead" <=> tpc[x] = "dead"
  BY <1>1 DEF WInv, Typing
<1> QED
  BY <1>1, <1>2, <1>3, SwitchedStep

LEMMA LastScheduleStep ==
    ASSUME WInv, NEW c \in CPUs, NEW t \in Tasks, LastSchedule(c, t)
    PROVE  WInv'
<1>1. /\ pc[c] = "run" /\ curr[c] = t /\ tpc[t] = "dead"
      /\ DoSchedule(c, curr[c], FALSE, in_iowait[t]) /\ UNCHANGED <<in_iowait, tpc>>
  BY DEF LastSchedule, Running
<1>2. Switched(c, FALSE)
  BY <1>1, ScheduleEffect DEF WInv
<1>3. /\ in_iowait' \in [Tasks -> BOOLEAN]
      /\ tpc' \in [Tasks -> {"work", "check", "asleep", "dead"}]
      /\ \A x \in Tasks : tpc'[x] = "dead" <=> tpc[x] = "dead"
  BY <1>1 DEF WInv, Typing
<1> QED
  BY <1>1, <1>2, <1>3, SwitchedStep

LEMMA ReschedStep ==
    ASSUME WInv, NEW c \in CPUs, Resched(c)
    PROVE  WInv'
<1> DEFINE preempt == curr[c] # Idle
<1>1. /\ pc[c] = "run" /\ (curr[c] # Idle => tpc[curr[c]] # "dead")
      /\ DoSchedule(c, curr[c], preempt, FALSE) /\ UNCHANGED <<in_iowait, tpc>>
  BY DEF Resched
<1>2. preempt \in BOOLEAN /\ (curr[c] \in Tasks => preempt)
  BY WakeupAssumption
<1> HIDE DEF preempt
<1>3. Switched(c, preempt)
  BY <1>1, <1>2, ScheduleEffect DEF WInv
<1>4. /\ in_iowait' \in [Tasks -> BOOLEAN]
      /\ tpc' \in [Tasks -> {"work", "check", "asleep", "dead"}]
      /\ \A x \in Tasks : tpc'[x] = "dead" <=> tpc[x] = "dead"
  BY <1>1 DEF WInv, Typing
<1>5. curr[c] \in Tasks => tpc[curr[c]] # "dead"
  BY <1>1, WakeupAssumption
<1> QED
  BY <1>1, <1>2, <1>3, <1>4, <1>5, SwitchedStep
--------------------------------------------------------------------------------
(* The theorems *)

LEMMA WInit == Init => WInv
<1> SUFFICES ASSUME Init PROVE WInv
  OBVIOUS
<1> USE WakeupAssumption DEF Init
<1>0. BootCPU \in CPUs
  BY DEF BootCPU
<1>1. Typing
  <2>1. /\ state \in [Tasks -> States] /\ on_rq \in [Tasks -> BOOLEAN]
        /\ on_cpu \in [Tasks -> BOOLEAN] /\ cpu \in [Tasks -> CPUs]
        /\ prev_state \in [CPUs -> States]
    BY <1>0 DEF States
  <2>2. in_iowait = on_cpu /\ cond = on_cpu /\ sig = on_cpu /\ prev = curr /\ target = curr
    BY DEF Init
  <2>3. /\ wake_list \in [CPUs -> SUBSET (Tasks \X BOOLEAN)]
        /\ wake_q \in [CPUs -> Seq(Tasks)] /\ mask \in [CPUs -> SUBSET Sleeping]
    BY DEF Init
  <2> QED
    BY <2>1, <2>2, <2>3 DEF Typing
<1>2. Placing
  BY DEF Placing
<1>6. Lives
  BY DEF Lives
<1>7. Wakers /\ Dropping
  BY DEF Wakers, Dropping, Ttwu
<1>3. \A c \in CPUs : OnWakelist(c) = {}
  BY DEF OnWakelist
<1>4. Wakelists /\ InCharge
  BY <1>3 DEF Wakelists, InCharge
<1>5. IdleTold /\ BeingWoken
  BY DEF IdleTold, BeingWoken, Sleeping, BootCPU
<1> QED
  BY <1>1, <1>2, <1>4, <1>5, <1>6, <1>7 DEF WInv

LEMMA WStutter == WInv /\ UNCHANGED vars => WInv'
<1> SUFFICES ASSUME WInv, UNCHANGED vars PROVE WInv'
  OBVIOUS
<1>1. UNCHANGED <<state, on_rq, on_cpu, cpu, in_iowait, cond, sig, tpc, curr, need_resched,
                  wake_list, wake_q, pc, prev, prev_state, target, mask, migrated, drops>>
  BY DEF vars, taskVars, rqVars, pcVars
<1>2. \A c \in CPUs : OnWakelist(c)' = OnWakelist(c)
  BY <1>1 DEF OnWakelist
<1>3. \A p \in Tasks : InWakeQ(p)' = InWakeQ(p) /\ Asked(p)' = Asked(p)
  BY <1>1 DEF InWakeQ, Asked
<1>4. Typing' /\ Placing' /\ Lives' /\ Wakers' /\ Dropping' /\ IdleTold'
  BY <1>1 DEF WInv, Typing, Placing, Lives, Wakers, Dropping, IdleTold
<1>5. Wakelists' /\ InCharge' /\ BeingWoken'
  BY <1>1, <1>2, <1>3 DEF WInv, Wakelists, InCharge, BeingWoken
<1> QED
  BY <1>4, <1>5 DEF WInv

LEMMA WNext == WInv /\ [Next]_vars => WInv'
<1> SUFFICES ASSUME WInv, [Next]_vars PROVE WInv'
  OBVIOUS
<1> USE WakeupAssumption
<1>1. CASE UNCHANGED vars
  BY <1>1, WStutter
<1>2. ASSUME NEW c \in CPUs, TaskStep(c) PROVE WInv'
  <2>1. PICK t \in Tasks :
        \/ \E s \in Sleeping : SetState(c, t, s)
        \/ LeaveLoop(c, t)
        \/ Returned(c, t)
        \/ \E p \in Tasks, d \in CPUs : WakeUpNewTask(c, t, p, d)
        \/ \E p \in Tasks : ReleaseTask(c, t, p)
        \/ DoTaskDead(c, t)
        \/ \E io \in {FALSE, state[t] = "UNINTERRUPTIBLE"} : Sleep(c, t, io)
        \/ LastSchedule(c, t)
    BY <1>2 DEF TaskStep
  <2>2. ASSUME NEW io \in {FALSE, state[t] = "UNINTERRUPTIBLE"}, Sleep(c, t, io) PROVE WInv'
    <3>1. io \in BOOLEAN
      BY Zenon
    <3> QED
      BY <2>2, <3>1, SleepStep
  <2> QED
    BY <2>1, <2>2, SetStateStep, LeaveLoopStep, ReturnedStep, WakeUpNewTaskStep,
       ReleaseTaskStep, DoTaskDeadStep, LastScheduleStep
<1>3. ASSUME NEW c \in CPUs, SwitchStep(c) PROVE WInv'
  BY <1>3, FinishTaskStep, PutTaskStep DEF SwitchStep
<1>4. ASSUME NEW c \in CPUs, WakeStep(c) PROVE WInv'
  BY <1>4, TtwuLockStep, TtwuRunnableStep, TtwuSelectStep, TtwuQueueRemoteStep,
     TtwuQueueLocalStep DEF WakeStep
<1>5. ASSUME NEW c \in CPUs, Event(c) PROVE WInv'
  BY <1>5, WakeUpProcessStep, WakeUpStateStep, WakeQAddStep, SchedulerTickStep DEF Event
<1> QED
  BY <1>1, <1>2, <1>3, <1>4, <1>5, ReschedStep, WakeUpQStep, TtwuPendingStep DEF Next

\* The invariant holds in every reachable state, for any number of tasks and CPUs, any
\* topology and any set of boot tasks.
THEOREM WakeupInvariant == Spec => []WInv
  BY WInit, WNext, PTL DEF Spec

LEMMA InvSingleStack == WInv => SingleStack
<1> SUFFICES ASSUME WInv PROVE SingleStack
  OBVIOUS
<1> USE WakeupAssumption DEF WInv
<1>1. ASSUME NEW t \in Tasks PROVE Cardinality({c \in CPUs : t \in Busy(c)}) <= 1
  <2> DEFINE S == {c \in CPUs : t \in Busy(c)}
  <2>1. cpu[t] \in CPUs /\ S \subseteq {cpu[t]}
    BY DEF Busy, Placing, Typing
  <2>2. IsFiniteSet({cpu[t]}) /\ Cardinality({cpu[t]}) = 1
    BY FS_Singleton
  <2>3. Cardinality(S) <= Cardinality({cpu[t]})
    BY <2>1, <2>2, FS_Subset
  <2> QED
    BY <2>2, <2>3
<1>2. ASSUME NEW c \in CPUs, NEW p \in Tasks, p \in OnWakelist(c)
      PROVE  /\ cpu[p] = c /\ state[p] = "WAKING" /\ ~on_rq[p]
             /\ on_cpu[p] => pc[c] = "finish"
  <2>1. cpu[p] = c /\ state[p] = "WAKING" /\ ~on_rq[p]
    BY <1>2 DEF Wakelists, Lives
  <2>2. on_cpu[p] => pc[c] = "finish"
    BY <2>1 DEF Placing
  <2> QED
    BY <2>1, <2>2
<1>3. ASSUME NEW c \in CPUs, pc[c] \in {"lock", "rq_lock"}, ~on_rq[target[c]], on_cpu[target[c]]
      PROVE  cpu[target[c]] # c
  <2>1. target[c] \in Tasks
    BY <1>3 DEF Wakers, Ttwu
  <2> QED
    BY <1>3, <2>1 DEF Placing
<1> QED
  BY <1>1, <1>2, <1>3 DEF SingleStack, WakelistInOrder

\* No two CPUs use the stack of one task, and the wakelists are in order: try_to_wake_up
\* waits for p->on_cpu, or leaves the task to the CPU that switches away from it.
THEOREM SingleStackCorrect == Spec => []SingleStack
  BY WakeupInvariant, InvSingleStack, PTL

LEMMA InvDeadOnce == WInv => DeadOnce
  BY DEF WInv, DeadOnce, Lives, Dropping, Typing

\* A task past do_task_dead stays TASK_DEAD, and finish_task_switch drops its reference at
\* most once: set_special_state waits for the pi_lock of a wakeup that has seen an earlier
\* state, and prev_state is read before finish_task.
THEOREM DeadOnceCorrect == Spec => []DeadOnce
  BY WakeupInvariant, InvDeadOnce, PTL

LEMMA InvNoLostWakeup == WInv => NoLostWakeup
<1> SUFFICES ASSUME WInv PROVE NoLostWakeup
  OBVIOUS
<1> USE DEF WInv
<1>1. IdleWoken
  BY DEF IdleWoken, IdleTold, Queued
<1>2. ASSUME NEW p \in Tasks, state[p] = "WAKING", NEW m PROVE WakeupUnderway(p, m)
  BY <1>2 DEF InCharge, WakeupUnderway, Ttwu
<1>3. ASSUME NEW p \in Tasks, Asked(p) PROVE WakeupUnderway(p, state[p])
  BY <1>3 DEF Asked, WakeupUnderway, Ttwu
<1>4. ASSUME NEW p \in Tasks, state[p] \in Sleeping \cup {"WAKING"}, ~on_rq[p]
      PROVE  /\ cond[p] => WakeupUnderway(p, state[p]) \/ InWakeQ(p)
             /\ sig[p] /\ state[p] # "UNINTERRUPTIBLE" => WakeupUnderway(p, "INTERRUPTIBLE")
  <2>1. CASE state[p] = "WAKING"
    BY <1>2, <2>1
  <2>2. CASE state[p] \in Sleeping
    <3>1. state[p] # "UNINTERRUPTIBLE" => state[p] = "INTERRUPTIBLE"
      BY <2>2 DEF Sleeping
    <3>2. /\ cond[p] => Asked(p) \/ InWakeQ(p)
          /\ sig[p] /\ state[p] = "INTERRUPTIBLE" => Asked(p)
      BY <1>4, <2>2 DEF BeingWoken
    <3> QED
      BY <1>3, <3>1, <3>2
  <2> QED
    BY <1>4, <2>1, <2>2
<1> QED
  BY <1>1, <1>4 DEF NoLostWakeup

\* No order of set_current_state, the test of the condition, schedule, try_to_wake_up,
\* wake_q_add and the IPI leaves a task asleep that nobody is about to wake.
THEOREM NoLostWakeupCorrect == Spec => []NoLostWakeup
  BY WakeupInvariant, InvNoLostWakeup, PTL
--------------------------------------------------------------------------------
(* The sum of a counter over the CPUs *)

\* The sum of MapThenSumSet, which takes the elements of a set in the order of CHOOSE.
First(s) == CHOOSE x \in s : TRUE
Rest(s) == s \ {First(s)}
SumTo(f) == CHOOSE g : g = [s \in SUBSET CPUs |->
    IF s = {} THEN 0 ELSE f[First(s)] + g[Rest(s)]]

\* The recursion up to sets of n CPUs: what there is a function for at every size.
UpTo(n) == {s \in SUBSET CPUs : Cardinality(s) <= n}
SumsOf(f, g, n) == \A s \in UpTo(n) :
    g[s] = IF s = {} THEN 0 ELSE f[First(s)] + g[Rest(s)]

\* A set of naturals has a least member: what stands for induction below.
LEMMA Least == ASSUME NEW S \in SUBSET Nat, S # {}
    PROVE \E x \in S : \A y \in S : ~(y < x)
<1> DEFINE R == OpToRel(<, Nat)
<1>1. IsWellFoundedOn(R, Nat)
  BY NatLessThanWellFounded
<1>2. PICK x \in S : \A y \in S : ~ (<<y, x>> \in R)
  <2> HIDE DEF R
  <2> QED
    BY <1>1, WFMin
<1>3. \A y \in Nat : y < x => <<y, x>> \in R
  BY DEF OpToRel
<1> QED
  BY <1>2, <1>3 DEF R

LEMMA SetOfCPUs == ASSUME NEW s \in SUBSET CPUs
    PROVE /\ IsFiniteSet(s) /\ Cardinality(s) \in Nat /\ Cardinality(s) <= Cardinality(CPUs)
          /\ Cardinality(s) = 0 <=> s = {}
          /\ s # {} => /\ First(s) \in s /\ Rest(s) \in SUBSET CPUs
                       /\ Cardinality(Rest(s)) = Cardinality(s) - 1
<1>1. IsFiniteSet(s) /\ Cardinality(s) \in Nat /\ Cardinality(s) <= Cardinality(CPUs)
  BY WakeupAssumption, FS_Subset, FS_CardinalityType
<1>2. Cardinality(s) = 0 <=> s = {}
  BY <1>1, FS_EmptySet
<1>3. ASSUME s # {} PROVE First(s) \in s /\ Rest(s) \in SUBSET CPUs
  BY <1>3 DEF First, Rest
<1>4. ASSUME s # {} PROVE Cardinality(Rest(s)) = Cardinality(s) - 1
  BY <1>1, <1>3, <1>4, FS_RemoveElement DEF Rest
<1> QED
  BY <1>1, <1>2, <1>3, <1>4

LEMMA SumsExist == ASSUME NEW f \in [CPUs -> Int], NEW m \in Nat
    PROVE \E g \in [UpTo(m) -> Int] : SumsOf(f, g, m)
<1> DEFINE Bad == {n \in Nat : ~\E g \in [UpTo(n) -> Int] : SumsOf(f, g, n)}
<1>1. SUFFICES ASSUME Bad # {} PROVE FALSE
  OBVIOUS
<1>2. PICK n \in Bad : \A k \in Bad : ~(k < n)
  BY <1>1, Least
<1>3. \A k \in Nat : k < n => k \notin Bad
  BY <1>2
<1>4. CASE n = 0
  <2> DEFINE g == [s \in UpTo(0) |-> 0]
  <2>1. \A s \in UpTo(0) : s = {}
    BY SetOfCPUs DEF UpTo
  <2>2. g \in [UpTo(0) -> Int] /\ SumsOf(f, g, 0)
    BY <2>1 DEF SumsOf
  <2> QED
    BY <1>4, <2>2
<1>5. CASE n # 0
  <2>1. n - 1 \in Nat /\ n - 1 \notin Bad
    BY <1>3, <1>5
  <2>2. PICK h \in [UpTo(n - 1) -> Int] : SumsOf(f, h, n - 1)
    BY <2>1
  <2> DEFINE g == [s \in UpTo(n) |-> IF s = {} THEN 0 ELSE f[First(s)] + h[Rest(s)]]
  <2>3. ASSUME NEW s \in UpTo(n), s # {}
        PROVE  First(s) \in CPUs /\ Rest(s) \in UpTo(n - 1)
    BY <2>3, SetOfCPUs DEF UpTo
  <2>4. \A s \in UpTo(n - 1) : s \in UpTo(n)
    BY SetOfCPUs DEF UpTo
  <2>5. g \in [UpTo(n) -> Int]
    BY <2>3
  <2>6. \A s \in UpTo(n - 1) : g[s] = h[s]
    BY <2>2, <2>4 DEF SumsOf
  <2>7. SumsOf(f, g, n)
    BY <2>3, <2>6 DEF SumsOf
  <2> QED
    BY <2>5, <2>7
<1> QED
  BY <1>4, <1>5

\* The recursive definition of the sum has a value on every set of CPUs.
LEMMA SumToDef == ASSUME NEW f \in [CPUs -> Int]
    PROVE /\ \A s \in SUBSET CPUs : SumTo(f)[s] \in Int
          /\ SumTo(f)[{}] = 0
          /\ \A s \in SUBSET CPUs : s # {} => SumTo(f)[s] = f[First(s)] + SumTo(f)[Rest(s)]
<1> DEFINE m == Cardinality(CPUs)
           Eq(g) == g = [s \in SUBSET CPUs |->
                IF s = {} THEN 0 ELSE f[First(s)] + g[Rest(s)]]
<1>1. m \in Nat /\ UpTo(m) = SUBSET CPUs
  BY SetOfCPUs, WakeupAssumption, FS_CardinalityType DEF UpTo
<1>2. PICK g \in [SUBSET CPUs -> Int] : SumsOf(f, g, m)
  BY <1>1, SumsExist
<1>3. Eq(g)
  BY <1>1, <1>2 DEF SumsOf
<1>4. Eq(SumTo(f))
  BY <1>3 DEF SumTo
<1> DEFINE h == SumTo(f)
<1> HIDE DEF h
<1>5. h = [s \in SUBSET CPUs |-> IF s = {} THEN 0 ELSE f[First(s)] + h[Rest(s)]]
  BY <1>4 DEF h
<1>6. h[{}] = 0 /\ \A s \in SUBSET CPUs : s # {} => h[s] = f[First(s)] + h[Rest(s)]
  BY <1>5
<1> DEFINE Bad == {n \in Nat : \E s \in SUBSET CPUs : Cardinality(s) = n /\ h[s] \notin Int}
<1>7. Bad = {}
  <2>1. SUFFICES ASSUME Bad # {} PROVE FALSE
    OBVIOUS
  <2>2. PICK n \in Bad : \A k \in Bad : ~(k < n)
    BY <2>1, Least
  <2>3. \A k \in Nat : k < n => k \notin Bad
    BY <2>2
  <2>4. PICK s \in SUBSET CPUs : Cardinality(s) = n /\ h[s] \notin Int
    OBVIOUS
  <2>5. s # {}
    <3>1. h[{}] \in Int
      BY <1>6
    <3> QED
      BY <2>4, <3>1
  <2>6. h[Rest(s)] \in Int
    BY <2>3, <2>4, <2>5, SetOfCPUs
  <2>7. f[First(s)] \in Int
    BY <2>5, SetOfCPUs
  <2> QED
    BY <1>6, <2>4, <2>5, <2>6, <2>7
<1>8. \A s \in SUBSET CPUs : h[s] \in Int
  BY <1>7, SetOfCPUs
<1> QED
  BY <1>6, <1>8 DEF h

\* Changing one counter changes the sum by as much, whatever the order.
LEMMA SumChange == 
    ASSUME NEW f \in [CPUs -> Int], NEW e \in [CPUs -> Int], NEW c \in CPUs,
           \A d \in CPUs : d # c => e[d] = f[d]
    PROVE  SumTo(e)[CPUs] = SumTo(f)[CPUs] + (e[c] - f[c])
<1> DEFINE h == SumTo(f)
           k == SumTo(e)
           Off(s) == IF c \in s THEN e[c] - f[c] ELSE 0
           Bad == {n \in Nat : \E s \in SUBSET CPUs : Cardinality(s) = n /\ k[s] # h[s] + Off(s)}
<1> HIDE DEF h, k
<1>1. /\ \A s \in SUBSET CPUs : h[s] \in Int
      /\ h[{}] = 0 /\ \A s \in SUBSET CPUs : s # {} => h[s] = f[First(s)] + h[Rest(s)]
  BY SumToDef DEF h
<1>2. /\ \A s \in SUBSET CPUs : k[s] \in Int
      /\ k[{}] = 0 /\ \A s \in SUBSET CPUs : s # {} => k[s] = e[First(s)] + k[Rest(s)]
  BY SumToDef DEF k
<1>3. Bad = {}
  <2>1. SUFFICES ASSUME Bad # {} PROVE FALSE
    OBVIOUS
  <2>2. PICK n \in Bad : \A i \in Bad : ~(i < n)
    BY <2>1, Least
  <2>3. \A i \in Nat : i < n => i \notin Bad
    BY <2>2
  <2>4. PICK s \in SUBSET CPUs : Cardinality(s) = n /\ k[s] # h[s] + Off(s)
    OBVIOUS
  <2>5. CASE s = {}
    BY <1>1, <1>2, <2>4, <2>5
  <2>6. CASE s # {}
    <3> DEFINE x == First(s)
               r == Rest(s)
    <3>1. x \in s /\ r \in SUBSET CPUs /\ Cardinality(r) = Cardinality(s) - 1 /\ Cardinality(s) \in Nat
          /\ Cardinality(r) \in Nat
      BY <2>6, SetOfCPUs
    <3>2. Cardinality(r) \notin Bad
      BY <2>3, <2>4, <3>1
    <3>3. k[r] = h[r] + Off(r)
      BY <3>1, <3>2
    <3>4. k[s] = e[x] + k[r] /\ h[s] = f[x] + h[r]
      BY <1>1, <1>2, <2>6
    <3>5. k[r] \in Int /\ h[r] \in Int /\ f[x] \in Int /\ f[c] \in Int /\ e[x] \in Int /\ e[c] \in Int
      BY <1>1, <1>2, <3>1
    <3>6. CASE x = c
      BY <2>4, <3>1, <3>3, <3>4, <3>5, <3>6 DEF Rest
    <3>7. CASE x # c
      BY <2>4, <3>1, <3>3, <3>4, <3>5, <3>7 DEF Rest
    <3> QED
      BY <3>6, <3>7
  <2> QED
    BY <2>5, <2>6
<1>4. k[CPUs] = h[CPUs] + Off(CPUs)
  BY <1>3, SetOfCPUs
<1> QED
  BY <1>4 DEF h, k
--------------------------------------------------------------------------------
(* The invariant of the counters *)

\* p is on its way to another CPU: set_task_cpu has subtracted it from nr_iowait already.
Moved(t) == \/ \E d \in CPUs : pc[d] = "queue" /\ target[d] = t /\ migrated[d]
            \/ \E d \in CPUs : <<t, TRUE>> \in wake_list[d]
Counted(t, c) == in_iowait[t] /\ ~on_rq[t] /\ cpu[t] = c /\ ~Moved(t)
IoWaiting(c) == {t \in Tasks : Counted(t, c)}
Contributing == {t \in Tasks : contributes[t] /\ ~on_rq[t]}

CounterTypes ==
    /\ contributes \in [Tasks -> BOOLEAN] /\ caches \in Topologies
    /\ nr_uninterruptible \in [CPUs -> 0..(Word - 1)] /\ nr_iowait \in [CPUs -> Nat]

\* Only a task that has gone to sleep in its wait loop is counted anywhere.
Sleepers == \A t \in Tasks :
    /\ contributes[t] => tpc[t] = "asleep" /\ ~on_rq[t]
    /\ in_iowait[t] => tpc[t] = "asleep"
    /\ tpc[t] \in {"check", "asleep"} => t \in Waiters
    /\ state[t] = "unborn" => tpc[t] = "work"

\* A task is in one wake_q, once.
QueuedOnce == \A c, d \in CPUs : \A i \in 1..Len(wake_q[c]), j \in 1..Len(wake_q[d]) :
    wake_q[c][i] = wake_q[d][j] => c = d /\ i = j

CountInv == CounterTypes /\ Sleepers /\ QueuedOnce /\ IowaitExact /\ LoadExact

Total == SumTo(nr_uninterruptible)[CPUs]

LEMMA ExactIs == /\ IowaitExact <=> \A c \in CPUs : nr_iowait[c] = Cardinality(IoWaiting(c))
                 /\ LoadExact <=> Total % Word = Cardinality(Contributing)
<1>1. MapThenSumSet(LAMBDA c : nr_uninterruptible[c], CPUs) = Total
  BY DEF MapThenSumSet, MapThenFoldSet, SumTo, Total, First, Rest
<1>2. ASSUME NEW c \in CPUs
      PROVE IoWaiting(c) = {t \in Tasks :
        /\ in_iowait[t] /\ ~on_rq[t] /\ cpu[t] = c
        /\ ~\E d \in CPUs : pc[d] = "queue" /\ target[d] = t /\ migrated[d]
        /\ ~\E d \in CPUs : <<t, TRUE>> \in wake_list[d]}
  BY DEF IoWaiting, Counted, Moved
<1> QED
  BY <1>1, <1>2 DEF IowaitExact, LoadExact, Contributing

LEMMA ExactIsNext ==
    /\ IowaitExact' <=> \A c \in CPUs : nr_iowait'[c] = Cardinality(IoWaiting(c)')
    /\ LoadExact' <=> SumTo(nr_uninterruptible')[CPUs] % Word = Cardinality(Contributing')
<1>1. MapThenSumSet(LAMBDA c : nr_uninterruptible[c], CPUs)' = SumTo(nr_uninterruptible')[CPUs]
  BY DEF MapThenSumSet, MapThenFoldSet, SumTo, Total, First, Rest
<1>2. ASSUME NEW c \in CPUs
      PROVE IoWaiting(c)' = {t \in Tasks :
        /\ in_iowait'[t] /\ ~on_rq'[t] /\ cpu'[t] = c
        /\ ~\E d \in CPUs : pc'[d] = "queue" /\ target'[d] = t /\ migrated'[d]
        /\ ~\E d \in CPUs : <<t, TRUE>> \in wake_list'[d]}
  BY DEF IoWaiting, Counted, Moved
<1> QED
  BY <1>1, <1>2 DEF IowaitExact, LoadExact, Contributing
--------------------------------------------------------------------------------
(* The steps that count nobody *)

LEMMA MovedSame ==
    ASSUME \A d \in CPUs : pc[d] = "queue" \/ pc'[d] = "queue" =>
                pc'[d] = pc[d] /\ target'[d] = target[d] /\ migrated'[d] = migrated[d],
           \A d \in CPUs, t \in Tasks : <<t, TRUE>> \in wake_list'[d] <=> <<t, TRUE>> \in wake_list[d]
    PROVE  \A t \in Tasks : Moved(t)' <=> Moved(t)
  BY DEF Moved

\* The steps that count nobody.
LEMMA QuietStep ==
    ASSUME CountInv, UNCHANGED <<nr_iowait, nr_uninterruptible, contributes, caches>>,
           Sleepers', QueuedOnce',
           \A t \in Tasks, c \in CPUs : Counted(t, c)' <=> Counted(t, c)
    PROVE  CountInv'
<1> USE DEF CountInv
<1>1. CounterTypes'
  BY DEF CounterTypes
<1>2. \A c \in CPUs : IoWaiting(c)' = IoWaiting(c)
  BY DEF IoWaiting
<1>3. IowaitExact'
  BY <1>2, ExactIs, ExactIsNext
<1>4. Contributing' = Contributing
  BY DEF Contributing, Sleepers
<1>5. LoadExact'
  BY <1>4, ExactIs, ExactIsNext DEF Total
<1> QED
  BY <1>1, <1>3, <1>5

LEMMA CountSetState ==
    ASSUME WInv, CountInv, NEW c \in CPUs, NEW t \in Tasks, NEW s \in Sleeping, SetState(c, t, s)
    PROVE  CountInv'
<1> USE DEF SetState, rqVars, pcVars
<1>1. Sleepers' /\ QueuedOnce'
  BY DEF CountInv, Sleepers, QueuedOnce, WInv, Typing, Sleeping, Running
<1>2. \A x \in Tasks : Moved(x)' <=> Moved(x)
  BY DEF Moved
<1> QED
  BY <1>1, <1>2, QuietStep DEF Counted

LEMMA CountLeaveLoop ==
    ASSUME WInv, CountInv, NEW c \in CPUs, NEW t \in Tasks, LeaveLoop(c, t)
    PROVE  CountInv'
<1> USE DEF LeaveLoop, rqVars, pcVars
<1>1. Sleepers' /\ QueuedOnce'
  BY DEF CountInv, Sleepers, QueuedOnce, WInv, Typing, Running
<1>2. \A x \in Tasks : Moved(x)' <=> Moved(x)
  BY DEF Moved
<1> QED
  BY <1>1, <1>2, QuietStep DEF Counted

\* io_schedule_finish: the task runs, so it is not among those that are counted.
LEMMA CountReturned ==
    ASSUME WInv, CountInv, NEW c \in CPUs, NEW t \in Tasks, Returned(c, t)
    PROVE  CountInv'
<1> USE DEF Returned, rqVars, pcVars
<1>1. on_rq[t]
  BY DEF WInv, Placing, Running
<1>2. Sleepers' /\ QueuedOnce'
  BY <1>1 DEF CountInv, Sleepers, QueuedOnce, WInv, Typing, Running
<1>3. \A x \in Tasks : Moved(x)' <=> Moved(x)
  BY DEF Moved
<1> QED
  BY <1>1, <1>2, <1>3, QuietStep DEF Counted, WInv, Typing

LEMMA CountWakeUpNewTask ==
    ASSUME WInv, CountInv, NEW c \in CPUs, NEW t \in Tasks, NEW p \in Tasks, NEW d \in CPUs,
           WakeUpNewTask(c, t, p, d)
    PROVE  CountInv'
<1> USE DEF WakeUpNewTask, pcVars
<1>1. ~contributes[p] /\ ~in_iowait[p]
  BY DEF CountInv, Sleepers
<1>2. Sleepers' /\ QueuedOnce'
  BY <1>1 DEF CountInv, Sleepers, QueuedOnce, WInv, Typing
<1>3. \A x \in Tasks : Moved(x)' <=> Moved(x)
  BY DEF Moved
<1> QED
  BY <1>1, <1>2, <1>3, QuietStep DEF Counted, WInv, Typing

LEMMA CountReleaseTask ==
    ASSUME WInv, CountInv, NEW c \in CPUs, NEW t \in Tasks, NEW p \in Tasks, ReleaseTask(c, t, p)
    PROVE  CountInv'
<1> USE DEF ReleaseTask, rqVars, pcVars
<1>1. tpc[p] = "dead"
  BY DEF WInv, Lives
<1>2. Sleepers' /\ QueuedOnce'
  BY <1>1 DEF CountInv, Sleepers, QueuedOnce, WInv, Typing
<1>3. \A x \in Tasks : Moved(x)' <=> Moved(x)
  BY DEF Moved
<1> QED
  BY <1>2, <1>3, QuietStep DEF Counted

LEMMA CountDoTaskDead ==
    ASSUME WInv, CountInv, NEW c \in CPUs, NEW t \in Tasks, DoTaskDead(c, t)
    PROVE  CountInv'
<1> USE DEF DoTaskDead, rqVars, pcVars
<1>1. Sleepers' /\ QueuedOnce'
  BY DEF CountInv, Sleepers, QueuedOnce, WInv, Typing
<1>2. \A x \in Tasks : Moved(x)' <=> Moved(x)
  BY DEF Moved
<1> QED
  BY <1>1, <1>2, QuietStep DEF Counted

LEMMA CountFinishTask ==
    ASSUME WInv, CountInv, NEW c \in CPUs, FinishTask(c)
    PROVE  CountInv'
<1> USE DEF FinishTask, rqVars
<1>1. Sleepers' /\ QueuedOnce'
  BY DEF CountInv, Sleepers, QueuedOnce
<1>2. \A x \in Tasks : Moved(x)' <=> Moved(x)
  BY MovedSame DEF WInv, Typing
<1> QED
  BY <1>1, <1>2, QuietStep DEF Counted

LEMMA CountPutTask ==
    ASSUME WInv, CountInv, NEW c \in CPUs, PutTask(c)
    PROVE  CountInv'
<1> USE DEF PutTask, ScheduleReturn, taskVars, rqVars
<1>1. Sleepers' /\ QueuedOnce'
  BY DEF CountInv, Sleepers, QueuedOnce
<1>2. \A x \in Tasks : Moved(x)' <=> Moved(x)
  BY MovedSame DEF WInv, Typing
<1> QED
  BY <1>1, <1>2, QuietStep DEF Counted

LEMMA CountSchedulerTick ==
    ASSUME WInv, CountInv, NEW c \in CPUs, SchedulerTick(c)
    PROVE  CountInv'
<1> USE DEF SchedulerTick, taskVars, pcVars
<1>1. Sleepers' /\ QueuedOnce'
  BY DEF CountInv, Sleepers, QueuedOnce
<1>2. \A x \in Tasks : Moved(x)' <=> Moved(x)
  BY DEF Moved
<1> QED
  BY <1>1, <1>2, QuietStep DEF Counted

\* The beginning of try_to_wake_up.
LEMMA BeginMoves ==
    ASSUME WInv, NEW c \in CPUs, NEW p \in Tasks, NEW m, pc[c] = "run", Begin(c, p, m),
           UNCHANGED <<wake_list, migrated>>
    PROVE  \A x \in Tasks : Moved(x)' <=> Moved(x)
<1>1. \A d \in CPUs : pc[d] = "queue" \/ pc'[d] = "queue" =>
            pc'[d] = pc[d] /\ target'[d] = target[d] /\ migrated'[d] = migrated[d]
  BY DEF Begin, WInv, Typing
<1> QED
  BY <1>1, MovedSame

LEMMA BeginStates ==
    ASSUME WInv, NEW c \in CPUs, NEW p \in Tasks, NEW m \in SUBSET Sleeping, Begin(c, p, m)
    PROVE  \A x \in Tasks : state'[x] = "unborn" => state[x] = "unborn"
  BY DEF Begin, WInv, Typing, Sleeping

LEMMA CountWakeUpProcess ==
    ASSUME WInv, CountInv, NEW c \in CPUs, NEW p \in Tasks, WakeUpProcess(c, p)
    PROVE  CountInv'
<1> USE DEF WakeUpProcess, rqVars
<1>1. \A x \in Tasks : state'[x] = "unborn" => state[x] = "unborn"
  BY BeginStates
<1>2. Sleepers' /\ QueuedOnce'
  BY <1>1 DEF CountInv, Sleepers, QueuedOnce
<1>3. \A x \in Tasks : Moved(x)' <=> Moved(x)
  BY BeginMoves
<1> QED
  BY <1>2, <1>3, QuietStep DEF Counted

LEMMA CountWakeUpState ==
    ASSUME WInv, CountInv, NEW c \in CPUs, NEW p \in Tasks, WakeUpState(c, p)
    PROVE  CountInv'
<1> USE DEF WakeUpState, rqVars
<1>1. \A x \in Tasks : state'[x] = "unborn" => state[x] = "unborn"
  BY BeginStates DEF Sleeping
<1>2. Sleepers' /\ QueuedOnce'
  BY <1>1 DEF CountInv, Sleepers, QueuedOnce
<1>3. \A x \in Tasks : Moved(x)' <=> Moved(x)
  BY BeginMoves
<1> QED
  BY <1>2, <1>3, QuietStep DEF Counted

LEMMA CountWakeQAdd ==
    ASSUME WInv, CountInv, NEW c \in CPUs, NEW p \in Tasks, WakeQAdd(c, p)
    PROVE  CountInv'
<1> USE DEF WakeQAdd, pcVars
<1>1. Sleepers'
  BY DEF CountInv, Sleepers
<1>2. QueuedOnce'
  <2>1. CASE InWakeQ(p)
    BY <2>1 DEF CountInv, QueuedOnce
  <2>2. CASE ~InWakeQ(p)
    <3>1. wake_q \in [CPUs -> Seq(Tasks)] /\ wake_q' = [wake_q EXCEPT ![c] = Append(wake_q[c], p)]
      BY <2>2 DEF WInv, Typing
    <3>2. \A d \in CPUs : \A i \in 1..Len(wake_q[d]) : wake_q[d][i] # p
      BY <2>2 DEF InWakeQ
    <3>3. \A d \in CPUs \ {c} : wake_q'[d] = wake_q[d]
      BY <3>1
    <3>4. /\ Len(wake_q'[c]) = Len(wake_q[c]) + 1 /\ Len(wake_q[c]) \in Nat
          /\ wake_q'[c][Len(wake_q[c]) + 1] = p
          /\ \A i \in 1..Len(wake_q[c]) : wake_q'[c][i] = wake_q[c][i]
      BY <3>1
    <3>5. \A d \in CPUs : \A i \in 1..Len(wake_q'[d]) :
            \/ i \in 1..Len(wake_q[d]) /\ wake_q'[d][i] = wake_q[d][i]
            \/ d = c /\ i = Len(wake_q[c]) + 1 /\ wake_q'[d][i] = p
      BY <3>3, <3>4
    <3> QED
      BY <3>2, <3>5 DEF CountInv, QueuedOnce
  <2> QED
    BY <2>1, <2>2
<1>3. \A x \in Tasks : Moved(x)' <=> Moved(x)
  BY DEF Moved
<1> QED
  BY <1>1, <1>2, <1>3, QuietStep DEF Counted

LEMMA CountWakeUpQ ==
    ASSUME WInv, CountInv, NEW c \in CPUs, WakeUpQ(c)
    PROVE  CountInv'
<1> USE DEF WakeUpQ
<1>1. wake_q \in [CPUs -> Seq(Tasks)] /\ wake_q[c] \in Seq(Tasks) /\ wake_q[c] # <<>>
  BY DEF WInv, Typing
<1>2. Head(wake_q[c]) \in Tasks
  BY <1>1
<1>3. \A x \in Tasks : state'[x] = "unborn" => state[x] = "unborn"
  BY <1>2, BeginStates
<1>4. Sleepers'
  BY <1>3 DEF CountInv, Sleepers
<1>5. QueuedOnce'
  <2>1. \A d \in CPUs \ {c} : wake_q'[d] = wake_q[d]
    BY <1>1
  <2>2. /\ Len(wake_q'[c]) = Len(wake_q[c]) - 1 /\ Len(wake_q[c]) \in Nat
        /\ \A i \in 1..Len(wake_q'[c]) : wake_q'[c][i] = wake_q[c][i + 1]
    BY <1>1
  <2> DEFINE at(d, i) == IF d = c THEN i + 1 ELSE i
  <2>3. \A d \in CPUs : \A i \in 1..Len(wake_q'[d]) :
            at(d, i) \in 1..Len(wake_q[d]) /\ wake_q'[d][i] = wake_q[d][at(d, i)]
    BY <2>1, <2>2
  <2>4. \A d \in CPUs : \A i, j \in Nat : at(d, i) = at(d, j) => i = j
    OBVIOUS
  <2>5. \A d \in CPUs : \A i \in 1..Len(wake_q'[d]) : i \in Nat
    OBVIOUS
  <2> HIDE DEF at
  <2>6. ASSUME NEW d \in CPUs, NEW e \in CPUs, NEW i \in 1..Len(wake_q'[d]),
               NEW j \in 1..Len(wake_q'[e]), wake_q'[d][i] = wake_q'[e][j]
        PROVE  d = e /\ i = j
    <3>1. wake_q[d][at(d, i)] = wake_q[e][at(e, j)]
      BY <2>3, <2>6
    <3>2. d = e /\ at(d, i) = at(e, j)
      BY <2>3, <3>1 DEF CountInv, QueuedOnce
    <3> QED
      BY <2>4, <2>5, <3>2
  <2> QED
    BY <2>6 DEF QueuedOnce
<1>6. \A x \in Tasks : Moved(x)' <=> Moved(x)
  BY <1>2, BeginMoves
<1> QED
  BY <1>4, <1>5, <1>6, QuietStep DEF Counted

LEMMA WakingMoves ==
    ASSUME WInv, NEW c \in CPUs, NEW p \in Tasks, pc[c] # "queue", Waking(c, p)
    PROVE  \A x \in Tasks : /\ Moved(x)' <=> Moved(x)
                            /\ state'[x] = "unborn" => state[x] = "unborn"
<1>1. /\ \A d \in CPUs : pc[d] = "queue" \/ pc'[d] = "queue" =>
            pc'[d] = pc[d] /\ target'[d] = target[d] /\ migrated'[d] = migrated[d]
      /\ \A d \in CPUs, t \in Tasks : <<t, TRUE>> \in wake_list'[d] <=> <<t, TRUE>> \in wake_list[d]
  <2>1. CASE on_cpu[p] /\ QueueCond(c, cpu[p], TRUE)
    <3>1. /\ wake_list' = [wake_list EXCEPT ![cpu[p]] = @ \cup {<<p, FALSE>>}]
          /\ TtwuReturn(c)
      BY <2>1 DEF Waking, QueueWakelist
    <3>2. \A d \in CPUs : wake_list'[d] = wake_list[d] \/ wake_list'[d] = wake_list[d] \cup {<<p, FALSE>>}
      BY <3>1 DEF WInv, Typing
    <3>3. \A t \in Tasks : <<t, TRUE>> # <<p, FALSE>>
      OBVIOUS
    <3>4. \A d \in CPUs, t \in Tasks : <<t, TRUE>> \in wake_list'[d] <=> <<t, TRUE>> \in wake_list[d]
      BY <3>2, <3>3
    <3> QED
      BY <3>1, <3>4 DEF TtwuReturn, WInv, Typing
  <2>2. CASE ~(on_cpu[p] /\ QueueCond(c, cpu[p], TRUE))
    BY <2>2 DEF Waking, WInv, Typing
  <2> QED
    BY <2>1, <2>2
<1>2. \A x \in Tasks : state'[x] = "unborn" => state[x] = "unborn"
  BY DEF Waking, WInv, Typing
<1> QED
  BY <1>1, <1>2, MovedSame

LEMMA ReturnMoves ==
    ASSUME WInv, NEW c \in CPUs, pc[c] # "queue", TtwuReturn(c), wake_list' = wake_list
    PROVE  \A x \in Tasks : Moved(x)' <=> Moved(x)
<1>1. \A d \in CPUs : pc[d] = "queue" \/ pc'[d] = "queue" =>
            pc'[d] = pc[d] /\ target'[d] = target[d] /\ migrated'[d] = migrated[d]
  BY DEF TtwuReturn, WInv, Typing
<1> QED
  BY <1>1, MovedSame

LEMMA CountTtwuLock ==
    ASSUME WInv, CountInv, NEW c \in CPUs, TtwuLock(c)
    PROVE  CountInv'
<1> DEFINE p == target[c]
<1>1. p \in Tasks /\ pc[c] # "queue"
  BY DEF WInv, Wakers, TtwuLock, Ttwu
<1>2. \A x \in Tasks : /\ Moved(x)' <=> Moved(x)
                       /\ state'[x] = "unborn" => state[x] = "unborn"
  <2>1. \/ TtwuReturn(c) /\ UNCHANGED <<state, wake_list>>
        \/ /\ pc' = [pc EXCEPT ![c] = "rq_lock"]
           /\ UNCHANGED <<state, wake_list, target, mask, migrated>>
        \/ Waking(c, p)
    BY DEF TtwuLock
  <2>2. CASE pc' = [pc EXCEPT ![c] = "rq_lock"] /\ UNCHANGED <<state, wake_list, target, mask, migrated>>
    BY <1>1, <2>2, MovedSame DEF WInv, Typing
  <2> QED
    BY <1>1, <2>1, <2>2, ReturnMoves, WakingMoves
<1>3. UNCHANGED <<on_rq, cpu, contributes, in_iowait, tpc, caches, nr_uninterruptible, nr_iowait, wake_q>>
  BY DEF TtwuLock
<1>4. Sleepers' /\ QueuedOnce'
  BY <1>2, <1>3 DEF CountInv, Sleepers, QueuedOnce
<1> QED
  BY <1>2, <1>3, <1>4, QuietStep DEF Counted

LEMMA CountTtwuRunnable ==
    ASSUME WInv, CountInv, NEW c \in CPUs, TtwuRunnable(c)
    PROVE  CountInv'
<1> DEFINE p == target[c]
<1>1. p \in Tasks /\ pc[c] # "queue"
  BY DEF WInv, Wakers, TtwuRunnable, Ttwu
<1>2. \A x \in Tasks : /\ Moved(x)' <=> Moved(x)
                       /\ state'[x] = "unborn" => state[x] = "unborn"
  <2>1. \/ TtwuReturn(c) /\ state' = [state EXCEPT ![p] = "RUNNING"] /\ UNCHANGED wake_list
        \/ Waking(c, p)
    BY DEF TtwuRunnable
  <2>2. CASE TtwuReturn(c) /\ state' = [state EXCEPT ![p] = "RUNNING"] /\ UNCHANGED wake_list
    <3>1. \A x \in Tasks : state'[x] = "unborn" => state[x] = "unborn"
      BY <2>2 DEF WInv, Typing
    <3> QED
      BY <1>1, <2>2, <3>1, ReturnMoves
  <2> QED
    BY <1>1, <2>1, <2>2, WakingMoves
<1>3. UNCHANGED <<on_rq, cpu, contributes, in_iowait, tpc, caches, nr_uninterruptible, nr_iowait, wake_q>>
  BY DEF TtwuRunnable
<1>4. Sleepers' /\ QueuedOnce'
  BY <1>2, <1>3 DEF CountInv, Sleepers, QueuedOnce
<1> QED
  BY <1>2, <1>3, <1>4, QuietStep DEF Counted

\* A task somebody is waking is off the runqueue, and nobody else has moved it.
LEMMA WakingAlone ==
    ASSUME WInv, NEW c \in CPUs, pc[c] \in {"spin", "queue"}
    PROVE  /\ target[c] \in Tasks /\ ~on_rq[target[c]]
           /\ \A d \in CPUs : pc[d] \in Ttwu /\ target[d] = target[c] => d = c
           /\ \A d \in CPUs, b \in BOOLEAN : <<target[c], b>> \notin wake_list[d]
<1>1. target[c] \in Tasks /\ state[target[c]] = "WAKING"
  BY DEF WInv, Wakers, Ttwu
<1>2. ~on_rq[target[c]]
  BY <1>1 DEF WInv, Lives
<1>3. \A d \in CPUs : pc[d] \in Ttwu /\ target[d] = target[c] => d = c
  BY DEF WInv, Wakers, Ttwu
<1>4. \A d \in CPUs : target[c] \notin OnWakelist(d)
  BY <1>1 DEF WInv, Wakelists, Ttwu
<1>5. \A d \in CPUs, b \in BOOLEAN : <<target[c], b>> \notin wake_list[d]
  BY <1>1, <1>4 DEF OnWakelist
<1> QED
  BY <1>1, <1>2, <1>3, <1>5

LEMMA IoFinite ==
    /\ \A c \in CPUs : IsFiniteSet(IoWaiting(c)) /\ IsFiniteSet(IoWaiting(c)')
    /\ IsFiniteSet(Contributing) /\ IsFiniteSet(Contributing')
<1>1. \A c \in CPUs : IoWaiting(c) \in SUBSET Tasks /\ IoWaiting(c)' \in SUBSET Tasks
  BY DEF IoWaiting
<1>2. Contributing \in SUBSET Tasks /\ Contributing' \in SUBSET Tasks
  BY DEF Contributing
<1> QED
  BY <1>1, <1>2, WakeupAssumption, FS_Subset

\* set_task_cpu subtracts the task from the runqueue it leaves.
LEMMA CountTtwuSelect ==
    ASSUME WInv, CountInv, NEW c \in CPUs, NEW d \in CPUs, TtwuSelect(c, d)
    PROVE  CountInv'
<1>0. PICK p \in Tasks, o \in CPUs : p = target[c] /\ o = cpu[p]
  BY WakingAlone DEF WInv, Typing, TtwuSelect
<1> DEFINE gone == d # o /\ in_iowait[p]
<1>1. /\ pc[c] = "spin"
      /\ nr_iowait' = [nr_iowait EXCEPT ![o] = IF gone THEN @ - 1 ELSE @]
      /\ migrated' = [migrated EXCEPT ![c] = (d # o)] /\ cpu' = [cpu EXCEPT ![p] = d]
      /\ pc' = [pc EXCEPT ![c] = "queue"]
      /\ UNCHANGED <<state, on_rq, contributes, in_iowait, tpc, caches,
                     nr_uninterruptible, wake_list, wake_q, target>>
  BY <1>0 DEF TtwuSelect
<1>2. /\ p \in Tasks /\ ~on_rq[p] /\ o = cpu[p] /\ target[c] = p
      /\ \A e \in CPUs : pc[e] \in Ttwu /\ target[e] = p => e = c
      /\ \A e \in CPUs, b \in BOOLEAN : <<p, b>> \notin wake_list[e]
  BY <1>0, <1>1, WakingAlone DEF WInv, Typing
<1>3. /\ \A e \in CPUs \ {c} : pc'[e] = pc[e] /\ migrated'[e] = migrated[e]
      /\ pc'[c] = "queue" /\ (migrated'[c] <=> d # o)
      /\ cpu'[p] = d /\ \A x \in Tasks \ {p} : cpu'[x] = cpu[x]
  BY <1>1, <1>2 DEF WInv, Typing
<1>4. ~Moved(p) /\ (Moved(p)' <=> d # o)
  BY <1>1, <1>2, <1>3 DEF Moved, Ttwu
<1>5. \A x \in Tasks \ {p} : Moved(x)' <=> Moved(x)
  <2>1. \A x \in Tasks \ {p}, e \in CPUs : target[e] = x => pc'[e] = pc[e] /\ migrated'[e] = migrated[e]
    BY <1>2, <1>3
  <2>2. target' = target /\ wake_list' = wake_list
    BY <1>1
  <2> QED
    BY <2>1, <2>2 DEF Moved
<1>6. \A x \in Tasks \ {p}, e \in CPUs : Counted(x, e)' <=> Counted(x, e)
  BY <1>1, <1>3, <1>5 DEF Counted
<1>7. \A e \in CPUs : /\ Counted(p, e) <=> in_iowait[p] /\ e = o
                      /\ Counted(p, e)' <=> in_iowait[p] /\ e = o /\ d = o
  BY <1>1, <1>2, <1>3, <1>4 DEF Counted
<1>8. \A e \in CPUs : IoWaiting(e)' = IF e = o /\ gone THEN IoWaiting(e) \ {p} ELSE IoWaiting(e)
  <2>1. ASSUME NEW e \in CPUs, e = o /\ gone PROVE IoWaiting(e)' = IoWaiting(e) \ {p}
    BY <1>6, <1>7, <2>1 DEF IoWaiting
  <2>2. ASSUME NEW e \in CPUs, ~(e = o /\ gone) PROVE IoWaiting(e)' = IoWaiting(e)
    <3>1. \A x \in Tasks : Counted(x, e)' <=> Counted(x, e)
      BY <1>6, <1>7, <2>2
    <3> QED
      BY <3>1 DEF IoWaiting
  <2> QED
    BY <2>1, <2>2
<1>9. gone => p \in IoWaiting(o)
  BY <1>2, <1>7 DEF IoWaiting
<1>10. \A e \in CPUs : nr_iowait[e] = Cardinality(IoWaiting(e)) /\ nr_iowait[e] \in Nat
  BY ExactIs DEF CountInv, CounterTypes
<1>11. \A e \in CPUs : nr_iowait'[e] = IF e = o /\ gone THEN nr_iowait[e] - 1 ELSE nr_iowait[e]
  BY <1>1, <1>2 DEF CountInv, CounterTypes
<1>12. gone => Cardinality(IoWaiting(o) \ {p}) = Cardinality(IoWaiting(o)) - 1
  BY <1>2, <1>9, IoFinite, FS_RemoveElement
<1>13. \A e \in CPUs : nr_iowait'[e] = Cardinality(IoWaiting(e)')
  BY <1>8, <1>10, <1>11, <1>12
<1>14. \A e \in CPUs : nr_iowait'[e] \in Nat
  BY <1>13, IoFinite, FS_CardinalityType
<1>15. CounterTypes'
  BY <1>1, <1>14 DEF CounterTypes, CountInv
<1>16. Sleepers' /\ QueuedOnce'
  BY <1>1 DEF CountInv, Sleepers, QueuedOnce
<1>17. Contributing' = Contributing
  BY <1>1 DEF Contributing
<1>18. LoadExact'
  BY <1>1, <1>17, ExactIs, ExactIsNext DEF Total, CountInv
<1> QED
  BY <1>13, <1>15, <1>16, <1>18, ExactIsNext DEF CountInv

LEMMA CountTtwuQueueRemote ==
    ASSUME WInv, CountInv, NEW c \in CPUs, TtwuQueueRemote(c)
    PROVE  CountInv'
<1>0. PICK p \in Tasks : p = target[c]
  BY WakingAlone DEF TtwuQueueRemote
<1>1. /\ pc[c] = "queue"
      /\ wake_list' = [wake_list EXCEPT ![cpu[p]] = @ \cup {<<p, migrated[c]>>}]
      /\ TtwuReturn(c)
      /\ UNCHANGED <<state, on_rq, cpu, contributes, in_iowait, tpc, caches,
                     nr_uninterruptible, nr_iowait, wake_q>>
  BY <1>0 DEF TtwuQueueRemote, QueueWakelist
<1>2. /\ target[c] = p /\ cpu[p] \in CPUs /\ migrated[c] \in BOOLEAN
      /\ \A e \in CPUs : pc[e] \in Ttwu /\ target[e] = p => e = c
      /\ \A e \in CPUs, b \in BOOLEAN : <<p, b>> \notin wake_list[e]
  BY <1>0, <1>1, WakingAlone DEF WInv, Typing
<1>3. /\ pc'[c] = "run"
      /\ \A e \in CPUs \ {c} : pc'[e] = pc[e] /\ target'[e] = target[e] /\ migrated'[e] = migrated[e]
  BY <1>1 DEF TtwuReturn, WInv, Typing
<1>4. \A e \in CPUs, x \in Tasks : <<x, TRUE>> \in wake_list'[e] <=>
            <<x, TRUE>> \in wake_list[e] \/ (e = cpu[p] /\ x = p /\ migrated[c])
  BY <1>1, <1>2 DEF WInv, Typing
<1>5. \A x \in Tasks \ {p} : Moved(x)' <=> Moved(x)
  <2>1. ASSUME NEW x \in Tasks \ {p}, NEW e \in CPUs
        PROVE  /\ pc'[e] = "queue" /\ target'[e] = x /\ migrated'[e] <=>
                    pc[e] = "queue" /\ target[e] = x /\ migrated[e]
               /\ <<x, TRUE>> \in wake_list'[e] <=> <<x, TRUE>> \in wake_list[e]
    BY <1>2, <1>3, <1>4
  <2> QED
    BY <2>1 DEF Moved
<1>6. Moved(p) <=> migrated[c]
  BY <1>1, <1>2 DEF Moved, Ttwu
<1>7. Moved(p)' <=> migrated[c]
  <2>1. \A e \in CPUs : ~(pc'[e] = "queue" /\ target'[e] = p)
    BY <1>2, <1>3 DEF Ttwu
  <2>2. \A e \in CPUs : <<p, TRUE>> \in wake_list'[e] <=> e = cpu[p] /\ migrated[c]
    BY <1>2, <1>4
  <2> QED
    BY <1>2, <2>1, <2>2 DEF Moved
<1>8. Sleepers' /\ QueuedOnce'
  BY <1>1 DEF CountInv, Sleepers, QueuedOnce
<1>9. \A x \in Tasks, e \in CPUs : Counted(x, e)' <=> Counted(x, e)
  <2>1. \A x \in Tasks : Moved(x)' <=> Moved(x)
    BY <1>5, <1>6, <1>7
  <2> QED
    BY <1>1, <2>1 DEF Counted
<1> QED
  BY <1>1, <1>8, <1>9, QuietStep
--------------------------------------------------------------------------------
(* The steps that count *)

LEMMA Modulo ==
    ASSUME NEW w \in Nat, w > 0, NEW a \in Int
    PROVE  a % w \in 0..(w - 1) /\ \E k \in Int : a % w = a + k * w
<1>1. a % w \in 0..(w - 1)
  OBVIOUS
<1>2. \E k \in Int : a % w = a + k * w /\ a % w \in 0..(w - 1)
  OBVIOUS
<1> QED
  BY <1>1, <1>2

LEMMA Residue ==
    ASSUME NEW w \in Nat, NEW a \in Int, NEW k \in Int, NEW r \in Nat, r < w, a = r + k * w
    PROVE  a % w = r
  OBVIOUS

\* Adding to one counter in the arithmetic of unsigned numbers adds to the sum in it.
LEMMA SumModulo ==
    ASSUME NEW w \in Nat, NEW s \in Int, NEW n \in Int, NEW a \in Int,
           w > 0, (s % w) + a \in 0..(w - 1)
    PROVE  (s + (((n + a) % w) - n)) % w = (s % w) + a
<1>1. PICK j \in Int : s % w = s + j * w
  BY Modulo
<1>2. PICK k \in Int : (n + a) % w = (n + a) + k * w
  BY Modulo
<1> DEFINE r == (s % w) + a
           t == s + (((n + a) % w) - n)
<1>3. r \in Nat /\ r < w
  OBVIOUS
<1>4. t = r + (k - j) * w
  <2>1. (k - j) * w = k * w - j * w /\ k * w \in Int /\ j * w \in Int
    OBVIOUS
  <2>2. t = s + a + k * w
    BY <1>2, <2>1
  <2>3. r = s + j * w + a
    BY <1>1, <2>1
  <2> QED
    BY <2>1, <2>2, <2>3
<1>5. t \in Int /\ k - j \in Int
  BY <1>4, <1>3
<1> HIDE DEF r, t
<1>6. t % w = r
  BY <1>3, <1>4, <1>5, Residue
<1> QED
  BY <1>6 DEF r, t

\* No more tasks contribute than there are waiters: the sum does not run over.
LEMMA ContributingBound ==
    ASSUME Sleepers PROVE Cardinality(Contributing) \in 0..(Word - 1)
<1>1. Contributing \in SUBSET Waiters
  BY DEF Sleepers, Contributing
<1>2. IsFiniteSet(Waiters)
  BY WakeupAssumption, FS_Subset
<1>3. Cardinality(Contributing) <= Cardinality(Waiters) /\ IsFiniteSet(Contributing)
  BY <1>1, <1>2, FS_Subset
<1>4. Cardinality(Contributing) \in Nat /\ Cardinality(Waiters) \in Nat
  BY <1>2, <1>3, FS_CardinalityType
<1> QED
  BY <1>3, <1>4, WakeupAssumption

LEMMA ContributingBoundNext ==
    ASSUME Sleepers' PROVE Cardinality(Contributing') \in 0..(Word - 1)
<1>1. Contributing' \in SUBSET Waiters
  BY DEF Sleepers, Contributing
<1>2. IsFiniteSet(Waiters)
  BY WakeupAssumption, FS_Subset
<1>3. Cardinality(Contributing') <= Cardinality(Waiters) /\ IsFiniteSet(Contributing')
  BY <1>1, <1>2, FS_Subset
<1>4. Cardinality(Contributing') \in Nat /\ Cardinality(Waiters) \in Nat
  BY <1>2, <1>3, FS_CardinalityType
<1> QED
  BY <1>3, <1>4, WakeupAssumption

\* A step that adds a to the counter of one runqueue and to the number of contributing tasks.
LEMMA LoadStep ==
    ASSUME CountInv, Sleepers', NEW c \in CPUs, NEW a \in Int,
           nr_uninterruptible' = [nr_uninterruptible EXCEPT ![c] = (@ + a) % Word],
           Cardinality(Contributing') = Cardinality(Contributing) + a
    PROVE  LoadExact' /\ nr_uninterruptible' \in [CPUs -> 0..(Word - 1)]
<1> DEFINE n == nr_uninterruptible[c]
           v == (n + a) % Word
<1>1. /\ nr_uninterruptible \in [CPUs -> Int] /\ n \in Int
      /\ nr_uninterruptible \in [CPUs -> 0..(Word - 1)]
      /\ Word \in Nat /\ Word > 0
  BY ContributingBound, WakeupAssumption DEF CountInv, CounterTypes
<1>2. v \in 0..(Word - 1)
  BY <1>1, Modulo
<1>3. v \in Int
  BY <1>2
<1>4. nr_uninterruptible' = [nr_uninterruptible EXCEPT ![c] = v]
  OBVIOUS
<1>5. nr_uninterruptible' \in [CPUs -> 0..(Word - 1)]
  BY <1>1, <1>2, <1>4
<1>6. SumTo(nr_uninterruptible')[CPUs] = Total + (v - n)
  <2>1. \A d \in CPUs : d # c => nr_uninterruptible'[d] = nr_uninterruptible[d]
    BY <1>1, <1>4
  <2>2. nr_uninterruptible' \in [CPUs -> Int] /\ nr_uninterruptible'[c] = v
    BY <1>1, <1>3, <1>4
  <2> QED
    BY <1>1, <2>1, <2>2, SumChange DEF Total
<1>7. Total \in Int
  BY <1>1, SumToDef DEF Total
<1>8. Total % Word = Cardinality(Contributing)
  BY ExactIs DEF CountInv
<1>9. (Total % Word) + a \in 0..(Word - 1)
  BY <1>8, ContributingBoundNext
<1>10. (Total + (v - n)) % Word = (Total % Word) + a
  BY <1>1, <1>7, <1>9, SumModulo
<1> QED
  BY <1>5, <1>6, <1>8, <1>10, ExactIsNext

\* ttwu_do_activate subtracts from both counters exactly the tasks that were counted.
LEMMA ActivateCounts ==
    ASSUME WInv, CountInv, NEW c \in CPUs, NEW woken \in SUBSET Tasks, NEW far,
           DoActivate(c, woken, far), UNCHANGED <<in_iowait, cpu, tpc, caches, wake_q>>,
           \A p \in woken : ~on_rq[p] /\ cpu[p] = c /\ (Moved(p) <=> p \in far),
           \A x \in Tasks : x \notin woken => (Moved(x)' <=> Moved(x))
    PROVE  CountInv'
<1> DEFINE E == {p \in woken \ far : in_iowait[p]}
           L == LoadEnded(woken)
<1>1. /\ nr_uninterruptible' = [nr_uninterruptible EXCEPT ![c] = (@ - Cardinality(L)) % Word]
      /\ nr_iowait' = [nr_iowait EXCEPT ![c] = @ - Cardinality(E)]
      /\ contributes' = [t \in Tasks |-> contributes[t] /\ t \notin woken]
      /\ on_rq' = [t \in Tasks |-> t \in woken \/ on_rq[t]]
      /\ state' = [t \in Tasks |-> IF t \in woken THEN "RUNNING" ELSE state[t]]
  BY DEF DoActivate, WaitersEnded
<1>2. \A t \in Tasks : /\ contributes'[t] <=> contributes[t] /\ t \notin woken
                       /\ on_rq'[t] <=> t \in woken \/ on_rq[t]
                       /\ state'[t] = "unborn" => state[t] = "unborn"
  BY <1>1
<1>3. contributes' \in [Tasks -> BOOLEAN]
  BY <1>1 DEF CountInv, CounterTypes
<1>4. Sleepers'
  BY <1>2 DEF CountInv, Sleepers
<1>5. QueuedOnce'
  BY DEF CountInv, QueuedOnce
<1>6. L \subseteq Contributing /\ Contributing' = Contributing \ L
  <2>1. \A t \in Tasks : t \in L <=> t \in woken /\ contributes[t]
    BY DEF LoadEnded
  <2>2. L \subseteq Tasks
    BY DEF LoadEnded
  <2> HIDE DEF L
  <2>3. \A t \in Tasks : /\ t \in Contributing <=> contributes[t]
                         /\ t \in Contributing' <=> contributes'[t]
    BY <1>4 DEF Contributing, CountInv, Sleepers
  <2>4. Contributing \subseteq Tasks /\ Contributing' \subseteq Tasks
    BY DEF Contributing
  <2> QED
    BY <1>2, <2>1, <2>2, <2>3, <2>4
<1>7. Cardinality(Contributing') = Cardinality(Contributing) + (0 - Cardinality(L)) /\ Cardinality(L) \in Nat
  <2>1. Contributing \cap L = L
    BY <1>6
  <2>2. Cardinality(Contributing \ L) = Cardinality(Contributing) - Cardinality(Contributing \cap L)
    BY IoFinite, FS_Difference
  <2>3. Cardinality(L) \in Nat /\ Cardinality(Contributing) \in Nat
    BY <1>6, IoFinite, FS_Subset, FS_CardinalityType
  <2>4. Cardinality(Contributing') = Cardinality(Contributing \ L)
    BY <1>6
  <2>5. Cardinality(Contributing \ L) = Cardinality(Contributing) - Cardinality(L)
    BY <2>1, <2>2
  <2> HIDE DEF L
  <2> QED
    BY <2>3, <2>4, <2>5
<1> DEFINE a == 0 - Cardinality(L)
<1>8. a \in Int /\ nr_uninterruptible' = [nr_uninterruptible EXCEPT ![c] = (@ + a) % Word]
  <2>1. nr_uninterruptible[c] \in Int
    BY DEF CountInv, CounterTypes
  <2> HIDE DEF L
  <2>2. nr_uninterruptible[c] - Cardinality(L) = nr_uninterruptible[c] + a /\ a \in Int
    BY <1>7, <2>1
  <2> HIDE DEF a
  <2> QED
    BY <1>1, <1>7, <2>2
<1>9. LoadExact' /\ nr_uninterruptible' \in [CPUs -> 0..(Word - 1)]
  <2> HIDE DEF a
  <2>1. Cardinality(Contributing') = Cardinality(Contributing) + a
    BY <1>7 DEF a
  <2> QED
    BY <1>4, <1>8, <2>1, LoadStep
<1>10. ASSUME NEW x \in Tasks, NEW e \in CPUs
       PROVE  Counted(x, e)' <=> Counted(x, e) /\ x \notin woken
  BY <1>2 DEF Counted
<1>11. \A x \in Tasks : x \in E <=> x \in woken /\ Counted(x, c)
  BY DEF Counted
<1>12. E \subseteq IoWaiting(c) /\ IoWaiting(c)' = IoWaiting(c) \ E
  <2>1. E \subseteq Tasks
    OBVIOUS
  <2> HIDE DEF E
  <2> QED
    BY <1>10, <1>11, <2>1 DEF IoWaiting
<1>13. \A e \in CPUs : e # c => IoWaiting(e)' = IoWaiting(e)
  <2>1. \A x \in woken, e \in CPUs : e # c => ~Counted(x, e)
    BY DEF Counted
  <2> QED
    BY <1>10, <2>1 DEF IoWaiting
<1>14. Cardinality(IoWaiting(c)') = Cardinality(IoWaiting(c)) - Cardinality(E) /\ Cardinality(E) \in Nat
  <2>1. IoWaiting(c) \cap E = E
    BY <1>12
  <2>2. Cardinality(IoWaiting(c) \ E) = Cardinality(IoWaiting(c)) - Cardinality(IoWaiting(c) \cap E)
    BY IoFinite, FS_Difference
  <2>3. Cardinality(E) \in Nat
    BY <1>12, IoFinite, FS_Subset, FS_CardinalityType
  <2> HIDE DEF E
  <2> QED
    BY <1>12, <2>1, <2>2, <2>3
<1>15. \A e \in CPUs : nr_iowait[e] = Cardinality(IoWaiting(e))
  BY ExactIs DEF CountInv
<1>16. \A e \in CPUs : nr_iowait'[e] = IF e = c THEN nr_iowait[e] - Cardinality(E) ELSE nr_iowait[e]
  BY <1>1 DEF CountInv, CounterTypes
<1>17. \A e \in CPUs : nr_iowait'[e] = Cardinality(IoWaiting(e)')
  <2> HIDE DEF E
  <2> QED
    BY <1>13, <1>14, <1>15, <1>16
<1>18. \A e \in CPUs : nr_iowait'[e] \in Nat
  BY <1>17, IoFinite, FS_CardinalityType
<1>19. CounterTypes'
  <2>1. DOMAIN nr_iowait' = CPUs /\ nr_iowait' = [e \in CPUs |-> nr_iowait'[e]]
    BY <1>1 DEF CountInv, CounterTypes
  <2>2. nr_iowait' \in [CPUs -> Nat]
    BY <1>18, <2>1
  <2> QED
    BY <1>3, <1>9, <2>2 DEF CounterTypes, CountInv
<1>20. IowaitExact'
  BY <1>17, ExactIsNext
<1> QED
  BY <1>4, <1>5, <1>9, <1>19, <1>20 DEF CountInv

LEMMA CountTtwuQueueLocal ==
    ASSUME WInv, CountInv, NEW c \in CPUs, TtwuQueueLocal(c)
    PROVE  CountInv'
<1>0. PICK p \in Tasks, o \in CPUs : p = target[c] /\ o = cpu[p]
  BY WakingAlone DEF WInv, Typing, TtwuQueueLocal
<1> DEFINE far == IF migrated[c] THEN {p} ELSE {}
<1>1. /\ pc[c] = "queue" /\ DoActivate(o, {p}, far) /\ TtwuReturn(c)
      /\ UNCHANGED <<cpu, in_iowait, tpc, caches, wake_q, wake_list>>
  BY <1>0 DEF TtwuQueueLocal
<1>2. /\ ~on_rq[p] /\ target[c] = p
      /\ \A e \in CPUs : pc[e] \in Ttwu /\ target[e] = p => e = c
      /\ \A e \in CPUs, b \in BOOLEAN : <<p, b>> \notin wake_list[e]
  BY <1>0, <1>1, WakingAlone
<1>3. Moved(p) <=> migrated[c]
  BY <1>1, <1>2 DEF Moved, Ttwu
<1>4. Moved(p) <=> p \in far
  BY <1>3
<1>5. ASSUME NEW x \in Tasks, x # p PROVE Moved(x)' <=> Moved(x)
  <2>1. ASSUME NEW e \in CPUs
        PROVE  pc'[e] = "queue" /\ target'[e] = x /\ migrated'[e] <=>
                    pc[e] = "queue" /\ target[e] = x /\ migrated[e]
    BY <1>1, <1>2, <1>5 DEF TtwuReturn, WInv, Typing
  <2> QED
    BY <1>1, <2>1 DEF Moved
<1>6. \A y \in {p} : ~on_rq[y] /\ cpu[y] = o /\ (Moved(y) <=> y \in far)
  BY <1>0, <1>2, <1>4
<1>7. \A x \in Tasks : x \notin {p} => (Moved(x)' <=> Moved(x))
  BY <1>5
<1>8. UNCHANGED <<in_iowait, cpu, tpc, caches, wake_q>> /\ {p} \in SUBSET Tasks
  BY <1>1
<1>9. DoActivate(o, {p}, far)
  BY <1>1
<1> HIDE DEF far
<1> QED
  BY <1>6, <1>7, <1>8, <1>9, ActivateCounts

LEMMA CountTtwuPending ==
    ASSUME WInv, CountInv, NEW c \in CPUs, TtwuPending(c)
    PROVE  CountInv'
<1>0. PICK woken \in SUBSET Tasks, far \in SUBSET Tasks :
        woken = OnWakelist(c) /\ far = {p \in Tasks : <<p, TRUE>> \in wake_list[c]}
  BY DEF OnWakelist
<1>1. /\ DoActivate(c, woken, far) /\ wake_list' = [wake_list EXCEPT ![c] = {}]
      /\ UNCHANGED <<cpu, in_iowait, tpc, caches, wake_q, pc, target, migrated>>
  BY <1>0 DEF TtwuPending, pcVars
<1>2. \A p \in woken : /\ ~on_rq[p] /\ cpu[p] = c
                       /\ \A d \in CPUs : ~(pc[d] \in Ttwu /\ target[d] = p)
                       /\ \A d \in CPUs : p \in OnWakelist(d) => d = c
  BY <1>0 DEF WInv, Wakelists, Lives
<1>3. \A p \in Tasks : p \in far => p \in woken
  BY <1>0 DEF OnWakelist
<1>4. \A p \in woken : Moved(p) <=> p \in far
  <2>1. \A p \in woken, d \in CPUs : <<p, TRUE>> \in wake_list[d] => d = c
    BY <1>2 DEF OnWakelist
  <2>2. \A p \in woken, d \in CPUs : ~(pc[d] = "queue" /\ target[d] = p)
    BY <1>2 DEF Ttwu
  <2> QED
    BY <1>0, <2>1, <2>2 DEF Moved
<1>5. ASSUME NEW x \in Tasks, x \notin woken PROVE Moved(x)' <=> Moved(x)
  <2>1. <<x, TRUE>> \notin wake_list[c]
    BY <1>0, <1>5 DEF OnWakelist
  <2>2. \A d \in CPUs : <<x, TRUE>> \in wake_list'[d] <=> <<x, TRUE>> \in wake_list[d]
    BY <1>1, <2>1 DEF WInv, Typing
  <2> QED
    BY <1>1, <2>2 DEF Moved
<1>6. UNCHANGED <<in_iowait, cpu, tpc, caches, wake_q>>
  BY <1>1
<1>7. \A p \in woken : ~on_rq[p] /\ cpu[p] = c /\ (Moved(p) <=> p \in far)
  BY <1>2, <1>4
<1>8. \A x \in Tasks : x \notin woken => (Moved(x)' <=> Moved(x))
  BY <1>5
<1>9. DoActivate(c, woken, far)
  BY <1>1
<1> QED
  BY <1>6, <1>7, <1>8, <1>9, ActivateCounts

\* __schedule adds prev to both counters exactly if it leaves the runqueue as one of those
\* that are counted.
LEMMA ScheduleCounts ==
    ASSUME WInv, CountInv, NEW c \in CPUs, NEW preempt \in BOOLEAN, NEW io \in BOOLEAN,
           pc[c] = "run", DoSchedule(c, curr[c], preempt, io), Sleepers',
           curr[c] \in Tasks /\ Sleeps(curr[c], preempt) => in_iowait'[curr[c]] = io,
           \A x \in Tasks : x # curr[c] => in_iowait'[x] = in_iowait[x]
    PROVE  CountInv'
<1>0. PICK p \in Tasks \cup {Idle} : p = curr[c]
  BY DEF WInv, Typing
<1>1. PICK off \in BOOLEAN : off <=> Sleeps(p, preempt)
  OBVIOUS
<1>2. PICK load \in BOOLEAN : load <=> off /\ state[p] = "UNINTERRUPTIBLE"
  OBVIOUS
<1>3. /\ Switched(c, preempt)
      /\ UNCHANGED <<cpu, caches, wake_list, wake_q, target, migrated>>
  BY ScheduleEffect DEF WInv, DoSchedule
<1>4. /\ contributes' = [t \in Tasks |-> IF off /\ t = p THEN load ELSE contributes[t]]
      /\ nr_uninterruptible' = [nr_uninterruptible EXCEPT ![c] = IF load THEN (@ + 1) % Word ELSE @]
      /\ nr_iowait' = [nr_iowait EXCEPT ![c] = IF off /\ io THEN @ + 1 ELSE @]
  BY <1>0, <1>1, <1>2 DEF DoSchedule
<1>5. off => p \in Tasks /\ on_rq[p] /\ cpu[p] = c /\ state[p] # "WAKING"
  BY <1>0, <1>1 DEF WInv, Placing, Lives, Sleeps
<1>6. \A t \in Tasks : on_rq'[t] <=> on_rq[t] /\ ~(off /\ t = p)
  BY <1>0, <1>1, <1>3 DEF Switched
<1>7. /\ \A t \in Tasks : contributes'[t] <=> (IF off /\ t = p THEN load ELSE contributes[t])
      /\ contributes' \in [Tasks -> BOOLEAN]
  BY <1>4 DEF CountInv, CounterTypes
<1>8. QueuedOnce'
  BY <1>3 DEF CountInv, QueuedOnce
<1>9. \A x \in Tasks : Moved(x)' <=> Moved(x)
  <2>1. \A d \in CPUs : pc[d] = "queue" \/ pc'[d] = "queue" =>
            pc'[d] = pc[d] /\ target'[d] = target[d] /\ migrated'[d] = migrated[d]
    BY <1>3 DEF Switched
  <2> QED
    BY <1>3, <2>1, MovedSame
<1>10. off => ~Moved(p)
  <2>1. ASSUME off, NEW d \in CPUs PROVE ~(pc[d] = "queue" /\ target[d] = p)
    BY <1>5, <2>1 DEF WInv, Wakers
  <2>2. ASSUME off, NEW d \in CPUs PROVE <<p, TRUE>> \notin wake_list[d]
    <3>1. p \notin OnWakelist(d) /\ p \in Tasks
      BY <1>5, <2>2 DEF WInv, Wakelists
    <3> QED
      BY <3>1 DEF OnWakelist
  <2> QED
    BY <2>1, <2>2 DEF Moved
<1>11. \A x \in Tasks : x # p => in_iowait'[x] = in_iowait[x]
  BY <1>0
<1>12. off => in_iowait'[p] = io
  BY <1>0, <1>1, <1>5
<1>13. ASSUME NEW x \in Tasks, NEW e \in CPUs
       PROVE  Counted(x, e)' <=> Counted(x, e) \/ (off /\ io /\ x = p /\ e = c)
  <2>1. CASE x # p
    BY <1>3, <1>6, <1>9, <1>11, <2>1 DEF Counted
  <2>2. CASE x = p /\ off
    <3>1. ~on_rq'[x] /\ on_rq[x] /\ cpu'[x] = c /\ in_iowait'[x] = io /\ ~Moved(x)'
      BY <1>3, <1>5, <1>6, <1>9, <1>10, <1>12, <2>2
    <3> QED
      BY <2>2, <3>1 DEF Counted
  <2>3. CASE x = p /\ ~off
    <3>1. on_rq'[x] /\ on_rq[x]
      BY <1>0, <1>6, <2>3 DEF WInv, Placing
    <3> QED
      BY <2>3, <3>1 DEF Counted
  <2> QED
    BY <2>1, <2>2, <2>3
<1>14. \A e \in CPUs : nr_iowait[e] = Cardinality(IoWaiting(e)) /\ nr_iowait[e] \in Nat
  BY ExactIs DEF CountInv, CounterTypes
<1>15. \A e \in CPUs : nr_iowait'[e] = IF e = c /\ off /\ io THEN nr_iowait[e] + 1 ELSE nr_iowait[e]
  BY <1>4 DEF CountInv, CounterTypes
<1>16. \A e \in CPUs : ~(e = c /\ off /\ io) => IoWaiting(e)' = IoWaiting(e)
  BY <1>13 DEF IoWaiting
<1>17. ASSUME off, io PROVE Cardinality(IoWaiting(c)') = Cardinality(IoWaiting(c)) + 1
  <2>1. IoWaiting(c)' = IoWaiting(c) \cup {p} /\ p \notin IoWaiting(c)
    BY <1>5, <1>13, <1>17 DEF IoWaiting, Counted
  <2> QED
    BY <2>1, IoFinite, FS_AddElement
<1>18. \A e \in CPUs : nr_iowait'[e] = Cardinality(IoWaiting(e)')
  BY <1>14, <1>15, <1>16, <1>17
<1>19. nr_iowait' \in [CPUs -> Nat]
  BY <1>4, <1>14 DEF CountInv, CounterTypes
<1>20. IowaitExact'
  BY <1>18, ExactIsNext
<1>21. LoadExact' /\ nr_uninterruptible' \in [CPUs -> 0..(Word - 1)]
  <2>0. \A t \in Tasks : /\ t \in Contributing <=> contributes[t]
                         /\ t \in Contributing' <=> contributes'[t]
    BY DEF Contributing, CountInv, Sleepers
  <2>1. Contributing \subseteq Tasks /\ Contributing' \subseteq Tasks
    BY DEF Contributing
  <2>2. off => ~contributes[p]
    BY <1>5 DEF CountInv, Sleepers
  <2>3. CASE load
    <3>1. off /\ p \in Tasks
      BY <1>2, <1>5, <2>3
    <3>2. Contributing' = Contributing \cup {p} /\ p \notin Contributing
      BY <1>7, <2>0, <2>1, <2>2, <2>3, <3>1
    <3>3. Cardinality(Contributing') = Cardinality(Contributing) + 1
      BY <3>2, IoFinite, FS_AddElement
    <3>4. nr_uninterruptible' = [nr_uninterruptible EXCEPT ![c] = (@ + 1) % Word]
      BY <1>4, <2>3
    <3>5. PICK a \in Int : a = 1
      OBVIOUS
    <3> QED
      BY <3>3, <3>4, <3>5, LoadStep
  <2>4. CASE ~load
    <3>1. nr_uninterruptible' = nr_uninterruptible
      BY <1>4, <2>4 DEF CountInv, CounterTypes
    <3>2. Contributing' = Contributing
      BY <1>7, <2>0, <2>1, <2>2, <2>4
    <3> QED
      BY <3>1, <3>2, ExactIs, ExactIsNext DEF Total, CountInv, CounterTypes
  <2> QED
    BY <2>3, <2>4
<1>22. CounterTypes'
  BY <1>3, <1>7, <1>19, <1>21 DEF CounterTypes, CountInv
<1> QED
  BY <1>8, <1>20, <1>21, <1>22 DEF CountInv

LEMMA CountSleep ==
    ASSUME WInv, CountInv, NEW c \in CPUs, NEW t \in Tasks, NEW io \in BOOLEAN, Sleep(c, t, io)
    PROVE  CountInv'
<1>1. /\ pc[c] = "run" /\ curr[c] = t /\ tpc[t] = "check" /\ DoSchedule(c, curr[c], FALSE, io)
      /\ in_iowait' = [in_iowait EXCEPT ![t] = io] /\ tpc' = [tpc EXCEPT ![t] = "asleep"]
  BY DEF Sleep, Running
<1>2. /\ in_iowait'[t] = io /\ tpc'[t] = "asleep"
      /\ \A x \in Tasks : x # t => in_iowait'[x] = in_iowait[x] /\ tpc'[x] = tpc[x]
  BY <1>1 DEF WInv, Typing
<1>3. /\ Switched(c, FALSE)
      /\ contributes' = [x \in Tasks |-> IF Sleeps(t, FALSE) /\ x = t
            THEN Sleeps(t, FALSE) /\ state[t] = "UNINTERRUPTIBLE" ELSE contributes[x]]
  BY <1>1, ScheduleEffect DEF WInv, DoSchedule
<1>4. /\ \A x \in Tasks : x # t => contributes'[x] = contributes[x] /\ on_rq'[x] = on_rq[x]
      /\ contributes'[t] => ~on_rq'[t] \/ contributes[t]
      /\ ~on_rq[t] => ~on_rq'[t]
      /\ \A x \in Tasks : state'[x] = "unborn" => state[x] = "unborn"
  <2>1. /\ \A x \in Tasks : x # t => contributes'[x] = contributes[x]
        /\ ~Sleeps(t, FALSE) => contributes'[t] = contributes[t]
    BY <1>3
  <2>2. /\ \A x \in Tasks : x # t => on_rq'[x] = on_rq[x]
        /\ on_rq'[t] => on_rq[t] /\ ~Sleeps(t, FALSE)
    <3>1. \A x \in Tasks : on_rq'[x] = (on_rq[x] /\ ~(Sleeps(t, FALSE) /\ x = t))
      BY <1>1, <1>3 DEF Switched
    <3>2. \A x \in Tasks : on_rq[x] \in BOOLEAN
      BY DEF WInv, Typing
    <3> QED
      BY <3>1, <3>2
  <2>3. \A x \in Tasks : state'[x] = "unborn" => state[x] = "unborn"
    BY <1>3 DEF Switched
  <2> QED
    BY <2>1, <2>2, <2>3
<1>5. Sleepers'
  BY <1>1, <1>2, <1>4 DEF CountInv, Sleepers
<1> QED
  BY <1>1, <1>2, <1>5, ScheduleCounts

LEMMA CountLastSchedule ==
    ASSUME WInv, CountInv, NEW c \in CPUs, NEW t \in Tasks, LastSchedule(c, t)
    PROVE  CountInv'
<1>1. /\ pc[c] = "run" /\ curr[c] = t /\ tpc[t] = "dead"
      /\ DoSchedule(c, curr[c], FALSE, in_iowait[t]) /\ UNCHANGED <<in_iowait, tpc>>
  BY DEF LastSchedule, Running
<1>2. PICK io \in BOOLEAN : io = in_iowait[t]
  BY DEF WInv, Typing
<1>3. DoSchedule(c, curr[c], FALSE, io)
  BY <1>1, <1>2
<1>4. /\ Switched(c, FALSE)
      /\ contributes' = [x \in Tasks |-> IF Sleeps(t, FALSE) /\ x = t
            THEN Sleeps(t, FALSE) /\ state[t] = "UNINTERRUPTIBLE" ELSE contributes[x]]
  BY <1>1, <1>3, ScheduleEffect DEF WInv, DoSchedule
<1>5. state[t] = "DEAD"
  BY <1>1 DEF WInv, Lives
<1>6. /\ \A x \in Tasks : contributes'[x] => contributes[x]
      /\ \A x \in Tasks : ~on_rq[x] => ~on_rq'[x]
      /\ \A x \in Tasks : state'[x] = "unborn" => state[x] = "unborn"
  BY <1>4, <1>5 DEF Switched
<1>7. Sleepers'
  BY <1>1, <1>6 DEF CountInv, Sleepers
<1> QED
  BY <1>1, <1>2, <1>3, <1>7, ScheduleCounts

LEMMA CountResched ==
    ASSUME WInv, CountInv, NEW c \in CPUs, Resched(c)
    PROVE  CountInv'
<1>1. /\ pc[c] = "run" /\ DoSchedule(c, curr[c], curr[c] # Idle, FALSE)
      /\ UNCHANGED <<in_iowait, tpc>>
  BY DEF Resched
<1>2. PICK preempt \in BOOLEAN : preempt <=> curr[c] # Idle
  OBVIOUS
<1>3. DoSchedule(c, curr[c], preempt, FALSE)
  <2>1. preempt = (curr[c] # Idle)
    BY <1>2
  <2> QED
    BY <1>1, <2>1
<1>4. ~Sleeps(curr[c], preempt)
  BY <1>2 DEF Sleeps
<1>5. /\ Switched(c, preempt)
      /\ contributes' = [x \in Tasks |-> IF Sleeps(curr[c], preempt) /\ x = curr[c]
            THEN Sleeps(curr[c], preempt) /\ state[curr[c]] = "UNINTERRUPTIBLE" ELSE contributes[x]]
  BY ZenonT(30), <1>1, <1>3, ScheduleEffect DEF WInv, DoSchedule
<1>6. /\ \A x \in Tasks : contributes'[x] => contributes[x]
      /\ \A x \in Tasks : ~on_rq[x] => ~on_rq'[x]
      /\ \A x \in Tasks : state'[x] = "unborn" => state[x] = "unborn"
  BY <1>4, <1>5 DEF Switched
<1>7. Sleepers'
  BY <1>1, <1>6 DEF CountInv, Sleepers
<1> QED
  BY <1>1, <1>3, <1>4, <1>7, ScheduleCounts
--------------------------------------------------------------------------------
(* The counters are exact *)

LEMMA SumZero ==
    ASSUME NEW f \in [CPUs -> Int], \A c \in CPUs : f[c] = 0
    PROVE  SumTo(f)[CPUs] = 0
<1> DEFINE h == SumTo(f)
           Bad == {n \in Nat : \E s \in SUBSET CPUs : Cardinality(s) = n /\ h[s] # 0}
<1> HIDE DEF h
<1>1. h[{}] = 0 /\ \A s \in SUBSET CPUs : s # {} => h[s] = f[First(s)] + h[Rest(s)]
  BY SumToDef DEF h
<1>2. Bad = {}
  <2>1. SUFFICES ASSUME Bad # {} PROVE FALSE
    OBVIOUS
  <2>2. PICK n \in Bad : \A i \in Bad : ~(i < n)
    BY <2>1, Least
  <2>3. PICK s \in SUBSET CPUs : Cardinality(s) = n /\ h[s] # 0
    OBVIOUS
  <2>4. s # {}
    BY <1>1, <2>3
  <2>5. First(s) \in CPUs /\ Rest(s) \in SUBSET CPUs /\ Cardinality(Rest(s)) \in Nat
        /\ Cardinality(Rest(s)) < n
    BY <2>3, <2>4, SetOfCPUs
  <2>6. h[Rest(s)] = 0
    BY <2>2, <2>5
  <2> QED
    BY <1>1, <2>3, <2>4, <2>5, <2>6
<1>3. h[CPUs] = 0
  BY <1>2, SetOfCPUs
<1> QED
  BY <1>3 DEF h

LEMMA CountInit == Init => CountInv
<1> SUFFICES ASSUME Init PROVE CountInv
  OBVIOUS
<1>0. Word \in Nat /\ Word > 0
  <2>1. IsFiniteSet(Waiters) /\ Cardinality(Waiters) \in Nat
    BY WakeupAssumption, FS_Subset, FS_CardinalityType
  <2> QED
    BY <2>1, WakeupAssumption
<1>1. /\ \A t \in Tasks : ~contributes[t] /\ ~in_iowait[t] /\ tpc[t] = "work"
      /\ contributes \in [Tasks -> BOOLEAN] /\ caches \in Topologies
      /\ nr_uninterruptible = [c \in CPUs |-> 0] /\ nr_iowait = nr_uninterruptible
      /\ \A c \in CPUs : wake_q[c] = <<>>
  BY DEF Init
<1>2. CounterTypes
  BY <1>0, <1>1 DEF CounterTypes
<1>3. Sleepers
  BY <1>1 DEF Sleepers
<1>4. QueuedOnce
  BY <1>1 DEF QueuedOnce
<1>5. \A c \in CPUs : IoWaiting(c) = {}
  BY <1>1 DEF IoWaiting, Counted
<1>6. IowaitExact
  BY <1>1, <1>5, ExactIs, FS_EmptySet
<1>7. Contributing = {}
  BY <1>1 DEF Contributing
<1>8. Total = 0
  BY <1>1, SumZero DEF Total
<1>9. LoadExact
  <2>1. 0 % Word = 0
    BY <1>0
  <2>2. Total % Word = Cardinality(Contributing)
    BY <1>7, <1>8, <2>1, FS_EmptySet
  <2> QED
    BY <2>2, ExactIs
<1> QED
  BY <1>2, <1>3, <1>4, <1>6, <1>9 DEF CountInv

LEMMA CountStutter == CountInv /\ UNCHANGED vars => CountInv'
<1> SUFFICES ASSUME CountInv, UNCHANGED vars PROVE CountInv'
  OBVIOUS
<1>1. UNCHANGED <<state, on_rq, cpu, contributes, in_iowait, tpc, caches, nr_uninterruptible,
                  nr_iowait, wake_list, wake_q, pc, target, migrated>>
  BY DEF vars, taskVars, rqVars, pcVars
<1>2. Sleepers' /\ QueuedOnce'
  BY <1>1 DEF CountInv, Sleepers, QueuedOnce
<1>3. \A x \in Tasks : Moved(x)' <=> Moved(x)
  BY <1>1 DEF Moved
<1>4. \A x \in Tasks, c \in CPUs : Counted(x, c)' <=> Counted(x, c)
  BY <1>1, <1>3 DEF Counted
<1> QED
  BY <1>1, <1>2, <1>4, QuietStep

LEMMA CountNext == WInv /\ CountInv /\ [Next]_vars => CountInv'
<1> SUFFICES ASSUME WInv, CountInv, [Next]_vars PROVE CountInv'
  OBVIOUS
<1> USE WakeupAssumption
<1>1. CASE UNCHANGED vars
  BY <1>1, CountStutter
<1>2. ASSUME NEW c \in CPUs, TaskStep(c) PROVE CountInv'
  <2>1. PICK t \in Tasks :
        \/ \E s \in Sleeping : SetState(c, t, s)
        \/ LeaveLoop(c, t)
        \/ Returned(c, t)
        \/ \E p \in Tasks, d \in CPUs : WakeUpNewTask(c, t, p, d)
        \/ \E p \in Tasks : ReleaseTask(c, t, p)
        \/ DoTaskDead(c, t)
        \/ \E io \in {FALSE, state[t] = "UNINTERRUPTIBLE"} : Sleep(c, t, io)
        \/ LastSchedule(c, t)
    BY <1>2 DEF TaskStep
  <2>2. ASSUME NEW io \in {FALSE, state[t] = "UNINTERRUPTIBLE"}, Sleep(c, t, io) PROVE CountInv'
    <3>1. io \in BOOLEAN
      BY Zenon
    <3> QED
      BY <2>2, <3>1, CountSleep
  <2> QED
    BY <2>1, <2>2, CountSetState, CountLeaveLoop, CountReturned, CountWakeUpNewTask,
       CountReleaseTask, CountDoTaskDead, CountLastSchedule
<1>3. ASSUME NEW c \in CPUs, SwitchStep(c) PROVE CountInv'
  BY <1>3, CountFinishTask, CountPutTask DEF SwitchStep
<1>4. ASSUME NEW c \in CPUs, WakeStep(c) PROVE CountInv'
  BY <1>4, CountTtwuLock, CountTtwuRunnable, CountTtwuSelect, CountTtwuQueueRemote,
     CountTtwuQueueLocal DEF WakeStep
<1>5. ASSUME NEW c \in CPUs, Event(c) PROVE CountInv'
  BY <1>5, CountWakeUpProcess, CountWakeUpState, CountWakeQAdd, CountSchedulerTick DEF Event
<1> QED
  BY <1>1, <1>2, <1>3, <1>4, <1>5, CountResched, CountWakeUpQ, CountTtwuPending DEF Next

\* A wake_q is no longer than there are tasks.
LEMMA WakeQBound ==
    ASSUME WInv, QueuedOnce, NEW c \in CPUs
    PROVE  Len(wake_q[c]) <= Cardinality(Tasks)
<1> DEFINE q == wake_q[c]
<1>1. q \in Seq(Tasks) /\ Len(q) \in Nat /\ q \in [1..Len(q) -> Tasks]
  BY DEF WInv, Typing
<1>2. \A i, j \in 1..Len(q) : q[i] = q[j] => i = j
  BY DEF QueuedOnce
<1>3. q \in Injection(1..Len(q), Tasks)
  BY <1>1, <1>2 DEF Injection, IsInjective
<1>4. Cardinality(1..Len(q)) <= Cardinality(Tasks)
  BY <1>3, WakeupAssumption, FS_Injection
<1>5. Cardinality(1..Len(q)) = Len(q)
  BY <1>1, FS_Interval
<1> QED
  BY <1>4, <1>5

LEMMA InvCounters == WInv /\ CountInv => CountersExact
<1> SUFFICES ASSUME WInv, CountInv PROVE TypeOK
  BY DEF CountersExact, CountInv
<1>1. nr_iowait \in [CPUs -> 0..Cardinality(Tasks)]
  <2>1. \A c \in CPUs : Cardinality(IoWaiting(c)) <= Cardinality(Tasks)
    BY WakeupAssumption, FS_Subset DEF IoWaiting
  <2>2. Cardinality(Tasks) \in Nat
    BY WakeupAssumption, FS_CardinalityType
  <2>3. \A c \in CPUs : nr_iowait[c] = Cardinality(IoWaiting(c))
    BY ExactIs DEF CountInv
  <2> QED
    BY <2>1, <2>2, <2>3 DEF CountInv, CounterTypes
<1>2. \A c \in CPUs : wake_q[c] \in Seq(Tasks) /\ Len(wake_q[c]) <= Cardinality(Tasks)
  BY WakeQBound DEF WInv, Typing, CountInv
<1> QED
  BY <1>1, <1>2 DEF TypeOK, WInv, Typing, CountInv, CounterTypes

\* The counters of waking are exact in every reachable state, for any number of tasks and
\* CPUs and any topology: nr_iowait of a runqueue is the number of tasks that sleep in
\* io_schedule and count there although set_task_cpu and ttwu_do_activate share the
\* subtraction, and the sum of the unsigned nr_uninterruptible is the number of tasks that
\* contribute to the load although it is added on one runqueue and subtracted on another.
THEOREM CountersExactCorrect == Spec => []CountersExact
<1>1. Init => WInv /\ CountInv
  BY WInit, CountInit
<1>2. WInv /\ CountInv /\ [Next]_vars => WInv' /\ CountInv'
  BY WNext, CountNext
<1> QED
  BY <1>1, <1>2, InvCounters, PTL DEF Spec
================================================================================
