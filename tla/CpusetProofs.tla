------------------------------ MODULE CpusetProofs ------------------------------
(***************************************************************************)
(* Proofs about Affinity and Cpuset, for any number of CPUs and of callers  *)
(* of set_cpus_allowed_ptr and sched_setaffinity.                           *)
(*                                                                          *)
(* A request of set_cpus_allowed_ptr is on the stack of the caller that     *)
(* installed it.  Its life has three parts: it is installed                 *)
(* (p->migration_pending), then exactly one actor completes it, then it is  *)
(* done.  As long as stop_pending is set exactly one actor carries its work *)
(* item, and only that one may complete it (Carried, Completed).            *)
(***************************************************************************)
EXTENDS Cpuset, FiniteSetTheorems, TLAPS

--------------------------------------------------------------------------------
(* The invariant: the parts that hold also beyond the races the code loses *)

CallRec == [pc : {"idle", "stop", "complete", "wait", "refs"}, on : Callers \cup {None},
            cpu : CPUs \cup {None}, waits : BOOLEAN]
ReqRec == [refs : Nat, stop_pending : BOOLEAN, done : BOOLEAN]

Typing ==
    /\ kthread \in BOOLEAN /\ cpu \in CPUs /\ on_rq \in {"queued", "asleep", "waking"}
    /\ mask \in SUBSET CPUs /\ mask # {} /\ pin \in CPUs \cup {None}
    /\ disabled \in 0..MaxNest /\ mdf_push \in BOOLEAN
    /\ pending \in Callers \cup {None}
    /\ enabling \in {None} \cup Enabling
    /\ run \in [CPUs -> {"p", "idle", "stop", "hotplug", "off"}]
    /\ works \in [CPUs -> Seq(Works)]
    /\ hand \in [CPUs -> Afterwards \cup {None}]
    /\ call \in [Callers -> CallRec] /\ req \in [Callers -> ReqRec]
    /\ push_busy \in SUBSET CPUs /\ rq_online \in SUBSET CPUs
    /\ nr_pinned \in [CPUs -> Int]
    /\ hp \in [cpu : CPUs \cup {None}, pc : Hotplug]
    /\ tick \in [CPUs -> {"OFFLINE", "OFFLINING", "RUNNING"}] /\ twork \in [CPUs -> Nat]
    /\ warn \in SUBSET Warnings /\ known \in SUBSET {"outside", "pinned", "refused"}

\* p runs where it is queued, and during migrate_enable it is not preempted.
RunsHere ==
    /\ \A c \in CPUs : c \notin online => run[c] = "off"
    /\ \A c \in CPUs : run[c] = "p" => cpu = c /\ on_rq = "queued"
    /\ enabling # None => run[cpu] = "p" /\ disabled = 1

\* What is left of the CPUs while one of them goes or comes.
HotplugOK ==
    /\ hp.pc # "none" => hp.cpu \in HotCPUs /\ CPUs # {hp.cpu}
    /\ active = (IF hp.pc = "none" THEN CPUs ELSE CPUs \ {hp.cpu})
    /\ online = (IF hp.pc = "down" THEN CPUs \ {hp.cpu} ELSE CPUs)
    /\ balance_push = (IF hp.pc \in {"pushing", "rq_offline", "wait", "sleep", "empty"}
                       THEN {hp.cpu} ELSE {})
    /\ hp.pc \in {"rq_offline", "wait", "sleep", "empty", "down", "up"} => hp.cpu \notin rq_online

\* The remote tick of a CPU runs as long as the CPU is there.
TickOK == \A c \in CPUs :
    /\ tick[c] = "RUNNING" <=> c \in HotCPUs \cap online
    /\ twork[c] = IF tick[c] = "OFFLINE" THEN 0 ELSE 1

In(w, q) == \E i \in 1..Len(q) : q[i] = w
Distinct(q) == \A i, j \in 1..Len(q) : q[i] = q[j] => i = j

\* What is in the queue of the stopper of c.
HasWork(c, r) == In(Work("migrate", r), works[c])
HasPush(c) == In(Work("push", None), works[c])
HasBalance(c) == In(Work("balance", None), works[c])
NoRepeat(c) == Distinct(works[c])

\* The work of request r is queued, or somebody is about to queue it.
Queued(r) == \E c \in CPUs : HasWork(c, r)
Requeues(c, r) == hand[c] = [do |-> "requeue", of |-> r]
Starts(c, r) == call[c].pc = "stop" /\ call[c].on = r
Enables(r) == enabling # None /\ enabling.stop = r
Carried(r) ==
    \/ Queued(r) \/ Enables(r)
    \/ \E c \in CPUs : Requeues(c, r)
    \/ \E c \in Callers : Starts(c, r)

\* It is carried once.
CarriedOnce == \A r \in Callers :
    /\ \A c, d \in CPUs : HasWork(c, r) /\ HasWork(d, r) => c = d
    /\ \A c, d \in CPUs : Requeues(c, r) /\ Requeues(d, r) => c = d
    /\ \A c, d \in Callers : Starts(c, r) /\ Starts(d, r) => c = d
    /\ \A c \in CPUs : Requeues(c, r) => ~Queued(r) /\ ~Enables(r)
    /\ \A c \in Callers : Starts(c, r) =>
        ~Queued(r) /\ ~Enables(r) /\ \A d \in CPUs : ~Requeues(d, r)
    /\ Enables(r) => ~Queued(r)

\* Somebody is about to call complete_all.
Hands(c, r) == hand[c] = [do |-> "complete", of |-> r]
Completes(c, r) == call[c].pc = "complete" /\ call[c].on = r
EnableDone(r) == enabling # None /\ enabling.done = r
Completed(r) ==
    \/ EnableDone(r)
    \/ \E c \in CPUs : Hands(c, r)
    \/ \E c \in Callers : Completes(c, r)

CompletedOnce == \A r \in Callers :
    /\ \A c, d \in CPUs : Hands(c, r) /\ Hands(d, r) => c = d
    /\ \A c, d \in Callers : Completes(c, r) /\ Completes(d, r) => c = d
    /\ \A c \in CPUs : Hands(c, r) => ~EnableDone(r)
    /\ \A c \in Callers : Completes(c, r) => ~EnableDone(r) /\ \A d \in CPUs : ~Hands(d, r)

\* The caller whose request it is has not returned and will wait.
OwnerWaits(r) == call[r].on = r /\ call[r].waits

\* Installed, about to be completed, done: never two of them at once.
Stages == \A r \in Callers :
    /\ pending = r => OwnerWaits(r) /\ call[r].pc # "complete" /\ ~req[r].done
    /\ Carried(r) => req[r].stop_pending
    /\ req[r].stop_pending => pending = r
    /\ Completed(r) => OwnerWaits(r) /\ call[r].pc # "stop" /\ pending # r /\ ~req[r].done
    /\ \A c \in Callers : call[c].on = r /\ call[c].waits => pending = r \/ Completed(r) \/ req[r].done

\* The reference count is the number of callers that take part.
Holders(r) == {c \in Callers : call[c].on = r /\ call[c].waits}
Counting == \A r \in Callers :
    /\ req[r].refs = Cardinality(Holders(r))
    /\ ~call[r].waits => req[r] = NoRequest

\* Where a caller is and what it takes part in.
CallOK == \A c \in Callers :
    /\ call[c].on = None <=> call[c].pc \in {"idle", "refs"}
    /\ call[c].on # None /\ call[c].pc # "complete" => call[c].waits
    /\ call[c].pc = "idle" => ~call[c].waits
    /\ call[c].pc = "stop" => call[c].cpu \in CPUs

\* Each work item is queued once; those of the CPUs are guarded by push_busy, by an empty
\* queue, or by the stopper that is already running.
QueuesOK == \A c \in CPUs :
    /\ NoRepeat(c)
    /\ HasPush(c) => c \in push_busy
    /\ HasBalance(c) => run[c] = "stop"
    /\ enabling # None /\ enabling.push /\ cpu = c =>
        c \in push_busy /\ ~HasPush(c) /\ enabling.stop = None

\* sched_setaffinity and the cpuset.
Setters ==
    /\ about \in {"cpusets", "hotplug"} /\ cpuset \in SUBSET CPUs /\ cpuset # {}
    /\ setter \in [Callers -> [pc : {"none", "again", "setting", "update", "updating"},
                               new : SUBSET CPUs]]
    /\ \A c \in Callers : setter[c].pc \in {"update", "updating"} => setter[c].new = cpuset
    /\ about = "cpusets" => hp.pc = "none" /\ ~kthread
    /\ about = "hotplug" => cpuset = CPUs

Requests == CarriedOnce /\ CompletedOnce /\ Stages /\ Counting /\ CallOK
ACore == Typing /\ RunsHere /\ HotplugOK /\ TickOK /\ Requests /\ QueuesOK
Core == ACore /\ Setters /\ MaskWithinCpuset
--------------------------------------------------------------------------------
(* The parts that hold as long as no race has been lost and no warning given *)

Pinning ==
    /\ disabled = 0 => pin = None
    /\ pin \in {None, cpu}
    /\ disabled > 0 /\ run[cpu] # "p" => pin = cpu
    /\ enabling # None => pin = None
    /\ \A c \in CPUs : HasBalance(c) /\ cpu = c => disabled = 0

\* The work of a request that is in use is carried by somebody.
Remembers == \A r \in Callers : req[r].stop_pending => Carried(r)

\* p is on its mask or a request is pending, and a request whose work is not in use is left to
\* the migrate_enable of p, which is pinned.
Left ==
    /\ on_rq # "asleep" \/ disabled > 0 => cpu \in mask \/ pending # None
    /\ \A r \in Callers : pending = r /\ ~req[r].stop_pending =>
        disabled > 0 /\ pin # None /\ enabling = None

\* A CPU that is down has nothing to do, and what is left of a CPU that goes down.
Leaving ==
    /\ \A c \in CPUs : c \notin online => works[c] = <<>> /\ hand[c] = None
    /\ hp.pc \in {"rq_offline", "wait", "sleep", "empty"} => ~(on_rq = "waking" /\ cpu = hp.cpu)
    /\ hp.pc = "empty" /\ ~kthread => Vacated(hp.cpu)

\* nr_pinned is exact, and the hotplug thread sleeps next to an idle CPU only for a pinned p.
Counted ==
    /\ \A c \in CPUs : nr_pinned[c] = IF disabled > 0 /\ cpu = c THEN 1 ELSE 0
    /\ hp.pc = "sleep" /\ run[hp.cpu] = "idle" => nr_pinned[hp.cpu] = 1

Warned == known = {} => warn \subseteq (IF kthread THEN {"sched_cpu_dying"} ELSE {})
PinnedOnline == disabled > 0 => cpu \in online
Strong == Pinning /\ Left /\ Leaving

\* What is known of a state that is followed, and of every state one step further.
Sound == ACore /\ Followed /\ Counted /\ Strong /\ PinnedOnline
Good == Counted /\ Warned /\ (known = {} => Strong) /\ (Followed => PinnedOnline)
FInv == Core /\ Good /\ (known = {} => Remembers)

\* What a step may do to the requests.
KeepsCarried == Remembers /\ known' = {} => Remembers'
SameStop == \A r \in Callers : req'[r].stop_pending <=> req[r].stop_pending
--------------------------------------------------------------------------------
(* The queues of the stoppers *)

LEMMA AppendIn ==
    ASSUME NEW S, NEW q \in Seq(S), NEW w \in S
    PROVE  /\ Append(q, w) \in Seq(S)
           /\ \A x : In(x, Append(q, w)) <=> In(x, q) \/ x = w
           /\ Distinct(q) /\ ~In(w, q) => Distinct(Append(q, w))
<1> DEFINE v == Append(q, w)
<1>1. /\ v \in Seq(S) /\ Len(v) = Len(q) + 1 /\ v[Len(v)] = w
      /\ \A i \in 1..Len(q) : v[i] = q[i]
  OBVIOUS
<1> HIDE DEF v
<1>2. \A x : In(x, v) <=> In(x, q) \/ x = w
  BY <1>1 DEF In
<1>3. Distinct(q) /\ ~In(w, q) => Distinct(v)
  BY <1>1 DEF Distinct, In
<1> QED
  BY <1>1, <1>2, <1>3 DEF v

LEMMA TailIn ==
    ASSUME NEW S, NEW q \in Seq(S), q # <<>>, Distinct(q)
    PROVE  /\ Tail(q) \in Seq(S) /\ Head(q) \in S /\ In(Head(q), q)
           /\ \A x : In(x, Tail(q)) <=> In(x, q) /\ x # Head(q)
           /\ Distinct(Tail(q))
<1> DEFINE v == Tail(q)
<1>1. /\ v \in Seq(S) /\ Len(v) = Len(q) - 1 /\ Len(q) \in Nat /\ Len(q) > 0 /\ Head(q) = q[1]
      /\ \A i \in 1..Len(v) : v[i] = q[i + 1]
  OBVIOUS
<1> HIDE DEF v
<1>2. Head(q) \in S /\ In(Head(q), q)
  BY <1>1 DEF In
<1>3. ASSUME NEW x PROVE In(x, v) <=> In(x, q) /\ x # Head(q)
  <2>1. ASSUME In(x, v) PROVE In(x, q) /\ x # Head(q)
    <3>1. PICK i \in 1..Len(v) : v[i] = x
      BY <2>1 DEF In
    <3>2. i + 1 \in 1..Len(q) /\ q[i + 1] = x /\ i + 1 # 1 /\ 1 \in 1..Len(q)
      BY <1>1, <3>1
    <3> QED
      BY <1>1, <3>2 DEF In, Distinct
  <2>2. ASSUME In(x, q), x # Head(q) PROVE In(x, v)
    <3>1. PICK i \in 1..Len(q) : q[i] = x
      BY <2>2 DEF In
    <3>2. i - 1 \in 1..Len(v) /\ v[i - 1] = x
      BY <1>1, <2>2, <3>1
    <3> QED
      BY <3>2 DEF In
  <2> QED
    BY <2>1, <2>2
<1>4. Distinct(v)
  BY <1>1 DEF Distinct
<1> QED
  BY <1>1, <1>2, <1>3, <1>4 DEF v

\* Work items of different kinds or requests differ.
LEMMA WorkIs ==
    /\ \A r, s : Work("migrate", r) = Work("migrate", s) <=> r = s
    /\ \A r, s : Work("migrate", r) # Work("exec", s) /\ Work("push", r) # Work("exec", s)
                 /\ Work("balance", r) # Work("exec", s)
    /\ \A r, s : Work("migrate", r) # Work("push", s) /\ Work("migrate", r) # Work("balance", s)
                 /\ Work("push", r) # Work("balance", s)
    /\ \A r \in Callers : Work("migrate", r) \in Works
    /\ \A c \in CPUs : Work("exec", c) \in Works
    /\ Work("push", None) \in Works /\ Work("balance", None) \in Works
  BY DEF Work, Works

LEMMA WorksSame ==
    ASSUME works' = works
    PROVE  /\ \A d, r : HasWork(d, r)' <=> HasWork(d, r)
           /\ \A d : HasPush(d)' <=> HasPush(d)
           /\ \A d : HasBalance(d)' <=> HasBalance(d)
           /\ \A d : NoRepeat(d)' <=> NoRepeat(d)
  BY DEF HasWork, HasPush, HasBalance, NoRepeat, In, Distinct

LEMMA WorksAppend ==
    ASSUME works \in [CPUs -> Seq(Works)], NEW c \in CPUs, NEW w \in Works,
           works' = [works EXCEPT ![c] = Append(@, w)]
    PROVE  /\ works' \in [CPUs -> Seq(Works)] /\ \A d \in CPUs \ {c} : works'[d] = works[d]
           /\ \A d \in CPUs, r \in Callers :
                HasWork(d, r)' <=> HasWork(d, r) \/ (d = c /\ w = Work("migrate", r))
           /\ \A d \in CPUs : HasPush(d)' <=> HasPush(d) \/ (d = c /\ w = Work("push", None))
           /\ \A d \in CPUs : HasBalance(d)' <=> HasBalance(d) \/ (d = c /\ w = Work("balance", None))
           /\ \A d \in CPUs : NoRepeat(d) /\ (d = c => ~In(w, works[c])) => NoRepeat(d)'
<1>1. /\ works' \in [CPUs -> Seq(Works)] /\ \A d \in CPUs \ {c} : works'[d] = works[d]
      /\ works'[c] = Append(works[c], w) /\ works[c] \in Seq(Works)
  OBVIOUS
<1>2. /\ \A x : In(x, works'[c]) <=> In(x, works[c]) \/ x = w
      /\ Distinct(works[c]) /\ ~In(w, works[c]) => Distinct(works'[c])
  BY <1>1, AppendIn
<1>3. /\ \A d, r : HasWork(d, r)' <=> In(Work("migrate", r), works'[d])
      /\ \A d : HasPush(d)' <=> In(Work("push", None), works'[d])
      /\ \A d : HasBalance(d)' <=> In(Work("balance", None), works'[d])
      /\ \A d : NoRepeat(d)' <=> Distinct(works'[d])
  BY DEF HasWork, HasPush, HasBalance, NoRepeat, In, Distinct, Work
<1> QED
  BY <1>1, <1>2, <1>3 DEF HasWork, HasPush, HasBalance, NoRepeat

LEMMA WorksTail ==
    ASSUME works \in [CPUs -> Seq(Works)], NEW c \in CPUs, works[c] # <<>>, NoRepeat(c),
           works' = [works EXCEPT ![c] = Tail(@)], NEW w, w = Head(works[c])
    PROVE  /\ works' \in [CPUs -> Seq(Works)] /\ \A d \in CPUs \ {c} : works'[d] = works[d]
           /\ w \in Works
           /\ \A r \in Callers : w = Work("migrate", r) => HasWork(c, r)
           /\ w = Work("push", None) => HasPush(c)
           /\ w = Work("balance", None) => HasBalance(c)
           /\ \A d \in CPUs, r \in Callers :
                HasWork(d, r)' <=> HasWork(d, r) /\ ~(d = c /\ w = Work("migrate", r))
           /\ \A d \in CPUs : HasPush(d)' <=> HasPush(d) /\ ~(d = c /\ w = Work("push", None))
           /\ \A d \in CPUs : HasBalance(d)' <=> HasBalance(d) /\ ~(d = c /\ w = Work("balance", None))
           /\ \A d \in CPUs : NoRepeat(d) => NoRepeat(d)'
<1>1. /\ works[c] \in Seq(Works) /\ Distinct(works[c])
  BY DEF NoRepeat
<1>2. /\ Tail(works[c]) \in Seq(Works) /\ w \in Works /\ In(w, works[c])
      /\ \A x : In(x, Tail(works[c])) <=> In(x, works[c]) /\ x # w
      /\ Distinct(Tail(works[c]))
  BY <1>1, TailIn
<1>3. /\ works' \in [CPUs -> Seq(Works)] /\ \A d \in CPUs \ {c} : works'[d] = works[d]
      /\ works'[c] = Tail(works[c])
  BY <1>2
<1>4. /\ \A d, r : HasWork(d, r)' <=> In(Work("migrate", r), works'[d])
      /\ \A d : HasPush(d)' <=> In(Work("push", None), works'[d])
      /\ \A d : HasBalance(d)' <=> In(Work("balance", None), works'[d])
      /\ \A d : NoRepeat(d)' <=> Distinct(works'[d])
  BY DEF HasWork, HasPush, HasBalance, NoRepeat, In, Distinct, Work
<1> QED
  BY <1>2, <1>3, <1>4 DEF HasWork, HasPush, HasBalance, NoRepeat

\* stop_one_cpu_nowait: the work is queued, or refused by a CPU that is not there.
LEMMA StopOneCpuEffect ==
    ASSUME Typing, NEW c \in CPUs, NEW w \in Works, StopOneCpu(c, w)
    PROVE  /\ works' \in [CPUs -> Seq(Works)] /\ \A d \in CPUs \ {c} : works'[d] = works[d]
           /\ known' \in SUBSET {"outside", "pinned", "refused"}
           /\ c \in online => known' = known
           /\ c \notin online => works' = works /\ known' # {}
           /\ \A d \in CPUs, r \in Callers :
                HasWork(d, r)' <=> HasWork(d, r) \/ (d = c /\ w = Work("migrate", r) /\ c \in online)
           /\ \A d \in CPUs : HasPush(d)' <=> HasPush(d) \/ (d = c /\ w = Work("push", None) /\ c \in online)
           /\ \A d \in CPUs :
                HasBalance(d)' <=> HasBalance(d) \/ (d = c /\ w = Work("balance", None) /\ c \in online)
           /\ \A d \in CPUs : NoRepeat(d) /\ (d = c => ~In(w, works[c])) => NoRepeat(d)'
<1>0. works \in [CPUs -> Seq(Works)] /\ known \in SUBSET {"outside", "pinned", "refused"}
  BY DEF Typing
<1>1. CASE c \in online
  <2>1. works' = [works EXCEPT ![c] = Append(@, w)] /\ known' = known
    BY <1>1 DEF StopOneCpu
  <2> QED
    BY <1>0, <1>1, <2>1, WorksAppend
<1>2. CASE c \notin online
  <2>1. works' = works /\ known' = known \cup {"refused"}
    BY <1>2 DEF StopOneCpu
  <2> QED
    BY <1>0, <1>2, <2>1, WorksSame
<1> QED
  BY <1>1, <1>2
--------------------------------------------------------------------------------
(* What does not change *)

LEMMA HandSame ==
    ASSUME hand' = hand
    PROVE  \A d, r : (Requeues(d, r)' <=> Requeues(d, r)) /\ (Hands(d, r)' <=> Hands(d, r))
  BY DEF Requeues, Hands

LEMMA CallSame ==
    ASSUME call' = call
    PROVE  /\ \A d, r : (Starts(d, r)' <=> Starts(d, r)) /\ (Completes(d, r)' <=> Completes(d, r))
           /\ \A r : (OwnerWaits(r)' <=> OwnerWaits(r)) /\ Holders(r)' = Holders(r)
  BY DEF Starts, Completes, OwnerWaits, Holders

LEMMA EnablingSame ==
    ASSUME enabling' = enabling
    PROVE  \A r : (Enables(r)' <=> Enables(r)) /\ (EnableDone(r)' <=> EnableDone(r))
  BY DEF Enables, EnableDone

LEMMA KeepRequests ==
    ASSUME Requests, UNCHANGED <<pending, hand, enabling, call, req>>,
           \A d \in CPUs, r \in Callers : HasWork(d, r)' <=> HasWork(d, r)
    PROVE  Requests' /\ KeepsCarried
<1>1. \A r \in Callers : /\ Queued(r)' <=> Queued(r)
                         /\ Enables(r)' <=> Enables(r)
                         /\ EnableDone(r)' <=> EnableDone(r)
                         /\ OwnerWaits(r)' <=> OwnerWaits(r)
                         /\ Holders(r)' = Holders(r)
  BY CallSame, EnablingSame DEF Queued
<1>2. \A d, r : /\ Requeues(d, r)' <=> Requeues(d, r)
                /\ Hands(d, r)' <=> Hands(d, r)
                /\ Starts(d, r)' <=> Starts(d, r)
                /\ Completes(d, r)' <=> Completes(d, r)
  BY CallSame, HandSame
<1>3. \A r \in Callers : (Carried(r)' <=> Carried(r)) /\ (Completed(r)' <=> Completed(r))
  BY <1>1, <1>2 DEF Carried, Completed
<1>4. CarriedOnce'
  BY <1>1, <1>2 DEF Requests, CarriedOnce
<1>5. CompletedOnce'
  BY <1>1, <1>2 DEF Requests, CompletedOnce
<1>6. Stages'
  BY <1>1, <1>3 DEF Requests, Stages
<1>7. Counting'
  BY <1>1 DEF Requests, Counting, NoRequest
<1>8. CallOK'
  BY DEF Requests, CallOK
<1>9. KeepsCarried
  BY <1>3 DEF KeepsCarried, Remembers
<1> QED
  BY <1>4, <1>5, <1>6, <1>7, <1>8, <1>9 DEF Requests

LEMMA KeepHotplug ==
    ASSUME HotplugOK, UNCHANGED <<hp, active, online, balance_push, rq_online>>
    PROVE  HotplugOK'
  BY DEF HotplugOK

LEMMA KeepTick ==
    ASSUME TickOK, UNCHANGED <<online, tick, twork>>
    PROVE  TickOK'
  BY DEF TickOK

LEMMA KeepQueues ==
    ASSUME QueuesOK, UNCHANGED <<works, push_busy, enabling>>,
           enabling # None => cpu' = cpu,
           \A c \in CPUs : run[c] = "stop" => run'[c] = "stop"
    PROVE  QueuesOK'
  BY WorksSame DEF QueuesOK
--------------------------------------------------------------------------------
(* Core: p, its CPU and hotplug *)

LEMMA FallbackTypes ==
    ASSUME Typing, HotplugOK, NEW s \in SelectFallbackRq
    PROVE  /\ s.to \in CPUs /\ s.mask \in {mask, CPUs}
           /\ hp.pc = "none" => s.mask = mask
<1> DEFINE near == active \cap cpus_ptr
<1>1. near \subseteq CPUs /\ (hp.pc = "none" => near # {})
  BY DEF Typing, HotplugOK, cpus_ptr
<1>2. near # {} => s \in [to : near, mask : {mask}]
  BY DEF SelectFallbackRq
<1>3. s \in [to : CPUs, mask : {mask, CPUs}]
  <2>1. CASE near # {}
    BY <1>1, <1>2, <2>1
  <2>2. CASE near = {} /\ {c \in CPUs : Allowed(c, cpus_ptr)} # {}
    BY <2>2 DEF SelectFallbackRq
  <2>3. CASE near = {} /\ {c \in CPUs : Allowed(c, cpus_ptr)} = {}
    BY <2>3 DEF SelectFallbackRq
  <2> QED
    BY <2>1, <2>2, <2>3
<1> QED
  BY <1>1, <1>2, <1>3

LEMMA SelectTypes ==
    ASSUME Typing, HotplugOK, NEW s \in SelectTaskRq
    PROVE  /\ s.to \in CPUs /\ s.mask \in {mask, CPUs}
           /\ hp.pc = "none" => s.mask = mask
<1> DEFINE chosen == IF disabled = 0 /\ Cardinality(mask) > 1 THEN mask \cup {cpu} ELSE cpus_ptr
<1>1. chosen \subseteq CPUs
  BY DEF Typing, cpus_ptr
<1>2. \/ s \in SelectFallbackRq
      \/ s \in [to : {c \in chosen : Allowed(c, cpus_ptr)}, mask : {mask}]
  BY DEF SelectTaskRq
<1>3. CASE s \in [to : {c \in chosen : Allowed(c, cpus_ptr)}, mask : {mask}]
  BY <1>1, <1>3
<1> QED
  BY <1>2, <1>3, FallbackTypes

LEMMA SetTaskCpuTypes ==
    ASSUME Typing, NEW c \in CPUs, SetTaskCpu(c)
    PROVE  cpu' = c /\ cpu' \in CPUs /\ warn' \in SUBSET Warnings
  BY DEF SetTaskCpu, Warn, Typing, Warnings

LEMMA TryToWakeUpCore ==
    ASSUME ACore, TryToWakeUp
    PROVE  ACore' /\ KeepsCarried /\ (hp.pc = "none" => mask' = mask) /\ UNCHANGED <<hp, kthread>>
<1> USE DEF ACore
<1>1. /\ on_rq = "asleep"
      /\ UNCHANGED <<kthread, pin, disabled, mdf_push, pending, enabling, run, works, hand, call,
                     req, active, online, balance_push, nr_pinned, rq_online, hp, tick, twork,
                     push_busy, known>>
  BY DEF TryToWakeUp, cpus
<1>2. PICK s \in SelectTaskRq :
        /\ mask' = s.mask
        /\ IF s.to # cpu THEN SetTaskCpu(s.to) ELSE UNCHANGED <<cpu, warn>>
        /\ \E w \in {"queued"} \cup (IF s.to \in active THEN {"waking"} ELSE {}) : on_rq' = w
  BY DEF TryToWakeUp
<1>3. /\ s.to \in CPUs /\ s.mask \in {mask, CPUs} /\ (hp.pc = "none" => s.mask = mask)
  BY SelectTypes
<1>4. /\ mask' \in SUBSET CPUs /\ mask' # {} /\ (hp.pc = "none" => mask' = mask)
      /\ cpu' \in CPUs /\ warn' \in SUBSET Warnings /\ on_rq' \in {"queued", "asleep", "waking"}
  <2>1. mask' \in SUBSET CPUs /\ mask' # {} /\ (hp.pc = "none" => mask' = mask)
    BY <1>2, <1>3, AffinityAssumption DEF Typing
  <2>2. on_rq' \in {"queued", "asleep", "waking"}
    BY <1>2
  <2>3. CASE s.to # cpu
    BY <1>2, <1>3, <2>1, <2>2, <2>3, SetTaskCpuTypes
  <2>4. CASE s.to = cpu
    BY <1>2, <2>1, <2>2, <2>4 DEF Typing
  <2> QED
    BY <2>3, <2>4
<1>5. Typing'
  BY <1>1, <1>4 DEF Typing
<1>6. \A c \in CPUs : run[c] # "p"
  BY <1>1 DEF RunsHere
<1>7. enabling = None
  BY <1>6 DEF RunsHere, Typing
<1>8. RunsHere'
  BY <1>1, <1>6, <1>7 DEF RunsHere
<1>9. HotplugOK' /\ TickOK' /\ QueuesOK'
  BY <1>1, <1>7, KeepHotplug, KeepTick, KeepQueues
<1>10. Requests' /\ KeepsCarried
  BY <1>1, WorksSame, KeepRequests
<1> QED
  BY <1>1, <1>4, <1>5, <1>8, <1>9, <1>10

LEMMA NoFallbackCore ==
    ASSUME ACore, NoFallback
    PROVE  ACore' /\ KeepsCarried /\ UNCHANGED <<mask, hp, kthread>>
<1> USE DEF ACore
<1>1. /\ Warn({"select_fallback_rq: no CPU"})
      /\ UNCHANGED <<kthread, cpu, on_rq, mask, pin, disabled, mdf_push, pending, enabling, run,
                     works, hand, call, req, active, online, balance_push, nr_pinned, rq_online, hp,
                     tick, twork, push_busy, known>>
  BY DEF NoFallback, cpus, p_
<1>2. warn' \in SUBSET Warnings
  BY <1>1 DEF Warn, Typing, Warnings
<1>3. Typing'
  BY <1>1, <1>2 DEF Typing
<1>4. RunsHere' /\ HotplugOK' /\ TickOK' /\ QueuesOK'
  BY <1>1, KeepHotplug, KeepTick, KeepQueues DEF RunsHere
<1>5. Requests' /\ KeepsCarried
  BY <1>1, WorksSame, KeepRequests
<1> QED
  BY <1>1, <1>3, <1>4, <1>5

LEMMA TtwuPendingCore ==
    ASSUME ACore, TtwuPending
    PROVE  ACore' /\ KeepsCarried /\ UNCHANGED <<mask, hp, kthread>>
<1> USE DEF ACore
<1>1. /\ on_rq = "waking" /\ on_rq' = "queued"
      /\ UNCHANGED <<kthread, cpu, mask, pin, disabled, mdf_push, pending, enabling, run,
                     works, hand, call, req, active, online, balance_push, nr_pinned, rq_online, hp,
                     tick, twork, push_busy, warn, known>>
  BY DEF TtwuPending, cpus
<1>3. Typing'
  BY <1>1 DEF Typing
<1>4. RunsHere' /\ HotplugOK' /\ TickOK' /\ QueuesOK'
  BY <1>1, KeepHotplug, KeepTick, KeepQueues DEF RunsHere
<1>5. Requests' /\ KeepsCarried
  BY <1>1, WorksSame, KeepRequests
<1> QED
  BY <1>1, <1>3, <1>4, <1>5

LEMMA MigrateSwapCore ==
    ASSUME ACore, NEW dest \in CPUs, MigrateSwap(dest)
    PROVE  ACore' /\ KeepsCarried /\ UNCHANGED <<mask, hp, kthread>>
<1> USE DEF ACore
<1>1. /\ run[cpu] # "p" /\ SetTaskCpu(dest)
      /\ UNCHANGED <<kthread, on_rq, mask, pin, disabled, mdf_push, pending, enabling, run,
                     works, hand, call, req, active, online, balance_push, nr_pinned, rq_online, hp,
                     tick, twork, push_busy, known>>
  BY DEF MigrateSwap, cpus
<1>2. cpu' \in CPUs /\ warn' \in SUBSET Warnings
  BY <1>1, SetTaskCpuTypes
<1>3. Typing'
  BY <1>1, <1>2 DEF Typing
<1>4. enabling = None /\ \A c \in CPUs : run[c] # "p"
  BY <1>1 DEF RunsHere
<1>5. RunsHere' /\ HotplugOK' /\ TickOK' /\ QueuesOK'
  BY <1>1, <1>4, KeepHotplug, KeepTick, KeepQueues DEF RunsHere
<1>6. Requests' /\ KeepsCarried
  BY <1>1, WorksSame, KeepRequests
<1> QED
  BY <1>1, <1>3, <1>5, <1>6

LEMMA MigrateDisableCore ==
    ASSUME ACore, MigrateDisable
    PROVE  ACore' /\ KeepsCarried /\ UNCHANGED <<mask, hp, kthread>>
<1> USE DEF ACore
<1>1. /\ enabling = None /\ disabled < MaxNest /\ disabled' = disabled + 1
      /\ nr_pinned' = IF disabled = 0 THEN [nr_pinned EXCEPT ![cpu] = @ + 1] ELSE nr_pinned
      /\ UNCHANGED <<kthread, cpu, on_rq, mask, pin, mdf_push, pending, enabling, run,
                     works, hand, call, req, active, online, balance_push, rq_online, hp,
                     tick, twork, push_busy, warn, known>>
  BY DEF MigrateDisable
<1>2. disabled' \in 0..MaxNest /\ nr_pinned' \in [CPUs -> Int]
  BY SMTT(30), <1>1, AffinityAssumption DEF Typing
<1>3. Typing'
  BY <1>1, <1>2 DEF Typing
<1>4. RunsHere' /\ HotplugOK' /\ TickOK' /\ QueuesOK'
  BY <1>1, KeepHotplug, KeepTick, KeepQueues DEF RunsHere
<1>5. Requests' /\ KeepsCarried
  BY <1>1, WorksSame, KeepRequests
<1> QED
  BY <1>1, <1>3, <1>4, <1>5
--------------------------------------------------------------------------------
(* Core: CPUs that go and come *)

LEMMA DeactivateCore ==
    ASSUME ACore, NEW c \in HotCPUs, Deactivate(c)
    PROVE  ACore' /\ KeepsCarried /\ UNCHANGED <<mask, kthread>>
<1> USE DEF ACore
<1>1. /\ hp.pc = "none" /\ c \in active /\ active # {c}
      /\ active' = active \ {c} /\ hp' = [cpu |-> c, pc |-> "inactive"]
      /\ UNCHANGED <<kthread, cpu, on_rq, mask, pin, disabled, mdf_push, pending, enabling, hand, call, req,
                     push_busy, nr_pinned, known, run, works, online, balance_push, rq_online, tick,
                     twork, warn>>
  BY DEF Deactivate, state, p_, Set
<1>2. hp' \in [cpu : CPUs \cup {None}, pc : Hotplug] /\ rq_online' \in SUBSET CPUs
  BY <1>1, AffinityAssumption DEF Typing, HotplugOK, Hotplug, Settled
<1>3. Typing'
  BY <1>1, <1>2 DEF Typing
<1>4. HotplugOK'
  BY <1>1, AffinityAssumption DEF Typing, HotplugOK, Hotplug, Settled
<1>5. RunsHere' /\ TickOK' /\ QueuesOK'
  BY <1>1, KeepTick, KeepQueues DEF RunsHere
<1>6. Requests' /\ KeepsCarried
  BY <1>1, WorksSame, KeepRequests
<1> QED
  BY <1>1, <1>3, <1>4, <1>5, <1>6

LEMMA BalancePushOnCore ==
    ASSUME ACore, BalancePushOn
    PROVE  ACore' /\ KeepsCarried /\ UNCHANGED <<mask, kthread>>
<1> USE DEF ACore
<1>1. /\ hp.pc = "inactive" /\ hp' = [hp EXCEPT !.pc = "pushing"]
      /\ balance_push' = balance_push \cup {hp.cpu}
      /\ UNCHANGED <<kthread, cpu, on_rq, mask, pin, disabled, mdf_push, pending, enabling, hand, call, req,
                     push_busy, nr_pinned, known, run, works, active, online, rq_online, tick, twork, warn>>
  BY DEF BalancePushOn, state, p_, Set
<1>2. hp' \in [cpu : CPUs \cup {None}, pc : Hotplug] /\ rq_online' \in SUBSET CPUs
  BY <1>1, AffinityAssumption DEF Typing, HotplugOK, Hotplug, Settled
<1>3. Typing'
  BY <1>1, <1>2 DEF Typing
<1>4. HotplugOK'
  BY <1>1, AffinityAssumption DEF Typing, HotplugOK, Hotplug, Settled
<1>5. RunsHere' /\ TickOK' /\ QueuesOK'
  BY <1>1, KeepTick, KeepQueues DEF RunsHere
<1>6. Requests' /\ KeepsCarried
  BY <1>1, WorksSame, KeepRequests
<1> QED
  BY <1>1, <1>3, <1>4, <1>5, <1>6

LEMMA RqOfflineCore ==
    ASSUME ACore, RqOffline
    PROVE  ACore' /\ KeepsCarried /\ UNCHANGED <<mask, kthread>>
<1> USE DEF ACore
<1>1. /\ hp.pc = "pushing" /\ hp' = [hp EXCEPT !.pc = "rq_offline"]
      /\ rq_online' = rq_online \ {hp.cpu}
      /\ UNCHANGED <<kthread, cpu, on_rq, mask, pin, disabled, mdf_push, pending, enabling, hand, call, req,
                     push_busy, nr_pinned, known, run, works, active, online, balance_push, tick,
                     twork, warn>>
  BY DEF RqOffline, state, p_, Set
<1>2. hp' \in [cpu : CPUs \cup {None}, pc : Hotplug] /\ rq_online' \in SUBSET CPUs
  BY <1>1, AffinityAssumption DEF Typing, HotplugOK, Hotplug, Settled
<1>3. Typing'
  BY <1>1, <1>2 DEF Typing
<1>4. HotplugOK'
  BY <1>1, AffinityAssumption DEF Typing, HotplugOK, Hotplug, Settled
<1>5. RunsHere' /\ TickOK' /\ QueuesOK'
  BY <1>1, KeepTick, KeepQueues DEF RunsHere
<1>6. Requests' /\ KeepsCarried
  BY <1>1, WorksSame, KeepRequests
<1> QED
  BY <1>1, <1>3, <1>4, <1>5, <1>6

LEMMA CpusetCpuInactiveCore ==
    ASSUME ACore, CpusetCpuInactive
    PROVE  ACore' /\ KeepsCarried /\ UNCHANGED <<mask, kthread>>
<1> USE DEF ACore
<1>1. /\ hp.pc = "rq_offline"
      /\ \/ hp' = [hp EXCEPT !.pc = "wait"] /\ UNCHANGED <<active, balance_push>>
         \/ /\ hp' = Settled /\ balance_push' = balance_push \ {hp.cpu}
            /\ active' = active \cup {hp.cpu}
      /\ UNCHANGED <<kthread, cpu, on_rq, mask, pin, disabled, mdf_push, pending, enabling, hand, call, req,
                     push_busy, nr_pinned, known, run, works, online, rq_online, tick, twork, warn>>
  BY DEF CpusetCpuInactive, state, p_, Set
<1>2. hp' \in [cpu : CPUs \cup {None}, pc : Hotplug] /\ HotplugOK'
  <2>1. CASE hp' = [hp EXCEPT !.pc = "wait"] /\ UNCHANGED <<active, balance_push>>
    BY <1>1, <2>1 DEF Typing, HotplugOK, Hotplug
  <2>2. CASE /\ hp' = [cpu |-> None, pc |-> "none"] /\ balance_push' = balance_push \ {hp.cpu}
             /\ active' = active \cup {hp.cpu}
    <3>1. hp.cpu \in CPUs
      BY <1>1, AffinityAssumption DEF HotplugOK
    <3>2. hp'.pc = "none" /\ hp' \in [cpu : CPUs \cup {None}, pc : Hotplug]
      BY <2>2 DEF Hotplug
    <3> QED
      BY <1>1, <2>2, <3>1, <3>2 DEF HotplugOK
  <2> QED
    BY <1>1, <2>1, <2>2 DEF Settled
<1>3. Typing'
  BY <1>1, <1>2 DEF Typing
<1>5. RunsHere' /\ TickOK' /\ QueuesOK'
  BY <1>1, KeepTick, KeepQueues DEF RunsHere
<1>6. Requests' /\ KeepsCarried
  BY <1>1, WorksSame, KeepRequests
<1> QED
  BY <1>1, <1>2, <1>3, <1>5, <1>6

LEMMA HotplugWaitCore ==
    ASSUME ACore, HotplugWait
    PROVE  ACore' /\ KeepsCarried /\ UNCHANGED <<mask, kthread>>
<1> USE DEF ACore
<1>1. /\ hp.pc = "wait"
      /\ hp' = [hp EXCEPT !.pc = IF Vacated(hp.cpu) THEN "empty" ELSE "sleep"]
      /\ UNCHANGED <<kthread, cpu, on_rq, mask, pin, disabled, mdf_push, pending, enabling, hand, call, req,
                     push_busy, nr_pinned, known, run, works, active, online, balance_push, rq_online, tick,
                     twork, warn>>
  BY DEF HotplugWait, state, p_, Set
<1>2. hp' \in [cpu : CPUs \cup {None}, pc : Hotplug] /\ rq_online' \in SUBSET CPUs
  BY <1>1, AffinityAssumption DEF Typing, HotplugOK, Hotplug, Settled
<1>3. Typing'
  BY <1>1, <1>2 DEF Typing
<1>4. HotplugOK'
  BY <1>1, AffinityAssumption DEF Typing, HotplugOK, Hotplug, Settled
<1>5. RunsHere' /\ TickOK' /\ QueuesOK'
  BY <1>1, KeepTick, KeepQueues DEF RunsHere
<1>6. Requests' /\ KeepsCarried
  BY <1>1, WorksSame, KeepRequests
<1> QED
  BY <1>1, <1>3, <1>4, <1>5, <1>6

LEMMA ActivateCore ==
    ASSUME ACore, Activate
    PROVE  ACore' /\ KeepsCarried /\ UNCHANGED <<mask, kthread>>
<1> USE DEF ACore
<1>1. /\ hp.pc = "up" /\ hp' = Settled
      /\ balance_push' = balance_push \ {hp.cpu} /\ active' = active \cup {hp.cpu}
      /\ rq_online' = rq_online \cup {hp.cpu}
      /\ UNCHANGED <<kthread, cpu, on_rq, mask, pin, disabled, mdf_push, pending, enabling, hand, call, req,
                     push_busy, nr_pinned, known, run, works, online, tick, twork, warn>>
  BY DEF Activate, state, p_, Set
<1>2. hp' \in [cpu : CPUs \cup {None}, pc : Hotplug] /\ rq_online' \in SUBSET CPUs
  BY <1>1, AffinityAssumption DEF Typing, HotplugOK, Hotplug, Settled
<1>3. Typing'
  BY <1>1, <1>2 DEF Typing
<1>4. HotplugOK'
  BY SMTT(30), <1>1, AffinityAssumption DEF Typing, HotplugOK, Hotplug, Settled
<1>5. RunsHere' /\ TickOK' /\ QueuesOK'
  BY <1>1, KeepTick, KeepQueues DEF RunsHere
<1>6. Requests' /\ KeepsCarried
  BY <1>1, WorksSame, KeepRequests
<1> QED
  BY <1>1, <1>3, <1>4, <1>5, <1>6

LEMMA DyingCore ==
    ASSUME ACore, Dying
    PROVE  ACore' /\ KeepsCarried /\ UNCHANGED <<mask, kthread>>
<1> USE DEF ACore
<1>1. /\ hp.pc = "empty" /\ works[hp.cpu] = <<>> /\ run[hp.cpu] \notin {"p", "stop"}
      /\ hp' = [hp EXCEPT !.pc = "down"] /\ online' = online \ {hp.cpu}
      /\ balance_push' = balance_push \ {hp.cpu}
      /\ run' = [run EXCEPT ![hp.cpu] = "off"]
      /\ tick' = [tick EXCEPT ![hp.cpu] = "OFFLINING"]
      /\ UNCHANGED <<kthread, cpu, on_rq, mask, pin, disabled, mdf_push, pending, enabling, hand, call, req,
                     push_busy, nr_pinned, known, works, active, rq_online, twork>>
  BY DEF Dying, state, p_, Set
<1>2. warn' \in SUBSET Warnings
  BY DEF Dying, Warn, Typing, Warnings
<1>3. hp.cpu \in HotCPUs /\ hp.cpu \in CPUs /\ hp' \in [cpu : CPUs \cup {None}, pc : Hotplug]
  BY <1>1, AffinityAssumption DEF Typing, HotplugOK, Hotplug
<1>4. Typing'
  BY <1>1, <1>2, <1>3 DEF Typing
<1>5. HotplugOK'
  BY <1>1, AffinityAssumption DEF Typing, HotplugOK, Hotplug
<1>6. RunsHere'
  BY <1>1, <1>3 DEF RunsHere, Typing
<1>7. TickOK'
  BY <1>1, <1>3 DEF TickOK, Typing, HotplugOK
<1>8. QueuesOK'
  <2>1. ~HasBalance(hp.cpu)
    BY <1>1 DEF HasBalance, In
  <2>2. \A c \in CPUs \ {hp.cpu} : run'[c] = run[c]
    BY <1>1 DEF Typing
  <2> QED
    BY <1>1, <2>1, <2>2, WorksSame DEF QueuesOK
<1>9. Requests' /\ KeepsCarried
  BY <1>1, WorksSame, KeepRequests
<1> QED
  BY <1>1, <1>4, <1>5, <1>6, <1>7, <1>8, <1>9

LEMMA StartingCore ==
    ASSUME ACore, Starting
    PROVE  ACore' /\ KeepsCarried /\ UNCHANGED <<mask, kthread, warn>>
<1> USE DEF ACore
<1>1. /\ hp.pc = "down" /\ hp' = [hp EXCEPT !.pc = "up"]
      /\ online' = online \cup {hp.cpu} /\ run' = [run EXCEPT ![hp.cpu] = "idle"]
      /\ tick' = [tick EXCEPT ![hp.cpu] = "RUNNING"]
      /\ twork' = [twork EXCEPT ![hp.cpu] = IF TickQueued(hp.cpu) THEN @ + 1 ELSE @]
      /\ warn' = warn \cup (IF tick[hp.cpu] = "RUNNING" THEN {"sched_tick_start"} ELSE {})
      /\ UNCHANGED <<kthread, cpu, on_rq, mask, pin, disabled, mdf_push, pending, enabling, hand, call, req,
                     push_busy, nr_pinned, known, works, active, balance_push, rq_online>>
  BY DEF Starting, state, p_, Set, SchedTickStart, Warn
<1>2. hp.cpu \in HotCPUs /\ hp.cpu \in CPUs /\ hp' \in [cpu : CPUs \cup {None}, pc : Hotplug]
      /\ hp.cpu \notin online
  BY <1>1, AffinityAssumption DEF Typing, HotplugOK, Hotplug
<1>3. tick[hp.cpu] # "RUNNING" /\ warn' = warn
  BY <1>1, <1>2 DEF TickOK
<1>4. Typing'
  <2>1. twork' \in [CPUs -> Nat]
    BY SMTT(30), <1>1, <1>2 DEF Typing
  <2> QED
    BY <1>1, <1>2, <1>3, <2>1 DEF Typing
<1>5. HotplugOK'
  <2>1. hp'.pc = "up" /\ hp'.cpu = hp.cpu
    BY <1>1 DEF Typing
  <2> QED
    BY <1>1, <1>2, <2>1 DEF HotplugOK
<1>6. RunsHere'
  BY <1>1, <1>2 DEF RunsHere, Typing
<1>7. TickOK'
  BY SMTT(30), <1>1, <1>2 DEF TickOK, Typing, TickQueued
<1>8. QueuesOK'
  <2>1. ~HasBalance(hp.cpu)
    BY <1>2 DEF QueuesOK, RunsHere
  <2>2. \A c \in CPUs \ {hp.cpu} : run'[c] = run[c]
    BY <1>1 DEF Typing
  <2> QED
    BY <1>1, <2>1, <2>2, WorksSame DEF QueuesOK
<1>9. Requests' /\ KeepsCarried
  BY <1>1, WorksSame, KeepRequests
<1> QED
  BY <1>1, <1>3, <1>4, <1>5, <1>6, <1>7, <1>8, <1>9

LEMMA SchedTickRemoteCore ==
    ASSUME ACore, NEW c \in HotCPUs, SchedTickRemote(c)
    PROVE  ACore' /\ KeepsCarried /\ UNCHANGED <<mask, kthread, warn>>
<1> USE DEF ACore
<1>1. /\ twork[c] > 0
      /\ tick' = [tick EXCEPT ![c] = IF @ = "OFFLINING" THEN "OFFLINE" ELSE @]
      /\ twork' = [twork EXCEPT ![c] = IF tick[c] = "RUNNING" THEN @ ELSE @ - 1]
      /\ warn' = warn \cup (IF tick[c] = "OFFLINE" THEN {"sched_tick_remote"} ELSE {})
      /\ UNCHANGED <<kthread, cpu, on_rq, mask, pin, disabled, mdf_push, pending, enabling, hand, call, req,
                     push_busy, nr_pinned, known, run, works, active, online, balance_push, rq_online, hp>>
  BY DEF SchedTickRemote, state, p_, Warn
<1>2. c \in CPUs /\ tick[c] # "OFFLINE" /\ warn' = warn
  BY <1>1, AffinityAssumption DEF TickOK
<1>3. Typing'
  <2>1. twork' \in [CPUs -> Nat]
    BY <1>1, <1>2 DEF Typing
  <2>2. tick' \in [CPUs -> {"OFFLINE", "OFFLINING", "RUNNING"}]
    BY <1>1, <1>2 DEF Typing
  <2> QED
    BY <1>1, <1>2, <2>1, <2>2 DEF Typing
<1>4. TickOK'
  BY <1>1, <1>2 DEF TickOK, Typing
<1>5. RunsHere' /\ HotplugOK' /\ QueuesOK'
  BY <1>1, KeepHotplug, KeepQueues DEF RunsHere
<1>6. Requests' /\ KeepsCarried
  BY <1>1, WorksSame, KeepRequests
<1> QED
  BY <1>1, <1>2, <1>3, <1>4, <1>5, <1>6
--------------------------------------------------------------------------------
(* Core: the scheduler *)

\* What __schedule does on c when p goes to sleep or not and next is picked.
Scheduled(c, sleeps, next) ==
    /\ run[c] = "p" => enabling = None
    /\ run[c] # "off"
    /\ run[c] = "stop" => works[c] = <<>> /\ hand[c] = None
    /\ sleeps => run[c] = "p"
    /\ next = "p" => on_rq = "queued" /\ cpu = c /\ ~sleeps
    /\ next = "idle" => ~(on_rq = "queued" /\ cpu = c /\ ~sleeps)
    /\ next \in {"p", "idle", "hotplug"} => works[c] = <<>> /\ hand[c] = None
    /\ next = "hotplug" => hp = [cpu |-> c, pc |-> "wait"]
    /\ run' = [run EXCEPT ![c] = IF PushedAway(c, next) THEN "stop" ELSE next]
    /\ on_rq' = IF sleeps THEN "asleep" ELSE on_rq
    /\ pin' = IF run[c] = "p" /\ next # "p" /\ disabled > 0 /\ pin = None THEN c ELSE pin
    /\ IF PushedAway(c, next) THEN StopOneCpu(c, Work("balance", None)) ELSE UNCHANGED <<works, known>>
    /\ hp' = IF IdleWakes(c, next) THEN [hp EXCEPT !.pc = "wait"] ELSE hp
    /\ UNCHANGED <<kthread, cpu, mask, disabled, mdf_push, pending, enabling, hand, call, req,
                   active, online, balance_push, nr_pinned, rq_online, tick, twork, push_busy, warn>>

LEMMA ScheduleDoes ==
    ASSUME NEW c \in CPUs, Schedule(c)
    PROVE  \E sleeps \in BOOLEAN, next \in {"p", "idle", "stop", "hotplug"} : Scheduled(c, sleeps, next)
<1>1. PICK sleeps \in {FALSE, run[c] = "p"} :
        LET queued == on_rq = "queued" /\ cpu = c /\ ~sleeps
            next == PickNextTask(c, queued)
        IN /\ run' = [run EXCEPT ![c] = IF PushedAway(c, next) THEN "stop" ELSE next]
           /\ on_rq' = IF sleeps THEN "asleep" ELSE on_rq
           /\ pin' = IF run[c] = "p" /\ next # "p" /\ disabled > 0 /\ pin = None THEN c ELSE pin
           /\ BalancePush(c, next)
  BY DEF Schedule
<1> DEFINE queued == on_rq = "queued" /\ cpu = c /\ ~sleeps
           next == PickNextTask(c, queued)
<1>2. /\ next \in {"p", "idle", "stop", "hotplug"}
      /\ next = "p" => on_rq = "queued" /\ cpu = c /\ ~sleeps
      /\ next = "idle" => ~(on_rq = "queued" /\ cpu = c /\ ~sleeps)
      /\ next \in {"p", "idle", "hotplug"} => works[c] = <<>> /\ hand[c] = None
      /\ next = "hotplug" => hp = [cpu |-> c, pc |-> "wait"]
  BY DEF PickNextTask
<1>3. /\ run' = [run EXCEPT ![c] = IF PushedAway(c, next) THEN "stop" ELSE next]
      /\ on_rq' = IF sleeps THEN "asleep" ELSE on_rq
      /\ pin' = IF run[c] = "p" /\ next # "p" /\ disabled > 0 /\ pin = None THEN c ELSE pin
      /\ BalancePush(c, next)
  BY <1>1
<1>4. sleeps \in BOOLEAN /\ (sleeps => run[c] = "p")
  BY <1>1
<1> HIDE DEF next
<1>5. Scheduled(c, sleeps, next)
  BY <1>2, <1>3, <1>4 DEF Scheduled, Schedule, BalancePush
<1> QED
  BY <1>2, <1>4, <1>5

\* p may be pushed away only from a CPU that has no work and that is there.
LEMMA ScheduledWorks ==
    ASSUME Typing, RunsHere, NEW c \in CPUs, NEW sleeps \in BOOLEAN,
           NEW next \in {"p", "idle", "stop", "hotplug"}, Scheduled(c, sleeps, next)
    PROVE  /\ known' = known /\ works' \in [CPUs -> Seq(Works)]
           /\ \A d \in CPUs \ {c} : works'[d] = works[d]
           /\ works[c] # <<>> => works'[c] = works[c]
           /\ \A d \in CPUs, r \in Callers : HasWork(d, r)' <=> HasWork(d, r)
           /\ \A d \in CPUs : HasPush(d)' <=> HasPush(d)
           /\ \A d \in CPUs : HasBalance(d)' <=> HasBalance(d) \/ (d = c /\ PushedAway(c, next))
           /\ \A d \in CPUs : NoRepeat(d) => NoRepeat(d)'
<1>1. CASE ~PushedAway(c, next)
  <2>1. works' = works /\ known' = known
    BY <1>1 DEF Scheduled
  <2> QED
    BY <1>1, <2>1, WorksSame DEF Typing
<1>2. CASE PushedAway(c, next)
  <2>1. works[c] = <<>> /\ StopOneCpu(c, Work("balance", None)) /\ c \in online
    BY <1>2 DEF Scheduled, PushedAway, RunsHere
  <2>2. ~In(Work("balance", None), works[c])
    BY <2>1 DEF In
  <2> QED
    BY <1>2, <2>1, <2>2, StopOneCpuEffect, WorkIs
<1> QED
  BY <1>1, <1>2

LEMMA ScheduleCore ==
    ASSUME ACore, NEW c \in CPUs, Schedule(c)
    PROVE  ACore' /\ KeepsCarried /\ UNCHANGED <<mask, kthread>> /\ (hp.pc = "none" => hp' = hp)
<1> USE DEF ACore
<1>1. PICK sleeps \in BOOLEAN, next \in {"p", "idle", "stop", "hotplug"} : Scheduled(c, sleeps, next)
  BY ScheduleDoes
<1>2. /\ known' = known /\ works' \in [CPUs -> Seq(Works)]
      /\ \A d \in CPUs, r \in Callers : HasWork(d, r)' <=> HasWork(d, r)
      /\ \A d \in CPUs : HasPush(d)' <=> HasPush(d)
      /\ \A d \in CPUs : HasBalance(d)' <=> HasBalance(d) \/ (d = c /\ PushedAway(c, next))
      /\ \A d \in CPUs : NoRepeat(d) => NoRepeat(d)'
  BY <1>1, ScheduledWorks
<1>3. UNCHANGED <<kthread, cpu, mask, disabled, mdf_push, pending, enabling, hand, call, req,
                  active, online, balance_push, nr_pinned, rq_online, tick, twork, push_busy, warn>>
  BY <1>1 DEF Scheduled
<1>4. /\ \A d \in CPUs \ {c} : run'[d] = run[d]
      /\ run'[c] = (IF PushedAway(c, next) THEN "stop" ELSE next)
      /\ run' \in [CPUs -> {"p", "idle", "stop", "hotplug", "off"}]
  BY <1>1 DEF Scheduled, Typing
<1>5. /\ hp' \in [cpu : CPUs \cup {None}, pc : Hotplug] /\ hp'.cpu = hp.cpu
      /\ hp'.pc # hp.pc => hp.pc = "sleep" /\ hp'.pc = "wait"
      /\ hp.pc = "none" => hp' = hp
  <2>1. hp \in [cpu : CPUs \cup {None}, pc : Hotplug]
    BY DEF Typing
  <2>2. CASE IdleWakes(c, next)
    <3>1. hp.pc = "sleep" /\ hp' = [hp EXCEPT !.pc = "wait"]
      BY <1>1, <2>2 DEF Scheduled, IdleWakes
    <3> QED
      BY <2>1, <3>1 DEF Hotplug
  <2>3. CASE ~IdleWakes(c, next)
    <3>1. hp' = hp
      BY <1>1, <2>3 DEF Scheduled
    <3> QED
      BY <2>1, <3>1
  <2> QED
    BY <2>2, <2>3
<1>6. /\ on_rq' \in {"queued", "asleep", "waking"} /\ pin' \in CPUs \cup {None}
  BY <1>1 DEF Scheduled, Typing
<1>7. Typing'
  BY <1>2, <1>3, <1>4, <1>5, <1>6 DEF Typing
<1>8. HotplugOK'
  BY <1>3, <1>5 DEF HotplugOK
<1>9. TickOK'
  BY <1>3, KeepTick
<1>10. RunsHere'
  <2>1. ASSUME NEW d \in CPUs, run'[d] = "p" PROVE cpu = d /\ on_rq' = "queued"
    BY <1>1, <1>4, <2>1 DEF Scheduled, RunsHere
  <2>2. ASSUME enabling # None PROVE run'[cpu] = "p" /\ disabled = 1
    BY <1>1, <1>4, <2>2 DEF Scheduled, RunsHere, Typing
  <2>3. ASSUME NEW d \in CPUs, d \notin online PROVE run'[d] = "off"
    BY <1>1, <1>4, <2>3 DEF Scheduled, RunsHere
  <2> QED
    BY <1>3, <2>1, <2>2, <2>3 DEF RunsHere
<1>11. QueuesOK'
  <2>1. ASSUME NEW d \in CPUs, HasBalance(d)' PROVE run'[d] = "stop"
    <3>1. CASE d # c
      BY <1>2, <1>4, <2>1, <3>1 DEF QueuesOK
    <3>2. CASE d = c /\ PushedAway(c, next)
      BY <1>4, <3>2
    <3>3. CASE d = c /\ ~PushedAway(c, next)
      <4>1. works[c] # <<>>
        BY <1>2, <2>1, <3>3 DEF HasBalance, In
      <4> QED
        BY <1>1, <1>4, <3>3, <4>1 DEF Scheduled
    <3> QED
      BY <3>1, <3>2, <3>3
  <2> QED
    BY <1>2, <1>3, <2>1 DEF QueuesOK
<1>12. Requests' /\ KeepsCarried
  BY <1>2, <1>3, KeepRequests
<1> QED
  BY <1>3, <1>5, <1>7, <1>8, <1>9, <1>10, <1>11, <1>12

LEMMA SchedExecCore ==
    ASSUME ACore, NEW dest \in CPUs, SchedExec(dest)
    PROVE  ACore' /\ KeepsCarried /\ UNCHANGED <<mask, hp, kthread>>
<1> USE DEF ACore
<1>1. /\ works[cpu] = <<>> /\ StopOneCpu(cpu, Work("exec", dest))
      /\ UNCHANGED <<kthread, cpu, on_rq, mask, pin, disabled, mdf_push, pending, enabling, run, hand,
                     call, req, active, online, balance_push, nr_pinned, rq_online, hp, tick, twork,
                     push_busy, warn>>
  BY DEF SchedExec, p_, cpus
<1>2. cpu \in CPUs /\ Work("exec", dest) \in Works /\ ~In(Work("exec", dest), works[cpu])
  BY <1>1, WorkIs DEF Typing, In
<1>3. /\ works' \in [CPUs -> Seq(Works)] /\ known' \in SUBSET {"outside", "pinned", "refused"}
      /\ \A d \in CPUs, r \in Callers : HasWork(d, r)' <=> HasWork(d, r)
      /\ \A d \in CPUs : HasPush(d)' <=> HasPush(d)
      /\ \A d \in CPUs : HasBalance(d)' <=> HasBalance(d)
      /\ \A d \in CPUs : NoRepeat(d) => NoRepeat(d)'
  BY <1>1, <1>2, StopOneCpuEffect, WorkIs
<1>4. Typing'
  BY <1>1, <1>3 DEF Typing
<1>5. RunsHere' /\ HotplugOK' /\ TickOK'
  BY <1>1, KeepHotplug, KeepTick DEF RunsHere
<1>6. QueuesOK'
  BY <1>1, <1>3 DEF QueuesOK
<1>7. Requests' /\ KeepsCarried
  BY <1>1, <1>3, KeepRequests
<1> QED
  BY <1>1, <1>4, <1>5, <1>6, <1>7

LEMMA RtPushCore ==
    ASSUME ACore, NEW c \in CPUs, RtPush(c)
    PROVE  ACore' /\ KeepsCarried /\ UNCHANGED <<mask, hp, kthread>>
<1> USE DEF ACore
<1>1. /\ c \notin push_busy /\ push_busy' = push_busy \cup {c} /\ disabled = 0
      /\ StopOneCpu(c, Work("push", None))
      /\ UNCHANGED <<kthread, cpu, on_rq, mask, pin, disabled, mdf_push, pending, enabling, run, hand,
                     call, req, active, online, balance_push, nr_pinned, rq_online, hp, tick, twork,
                     warn>>
  BY DEF RtPush, p_, cpus
<1>2. ~HasPush(c) /\ enabling = None
  BY <1>1 DEF QueuesOK, RunsHere
<1>3. Work("push", None) \in Works /\ ~In(Work("push", None), works[c])
  BY <1>2, WorkIs DEF HasPush
<1>4. /\ works' \in [CPUs -> Seq(Works)] /\ known' \in SUBSET {"outside", "pinned", "refused"}
      /\ \A d \in CPUs, r \in Callers : HasWork(d, r)' <=> HasWork(d, r)
      /\ \A d \in CPUs : HasPush(d)' => HasPush(d) \/ d = c
      /\ \A d \in CPUs : HasBalance(d)' <=> HasBalance(d)
      /\ \A d \in CPUs : NoRepeat(d) => NoRepeat(d)'
  BY <1>1, <1>3, StopOneCpuEffect, WorkIs
<1>5. Typing'
  BY <1>1, <1>4 DEF Typing
<1>6. RunsHere' /\ HotplugOK' /\ TickOK'
  BY <1>1, KeepHotplug, KeepTick DEF RunsHere
<1>7. QueuesOK'
  BY <1>1, <1>2, <1>4 DEF QueuesOK
<1>8. Requests' /\ KeepsCarried
  BY <1>1, <1>4, KeepRequests
<1> QED
  BY <1>1, <1>5, <1>6, <1>7, <1>8
--------------------------------------------------------------------------------
(* Core: the callers *)

LEMMA HoldersFinite ==
    ASSUME NEW r
    PROVE  /\ IsFiniteSet(Holders(r)) /\ Cardinality(Holders(r)) \in Nat
           /\ Cardinality(Holders(r)) = 0 <=> Holders(r) = {}
<1>1. Holders(r) \subseteq Callers
  BY DEF Holders
<1>2. IsFiniteSet(Holders(r))
  BY <1>1, AffinityAssumption, FS_Subset
<1> QED
  BY <1>2, FS_CardinalityType, FS_EmptySet

LEMMA CallStopCore ==
    ASSUME ACore, NEW c \in Callers, CallStop(c)
    PROVE  ACore' /\ KeepsCarried /\ SameStop /\ UNCHANGED <<mask, hp, kthread>>
<1> USE DEF ACore
<1> DEFINE q == call[c].on  k == call[c].cpu
<1>1. /\ call[c].pc = "stop" /\ StopOneCpu(k, Work("migrate", q))
      /\ call' = [call EXCEPT ![c].pc = "wait", ![c].cpu = None]
      /\ UNCHANGED <<kthread, cpu, on_rq, mask, pin, disabled, mdf_push, pending, enabling, run, hand,
                     req, active, online, balance_push, nr_pinned, rq_online, hp, tick, twork,
                     push_busy, warn>>
  BY DEF CallStop, p_, cpus
<1>2. /\ q \in Callers /\ k \in CPUs /\ Starts(c, q) /\ call[c].waits
  BY <1>1 DEF Requests, CallOK, Starts, Typing, CallRec
<1>3. /\ call' \in [Callers -> CallRec]
      /\ \A d \in Callers : call'[d].on = call[d].on /\ (call'[d].waits <=> call[d].waits)
      /\ \A d \in Callers \ {c} : call'[d] = call[d]
      /\ call'[c].pc = "wait"
  <2>1. call \in [Callers -> CallRec]
    BY DEF Typing
  <2>2. (\A d \in Callers \ {c} : call'[d] = call[d]) /\ call' = [d \in Callers |-> call'[d]]
    BY <1>1, <2>1
  <2>3. call'[c] = [pc |-> "wait", on |-> call[c].on, cpu |-> None, waits |-> call[c].waits]
    BY <1>1, <2>1 DEF CallRec
  <2>4. call'[c] \in CallRec
    BY <2>1, <2>3 DEF CallRec
  <2>5. call'[c].on = call[c].on /\ (call'[c].waits <=> call[c].waits) /\ call'[c].pc = "wait"
    BY <2>3
  <2> QED
    BY <2>1, <2>2, <2>4, <2>5
<1> HIDE DEF q, k
<1>4. Work("migrate", q) \in Works /\ ~In(Work("migrate", q), works[k])
  BY <1>2, WorkIs DEF Requests, CarriedOnce, Queued, HasWork
<1>5. /\ works' \in [CPUs -> Seq(Works)] /\ known' \in SUBSET {"outside", "pinned", "refused"}
      /\ k \notin online => known' # {}
      /\ \A d \in CPUs, r \in Callers : HasWork(d, r)' <=> HasWork(d, r) \/ (d = k /\ r = q /\ k \in online)
      /\ \A d \in CPUs : HasPush(d)' <=> HasPush(d)
      /\ \A d \in CPUs : HasBalance(d)' <=> HasBalance(d)
      /\ \A d \in CPUs : NoRepeat(d) => NoRepeat(d)'
  BY <1>1, <1>2, <1>4, StopOneCpuEffect, WorkIs
<1>6. Typing'
  BY <1>1, <1>3, <1>5 DEF Typing
<1>7. RunsHere' /\ HotplugOK' /\ TickOK'
  BY <1>1, KeepHotplug, KeepTick DEF RunsHere
<1>8. QueuesOK'
  BY <1>1, <1>5 DEF QueuesOK
<1>9. /\ \A d, r : (Requeues(d, r)' <=> Requeues(d, r)) /\ (Hands(d, r)' <=> Hands(d, r))
      /\ \A r : (Enables(r)' <=> Enables(r)) /\ (EnableDone(r)' <=> EnableDone(r))
  BY <1>1, HandSame, EnablingSame
<1>10. /\ \A d \in Callers, r \in Callers : Starts(d, r)' <=> Starts(d, r) /\ d # c
       /\ \A d \in Callers, r \in Callers : Completes(d, r)' <=> Completes(d, r)
       /\ \A r \in Callers : (OwnerWaits(r)' <=> OwnerWaits(r)) /\ Holders(r)' = Holders(r)
  BY <1>1, <1>3 DEF Starts, Completes, OwnerWaits, Holders
<1>11. \A r \in Callers : Queued(r)' <=> Queued(r) \/ (r = q /\ k \in online)
  BY <1>2, <1>5 DEF Queued
<1>12. \A r \in Callers : (Carried(r)' => Carried(r)) /\ (Completed(r)' <=> Completed(r))
  BY <1>2, <1>9, <1>10, <1>11 DEF Carried, Completed
<1>13. CarriedOnce'
  BY <1>2, <1>5, <1>9, <1>10, <1>11 DEF Requests, CarriedOnce, Queued
<1>14. CompletedOnce'
  BY <1>9, <1>10 DEF Requests, CompletedOnce
<1>15. Stages'
  BY <1>1, <1>3, <1>10, <1>12 DEF Requests, Stages
<1>16. Counting'
  BY <1>1, <1>3, <1>10 DEF Requests, Counting, NoRequest
<1>17. CallOK'
  BY <1>1, <1>2, <1>3 DEF Requests, CallOK, q
<1>18. KeepsCarried /\ SameStop
  <2>1. \A r : Starts(c, r) => r = q
    BY DEF Starts, q
  <2>2. known' = {} => \A r \in Callers : Carried(r) => Carried(r)'
    BY <1>5, <1>9, <1>10, <1>11, <2>1 DEF Carried
  <2> QED
    BY <1>1, <2>2 DEF KeepsCarried, Remembers, SameStop
<1> QED
  BY <1>1, <1>6, <1>7, <1>8, <1>13, <1>14, <1>15, <1>16, <1>17, <1>18 DEF Requests

LEMMA CallCompleteCore ==
    ASSUME ACore, NEW c \in Callers, CallComplete(c)
    PROVE  ACore' /\ KeepsCarried /\ SameStop /\ UNCHANGED <<mask, hp, kthread>>
<1> USE DEF ACore
<1> DEFINE q == call[c].on
<1>1. /\ call[c].pc = "complete" /\ req' = [req EXCEPT ![q].done = TRUE]
      /\ call' = [call EXCEPT ![c].pc = IF call[c].waits THEN "wait" ELSE "idle",
                              ![c].on = IF call[c].waits THEN @ ELSE None]
      /\ UNCHANGED <<kthread, cpu, on_rq, mask, pin, disabled, mdf_push, pending, enabling, run, hand,
                     works, active, online, balance_push, nr_pinned, rq_online, hp, tick, twork,
                     push_busy, warn, known>>
  BY DEF CallComplete, p_, cpus
<1>2. /\ q \in Callers /\ Completes(c, q)
  BY <1>1 DEF Requests, CallOK, Completes, Typing, CallRec
<1>3. /\ call' \in [Callers -> CallRec]
      /\ \A d \in Callers : call'[d].waits <=> call[d].waits
      /\ \A d \in Callers \ {c} : call'[d] = call[d]
      /\ call[c].waits => call'[c].pc = "wait" /\ call'[c].on = q
      /\ ~call[c].waits => call'[c].pc = "idle" /\ call'[c].on = None
  <2>1. call \in [Callers -> CallRec]
    BY DEF Typing
  <2>2. (\A d \in Callers \ {c} : call'[d] = call[d]) /\ call' = [d \in Callers |-> call'[d]]
    BY <1>1, <2>1
  <2>3. CASE call[c].waits
    <3>1. call'[c] = [pc |-> "wait", on |-> q, cpu |-> call[c].cpu, waits |-> call[c].waits]
      BY <1>1, <2>1, <2>3 DEF CallRec
    <3>2. call'[c] \in CallRec
      BY <2>1, <3>1 DEF CallRec
    <3>3. call'[c].on = q /\ (call'[c].waits <=> call[c].waits) /\ call'[c].pc = "wait"
      BY <3>1
    <3> QED
      BY <2>1, <2>2, <2>3, <3>2, <3>3
  <2>4. CASE ~call[c].waits
    <3>1. call'[c] = [pc |-> "idle", on |-> None, cpu |-> call[c].cpu, waits |-> call[c].waits]
      BY <1>1, <2>1, <2>4 DEF CallRec
    <3>2. call'[c] \in CallRec
      BY <2>1, <3>1 DEF CallRec
    <3>3. call'[c].on = None /\ (call'[c].waits <=> call[c].waits) /\ call'[c].pc = "idle"
      BY <3>1
    <3> QED
      BY <2>1, <2>2, <2>4, <3>2, <3>3
  <2> QED
    BY <2>3, <2>4
<1>4. /\ req' \in [Callers -> ReqRec]
      /\ \A r \in Callers \ {q} : req'[r] = req[r]
      /\ req'[q].done /\ req'[q].refs = req[q].refs /\ (req'[q].stop_pending <=> req[q].stop_pending)
  <2>1. req \in [Callers -> ReqRec]
    BY DEF Typing
  <2>2. (\A r \in Callers \ {q} : req'[r] = req[r]) /\ req' = [r \in Callers |-> req'[r]]
    BY <1>1, <1>2, <2>1
  <2>3. req'[q] = [refs |-> req[q].refs, stop_pending |-> req[q].stop_pending, done |-> TRUE]
    BY <1>1, <1>2, <2>1 DEF ReqRec
  <2>4. req'[q] \in ReqRec
    BY <1>2, <2>1, <2>3 DEF ReqRec
  <2>5. req'[q].done /\ req'[q].refs = req[q].refs /\ (req'[q].stop_pending <=> req[q].stop_pending)
    BY <2>3
  <2> QED
    BY <2>1, <2>2, <2>4, <2>5
<1>5. call[c].on = q /\ None \notin Callers
  BY AffinityAssumption
<1> HIDE DEF q
<1>6. Typing'
  BY <1>1, <1>3, <1>4 DEF Typing
<1>7. RunsHere' /\ HotplugOK' /\ TickOK' /\ QueuesOK'
  BY <1>1, KeepHotplug, KeepTick, KeepQueues DEF RunsHere
<1>8. /\ \A d, r : (Requeues(d, r)' <=> Requeues(d, r)) /\ (Hands(d, r)' <=> Hands(d, r))
      /\ \A r : (Enables(r)' <=> Enables(r)) /\ (EnableDone(r)' <=> EnableDone(r))
      /\ \A d, r : HasWork(d, r)' <=> HasWork(d, r)
  BY <1>1, HandSame, EnablingSame, WorksSame
<1>9. /\ \A d \in Callers, r \in Callers : Starts(d, r)' <=> Starts(d, r)
      /\ \A d \in Callers, r \in Callers : Completes(d, r)' <=> Completes(d, r) /\ d # c
      /\ \A r \in Callers : OwnerWaits(r)' <=> OwnerWaits(r)
      /\ \A r \in Callers : Holders(r)' = Holders(r)
  BY <1>1, <1>3, <1>5 DEF Starts, Completes, OwnerWaits, Holders
<1>10. \A r \in Callers : Queued(r)' <=> Queued(r)
  BY <1>8 DEF Queued
<1>11. \A r \in Callers : Completes(c, r) <=> r = q
  BY <1>2, <1>5 DEF Completes
<1>12. \A r \in Callers : (Carried(r)' <=> Carried(r)) /\ (Completed(r)' <=> Completed(r) /\ r # q)
  BY <1>2, <1>8, <1>9, <1>10, <1>11 DEF Carried, Completed, Requests, CompletedOnce
<1>13. CarriedOnce'
  BY <1>8, <1>9, <1>10 DEF Requests, CarriedOnce
<1>14. CompletedOnce'
  BY <1>8, <1>9 DEF Requests, CompletedOnce
<1>15. Completed(q) /\ pending # q /\ ~req[q].done /\ OwnerWaits(q)
  BY <1>2 DEF Completed, Requests, Stages
<1>16. Stages'
  <2> SUFFICES ASSUME NEW r \in Callers
               PROVE  /\ pending' = r => OwnerWaits(r)' /\ call'[r].pc # "complete" /\ ~req'[r].done
                      /\ Carried(r)' => req'[r].stop_pending
                      /\ req'[r].stop_pending => pending' = r
                      /\ Completed(r)' => /\ OwnerWaits(r)' /\ call'[r].pc # "stop"
                                          /\ pending' # r /\ ~req'[r].done
                      /\ \A d \in Callers : call'[d].on = r /\ call'[d].waits =>
                            pending' = r \/ Completed(r)' \/ req'[r].done
    BY DEF Stages
  <2>1. \A d \in Callers : call'[d].on = r /\ call'[d].waits => call[d].on = r /\ call[d].waits
    BY <1>3, <1>5
  <2>2. CASE r = q
    BY <1>1, <1>2, <1>3, <1>4, <1>12, <1>15, <2>2 DEF Requests, Stages
  <2>3. CASE r # q
    BY <1>1, <1>3, <1>4, <1>9, <1>12, <2>1, <2>3 DEF Requests, Stages
  <2> QED
    BY <2>2, <2>3
<1>17. Counting'
  <2>1. \A r \in Callers : req'[r].refs = Cardinality(Holders(r)')
    BY <1>2, <1>4, <1>9 DEF Requests, Counting
  <2>2. \A r \in Callers : ~call'[r].waits => req'[r] = NoRequest
    BY <1>3, <1>4, <1>15 DEF Requests, Counting, OwnerWaits
  <2> QED
    BY <2>1, <2>2 DEF Counting, NoRequest
<1>18. CallOK'
  BY <1>1, <1>2, <1>3, <1>5 DEF Requests, CallOK
<1>19. KeepsCarried /\ SameStop
  BY <1>4, <1>12 DEF KeepsCarried, Remembers, SameStop
<1> QED
  BY <1>1, <1>6, <1>7, <1>13, <1>14, <1>16, <1>17, <1>18, <1>19 DEF Requests

LEMMA CallWokenCore ==
    ASSUME ACore, NEW c \in Callers, CallWoken(c)
    PROVE  ACore' /\ KeepsCarried /\ SameStop /\ UNCHANGED <<mask, hp, kthread>>
<1> USE DEF ACore
<1>0. PICK q : q = call[c].on
  OBVIOUS
<1>1. /\ call[c].pc = "wait" /\ req[q].done /\ req' = [req EXCEPT ![q].refs = @ - 1]
      /\ call' = [call EXCEPT ![c].pc = "refs", ![c].on = None]
      /\ UNCHANGED <<kthread, cpu, on_rq, mask, pin, disabled, mdf_push, pending, enabling, run, hand,
                     works, active, online, balance_push, nr_pinned, rq_online, hp, tick, twork,
                     push_busy, warn, known>>
  BY <1>0 DEF CallWoken, p_, cpus
<1>2. /\ q \in Callers /\ call[c].waits
  BY <1>0, <1>1 DEF Requests, CallOK, Typing, CallRec
<1>3. /\ call' \in [Callers -> CallRec]
      /\ \A d \in Callers : call'[d].waits <=> call[d].waits
      /\ \A d \in Callers \ {c} : call'[d] = call[d]
      /\ call'[c].pc = "refs" /\ call'[c].on = None
  <2>1. call \in [Callers -> CallRec]
    BY DEF Typing
  <2>2. (\A d \in Callers \ {c} : call'[d] = call[d]) /\ call' = [d \in Callers |-> call'[d]]
    BY <1>1, <2>1
  <2>3. call'[c] = [pc |-> "refs", on |-> None, cpu |-> call[c].cpu, waits |-> call[c].waits]
    BY <1>1, <2>1 DEF CallRec
  <2>4. call'[c] \in CallRec
    BY <2>1, <2>3 DEF CallRec
  <2>5. call'[c].on = None /\ (call'[c].waits <=> call[c].waits) /\ call'[c].pc = "refs"
    BY <2>3
  <2> QED
    BY <2>1, <2>2, <2>4, <2>5
<1>4. call[c].on = q /\ None \notin Callers
  BY <1>0, AffinityAssumption
<1>5. /\ \A r \in Callers \ {q} : req'[r] = req[r]
      /\ req'[q].done /\ req'[q].refs = req[q].refs - 1 /\ (req'[q].stop_pending <=> req[q].stop_pending)
  BY <1>1, <1>2 DEF Typing
<1>6. /\ c \in Holders(q) /\ Holders(q)' = Holders(q) \ {c}
      /\ \A r \in Callers \ {q} : Holders(r)' = Holders(r)
  <2>1. \A d \in Callers, r \in Callers : call'[d].on = r /\ call'[d].waits <=>
            call[d].on = r /\ call[d].waits /\ ~(d = c /\ r = q)
    BY <1>2, <1>3, <1>4
  <2>2. c \in Holders(q)
    BY <1>2, <1>4 DEF Holders
  <2>3. \A r \in Callers : Holders(r)' = {d \in Callers : call'[d].on = r /\ call'[d].waits}
    BY DEF Holders
  <2>4. \A r \in Callers \ {q} : Holders(r)' = Holders(r)
    BY <2>1, <2>3 DEF Holders
  <2>5. Holders(q)' = Holders(q) \ {c}
    BY <1>2, <2>1, <2>3 DEF Holders
  <2> QED
    BY <2>2, <2>4, <2>5
<1>7. /\ req[q].refs = Cardinality(Holders(q)) /\ req[q].refs \in Nat /\ req[q].refs # 0
      /\ Cardinality(Holders(q) \ {c}) = Cardinality(Holders(q)) - 1
  BY <1>2, <1>6, HoldersFinite, FS_RemoveElement DEF Requests, Counting
<1>8. req' \in [Callers -> ReqRec]
  <2>1. req \in [Callers -> ReqRec]
    BY DEF Typing
  <2>2. (\A r \in Callers \ {q} : req'[r] = req[r]) /\ req' = [r \in Callers |-> req'[r]]
    BY <1>1, <1>2, <2>1
  <2>3. req'[q] = [refs |-> req[q].refs - 1, stop_pending |-> req[q].stop_pending, done |-> req[q].done]
    BY <1>1, <1>2, <2>1 DEF ReqRec
  <2>4. req'[q] \in ReqRec
    BY <1>2, <1>7, <2>1, <2>3 DEF ReqRec
  <2> QED
    BY <2>1, <2>2, <2>4
<1>9. Typing'
  BY <1>1, <1>3, <1>8 DEF Typing
<1>10. RunsHere' /\ HotplugOK' /\ TickOK' /\ QueuesOK'
  BY <1>1, KeepHotplug, KeepTick, KeepQueues DEF RunsHere
<1>11. /\ \A d, r : (Requeues(d, r)' <=> Requeues(d, r)) /\ (Hands(d, r)' <=> Hands(d, r))
       /\ \A r : (Enables(r)' <=> Enables(r)) /\ (EnableDone(r)' <=> EnableDone(r))
       /\ \A d, r : HasWork(d, r)' <=> HasWork(d, r)
  BY <1>1, HandSame, EnablingSame, WorksSame
<1>12. /\ \A d \in Callers, r \in Callers : Starts(d, r)' <=> Starts(d, r)
       /\ \A d \in Callers, r \in Callers : Completes(d, r)' <=> Completes(d, r)
       /\ \A r \in Callers \ {q} : OwnerWaits(r)' <=> OwnerWaits(r)
  BY <1>1, <1>3, <1>4 DEF Starts, Completes, OwnerWaits
<1>13. \A r \in Callers : Queued(r)' <=> Queued(r)
  BY <1>11 DEF Queued
<1>14. \A r \in Callers : (Carried(r)' <=> Carried(r)) /\ (Completed(r)' <=> Completed(r))
  BY <1>11, <1>12, <1>13 DEF Carried, Completed
<1>15. CarriedOnce'
  BY <1>11, <1>12, <1>13 DEF Requests, CarriedOnce
<1>16. CompletedOnce'
  BY <1>11, <1>12 DEF Requests, CompletedOnce
<1>17. Stages'
  <2> SUFFICES ASSUME NEW r \in Callers
               PROVE  /\ pending' = r => OwnerWaits(r)' /\ call'[r].pc # "complete" /\ ~req'[r].done
                      /\ Carried(r)' => req'[r].stop_pending
                      /\ req'[r].stop_pending => pending' = r
                      /\ Completed(r)' => /\ OwnerWaits(r)' /\ call'[r].pc # "stop"
                                          /\ pending' # r /\ ~req'[r].done
                      /\ \A d \in Callers : call'[d].on = r /\ call'[d].waits =>
                            pending' = r \/ Completed(r)' \/ req'[r].done
    BY DEF Stages
  <2>1. \A d \in Callers : call'[d].on = r /\ call'[d].waits => call[d].on = r /\ call[d].waits
    BY <1>3, <1>4
  <2>2. CASE r = q
    BY <1>1, <1>2, <1>5, <1>14, <2>2 DEF Requests, Stages
  <2>3. CASE r # q
    BY <1>1, <1>3, <1>5, <1>12, <1>14, <2>1, <2>3 DEF Requests, Stages
  <2> QED
    BY <2>2, <2>3
<1>18. Counting'
  <2>1. \A r \in Callers : req'[r].refs = Cardinality(Holders(r)')
    <3>1. \A r \in Callers \ {q} : req'[r].refs = Cardinality(Holders(r)')
      BY <1>5, <1>6 DEF Requests, Counting
    <3>2. req'[q].refs = Cardinality(Holders(q)')
      BY <1>5, <1>6, <1>7
    <3> QED
      BY <3>1, <3>2
  <2>2. call[q].waits
    BY <1>1, <1>2 DEF Requests, Counting, NoRequest
  <2>3. \A r \in Callers : ~call'[r].waits => req'[r] = NoRequest
    BY <1>3, <1>5, <2>2 DEF Requests, Counting
  <2> QED
    BY <2>1, <2>3 DEF Counting, NoRequest
<1>19. CallOK'
  BY <1>1, <1>2, <1>3, <1>4 DEF Requests, CallOK
<1>20. KeepsCarried /\ SameStop
  BY <1>5, <1>14 DEF KeepsCarried, Remembers, SameStop
<1> QED
  BY <1>1, <1>9, <1>10, <1>15, <1>16, <1>17, <1>18, <1>19, <1>20 DEF Requests

LEMMA CallReturnCore ==
    ASSUME ACore, NEW c \in Callers, CallReturn(c)
    PROVE  ACore' /\ KeepsCarried /\ SameStop /\ UNCHANGED <<mask, hp, kthread, warn>>
<1> USE DEF ACore
<1>1. /\ call[c].pc = "refs" /\ req[c].refs = 0 /\ req' = [req EXCEPT ![c] = NoRequest]
      /\ call' = [call EXCEPT ![c] = NotCalling]
      /\ Warn(IF req[c].stop_pending THEN {"affine_move_task: stop_pending"} ELSE {})
      /\ UNCHANGED <<kthread, cpu, on_rq, mask, pin, disabled, mdf_push, pending, enabling, run, hand,
                     works, active, online, balance_push, nr_pinned, rq_online, hp, tick, twork,
                     push_busy, known>>
  BY DEF CallReturn, p_, cpus, OwnerMayReturn
<1>2. call[c].on = None /\ None \notin Callers
  BY <1>1, AffinityAssumption DEF Requests, CallOK
<1>3. pending # c /\ ~req[c].stop_pending /\ ~Carried(c) /\ ~Completed(c)
  BY <1>2 DEF Requests, Stages, OwnerWaits
<1>4. warn' = warn
  BY <1>1, <1>3 DEF Warn, Typing
<1>5. /\ call' \in [Callers -> CallRec]
      /\ \A d \in Callers \ {c} : call'[d] = call[d]
      /\ call'[c].pc = "idle" /\ call'[c].on = None /\ ~call'[c].waits
  BY <1>1 DEF Typing, NotCalling, CallRec
<1>6. /\ req' \in [Callers -> ReqRec]
      /\ \A r \in Callers \ {c} : req'[r] = req[r]
      /\ req'[c] = NoRequest /\ req'[c].refs = 0 /\ ~req'[c].stop_pending /\ ~req'[c].done
  BY <1>1 DEF Typing, NoRequest, ReqRec
<1>7. Typing'
  BY <1>1, <1>4, <1>5, <1>6 DEF Typing
<1>8. RunsHere' /\ HotplugOK' /\ TickOK' /\ QueuesOK'
  BY <1>1, KeepHotplug, KeepTick, KeepQueues DEF RunsHere
<1>9. /\ \A d, r : (Requeues(d, r)' <=> Requeues(d, r)) /\ (Hands(d, r)' <=> Hands(d, r))
      /\ \A r : (Enables(r)' <=> Enables(r)) /\ (EnableDone(r)' <=> EnableDone(r))
      /\ \A d, r : HasWork(d, r)' <=> HasWork(d, r)
  BY <1>1, HandSame, EnablingSame, WorksSame
<1>10. /\ \A d \in Callers, r \in Callers : Starts(d, r)' <=> Starts(d, r)
       /\ \A d \in Callers, r \in Callers : Completes(d, r)' <=> Completes(d, r)
       /\ \A r \in Callers : OwnerWaits(r)' <=> OwnerWaits(r)
       /\ \A r \in Callers : Holders(r)' = Holders(r)
  <2>1. \A d \in Callers, r \in Callers :
            call'[d].on = r /\ call'[d].waits <=> call[d].on = r /\ call[d].waits
    BY <1>2, <1>5
  <2>2. \A r \in Callers : Holders(r)' = {d \in Callers : call'[d].on = r /\ call'[d].waits}
    BY DEF Holders
  <2>3. \A r \in Callers : Holders(r)' = Holders(r)
    BY <2>1, <2>2 DEF Holders
  <2> QED
    BY <1>1, <1>2, <1>5, <2>3 DEF Starts, Completes, OwnerWaits
<1>11. \A r \in Callers : Queued(r)' <=> Queued(r)
  BY <1>9 DEF Queued
<1>12. \A r \in Callers : (Carried(r)' <=> Carried(r)) /\ (Completed(r)' <=> Completed(r))
  BY <1>9, <1>10, <1>11 DEF Carried, Completed
<1>13. CarriedOnce'
  BY <1>9, <1>10, <1>11 DEF Requests, CarriedOnce
<1>14. CompletedOnce'
  BY <1>9, <1>10 DEF Requests, CompletedOnce
<1>15. Holders(c) = {}
  BY <1>1, HoldersFinite DEF Requests, Counting
<1>16. Stages'
  <2> SUFFICES ASSUME NEW r \in Callers
               PROVE  /\ pending' = r => OwnerWaits(r)' /\ call'[r].pc # "complete" /\ ~req'[r].done
                      /\ Carried(r)' => req'[r].stop_pending
                      /\ req'[r].stop_pending => pending' = r
                      /\ Completed(r)' => /\ OwnerWaits(r)' /\ call'[r].pc # "stop"
                                          /\ pending' # r /\ ~req'[r].done
                      /\ \A d \in Callers : call'[d].on = r /\ call'[d].waits =>
                            pending' = r \/ Completed(r)' \/ req'[r].done
    BY DEF Stages
  <2>1. \A d \in Callers : call'[d].on = r /\ call'[d].waits => call[d].on = r /\ call[d].waits
    BY <1>2, <1>5
  <2>2. CASE r = c
    BY <1>1, <1>3, <1>6, <1>12, <1>15, <2>1, <2>2 DEF Holders
  <2>3. CASE r # c
    BY <1>1, <1>5, <1>6, <1>10, <1>12, <2>1, <2>3 DEF Requests, Stages
  <2> QED
    BY <2>2, <2>3
<1>17. Counting'
  <2>1. \A r \in Callers : req'[r].refs = Cardinality(Holders(r)')
    BY <1>1, <1>6, <1>10 DEF Requests, Counting
  <2>2. \A r \in Callers : ~call'[r].waits => req'[r] = NoRequest
    BY <1>5, <1>6 DEF Requests, Counting
  <2> QED
    BY <2>1, <2>2 DEF Counting, NoRequest
<1>18. CallOK'
  BY <1>1, <1>2, <1>5 DEF Requests, CallOK
<1>19. KeepsCarried /\ SameStop
  BY <1>3, <1>6, <1>12 DEF KeepsCarried, Remembers, SameStop
<1> QED
  BY <1>1, <1>4, <1>7, <1>8, <1>13, <1>14, <1>16, <1>17, <1>18, <1>19 DEF Requests
--------------------------------------------------------------------------------
(* Core: the stopper *)

LEMMA StopAfterwardsCore ==
    ASSUME ACore, NEW c \in CPUs, StopAfterwards(c)
    PROVE  ACore' /\ KeepsCarried /\ SameStop /\ UNCHANGED <<mask, hp, kthread>>
<1> USE DEF ACore
<1>1. /\ hand[c] # None /\ hand' = [hand EXCEPT ![c] = None]
      /\ UNCHANGED <<kthread, cpu, on_rq, mask, pin, disabled, mdf_push, pending, enabling, run,
                     call, active, online, balance_push, nr_pinned, rq_online, hp, tick, twork,
                     push_busy, warn>>
  BY DEF StopAfterwards, p_, cpus
<1>2. PICK do \in {"complete", "requeue"}, q \in Callers : hand[c] = [do |-> do, of |-> q]
  BY <1>1 DEF Typing, Afterwards
<1>3. /\ hand' \in [CPUs -> Afterwards \cup {None}] /\ hand'[c] = None
      /\ \A d \in CPUs \ {c} : hand'[d] = hand[d]
  BY <1>1 DEF Typing
<1>4. \A r : None # [do |-> "complete", of |-> r] \/ r \notin Callers
  BY NoneAssumption DEF Afterwards
<1>5. \A r : None # [do |-> "requeue", of |-> r] \/ r \notin Callers
  BY NoneAssumption DEF Afterwards
<1>6. /\ \A d \in CPUs, r \in Callers : Requeues(d, r)' <=> Requeues(d, r) /\ d # c
      /\ \A d \in CPUs, r \in Callers : Hands(d, r)' <=> Hands(d, r) /\ d # c
  BY <1>3, <1>4, <1>5 DEF Requeues, Hands
<1>7. /\ \A d, r : (Starts(d, r)' <=> Starts(d, r)) /\ (Completes(d, r)' <=> Completes(d, r))
      /\ \A r : (OwnerWaits(r)' <=> OwnerWaits(r)) /\ Holders(r)' = Holders(r)
      /\ \A r : (Enables(r)' <=> Enables(r)) /\ (EnableDone(r)' <=> EnableDone(r))
  BY <1>1, CallSame, EnablingSame
<1>8. RunsHere' /\ HotplugOK' /\ TickOK'
  BY <1>1, KeepHotplug, KeepTick DEF RunsHere
<1>9. CASE do = "complete"
  <2>1. req' = [req EXCEPT ![q].done = TRUE] /\ UNCHANGED <<works, known>>
    BY <1>2, <1>9 DEF StopAfterwards
  <2>2. Hands(c, q) /\ \A r : (Hands(c, r) => r = q) /\ ~Requeues(c, r)
    BY <1>2, <1>9 DEF Hands, Requeues
  <2>3. /\ req' \in [Callers -> ReqRec]
        /\ \A r \in Callers \ {q} : req'[r] = req[r]
        /\ req'[q].done /\ req'[q].refs = req[q].refs /\ (req'[q].stop_pending <=> req[q].stop_pending)
    <3>1. req \in [Callers -> ReqRec]
      BY DEF Typing
    <3>2. (\A r \in Callers \ {q} : req'[r] = req[r]) /\ req' = [r \in Callers |-> req'[r]]
      BY <2>1, <3>1
    <3>3. req'[q] = [refs |-> req[q].refs, stop_pending |-> req[q].stop_pending, done |-> TRUE]
      BY <2>1, <3>1 DEF ReqRec
    <3>4. req'[q] \in ReqRec
      BY <3>1, <3>3 DEF ReqRec
    <3>5. req'[q].done /\ req'[q].refs = req[q].refs /\ (req'[q].stop_pending <=> req[q].stop_pending)
      BY <3>3
    <3> QED
      BY <3>1, <3>2, <3>4, <3>5
  <2>4. Typing'
    BY <1>1, <1>3, <2>1, <2>3 DEF Typing
  <2>5. QueuesOK'
    BY <1>1, <2>1, KeepQueues
  <2>6. (\A d, r : HasWork(d, r)' <=> HasWork(d, r)) /\ \A r \in Callers : Queued(r)' <=> Queued(r)
    BY <2>1, WorksSame DEF Queued
  <2>7. \A r \in Callers : (Carried(r)' <=> Carried(r)) /\ (Completed(r)' <=> Completed(r) /\ r # q)
    BY <1>6, <1>7, <2>2, <2>6 DEF Carried, Completed, Requests, CompletedOnce
  <2>8. CarriedOnce' /\ CompletedOnce'
    BY <1>6, <1>7, <2>2, <2>6 DEF Requests, CarriedOnce, CompletedOnce
  <2>9. Completed(q) /\ pending # q /\ ~req[q].done /\ OwnerWaits(q)
    BY <2>2 DEF Completed, Requests, Stages
  <2>10. Stages'
    BY <1>1, <1>7, <2>3, <2>7, <2>9 DEF Requests, Stages
  <2>11. Counting'
    <3>1. \A r \in Callers : req'[r].refs = Cardinality(Holders(r)')
      BY <1>7, <2>3 DEF Requests, Counting
    <3>2. \A r \in Callers : ~call'[r].waits => req'[r] = NoRequest
      BY <1>1, <2>3, <2>9 DEF Requests, Counting, OwnerWaits
    <3> QED
      BY <3>1, <3>2 DEF Counting, NoRequest
  <2>12. CallOK'
    BY <1>1 DEF Requests, CallOK
  <2>13. KeepsCarried /\ SameStop
    BY <2>3, <2>7 DEF KeepsCarried, Remembers, SameStop
  <2> QED
    BY <1>1, <1>8, <2>4, <2>5, <2>8, <2>10, <2>11, <2>12, <2>13 DEF Requests
<1>10. CASE do = "requeue"
  <2>1. StopOneCpu(cpu, Work("migrate", q)) /\ req' = req
    BY <1>2, <1>10 DEF StopAfterwards
  <2>2. Requeues(c, q) /\ \A r : (Requeues(c, r) => r = q) /\ ~Hands(c, r)
    BY <1>2, <1>10 DEF Hands, Requeues
  <2>3. cpu \in CPUs /\ Work("migrate", q) \in Works /\ ~In(Work("migrate", q), works[cpu])
    BY <2>2, WorkIs DEF Typing, Requests, CarriedOnce, Queued, HasWork
  <2>4. /\ works' \in [CPUs -> Seq(Works)] /\ known' \in SUBSET {"outside", "pinned", "refused"}
        /\ cpu \notin online => known' # {}
        /\ \A d \in CPUs, r \in Callers :
             HasWork(d, r)' <=> HasWork(d, r) \/ (d = cpu /\ r = q /\ cpu \in online)
        /\ \A d \in CPUs : HasPush(d)' <=> HasPush(d)
        /\ \A d \in CPUs : HasBalance(d)' <=> HasBalance(d)
        /\ \A d \in CPUs : NoRepeat(d) => NoRepeat(d)'
    BY <2>1, <2>3, StopOneCpuEffect, WorkIs
  <2>5. Typing'
    BY <1>1, <1>3, <2>1, <2>4 DEF Typing
  <2>6. QueuesOK'
    BY <1>1, <2>4 DEF QueuesOK
  <2>7. \A r \in Callers : Queued(r)' <=> Queued(r) \/ (r = q /\ cpu \in online)
    BY <2>3, <2>4 DEF Queued
  <2>8. \A r \in Callers : (Carried(r)' => Carried(r)) /\ (Completed(r)' <=> Completed(r))
    BY <1>6, <1>7, <2>2, <2>7 DEF Carried, Completed
  <2>9. CarriedOnce'
    BY <1>6, <1>7, <2>2, <2>4, <2>7 DEF Requests, CarriedOnce, Queued
  <2>10. CompletedOnce'
    BY <1>6, <1>7, <2>2 DEF Requests, CompletedOnce
  <2>11. Stages'
    BY <1>1, <1>7, <2>1, <2>8 DEF Requests, Stages
  <2>12. Counting' /\ CallOK'
    BY <1>1, <1>7, <2>1 DEF Requests, Counting, NoRequest, CallOK
  <2>13. KeepsCarried /\ SameStop
    <3>1. known' = {} => \A r \in Callers : Carried(r) => Carried(r)'
      BY <1>6, <1>7, <2>2, <2>4, <2>7 DEF Carried
    <3> QED
      BY <2>1, <3>1 DEF KeepsCarried, Remembers, SameStop
  <2> QED
    BY <1>1, <1>8, <2>5, <2>6, <2>9, <2>10, <2>11, <2>12, <2>13 DEF Requests
<1> QED
  BY <1>2, <1>9, <1>10

LEMMA MigrateTaskTypes ==
    ASSUME Typing, NEW c \in CPUs, MigrateTask(c)
    PROVE  cpu' \in {cpu, c} /\ cpu' \in CPUs /\ warn' \in SUBSET Warnings
<1>1. CASE Allowed(c, cpus_ptr)
  <2>1. SetTaskCpu(c)
    BY <1>1 DEF MigrateTask
  <2> QED
    BY <2>1, SetTaskCpuTypes
<1>2. CASE ~Allowed(c, cpus_ptr)
  <2>1. UNCHANGED <<cpu, warn>>
    BY <1>2 DEF MigrateTask
  <2> QED
    BY <2>1 DEF Typing
<1> QED
  BY <1>1, <1>2

\* What any work of the stopper of c leaves as it was.
StopFrame(c) ==
    /\ cpu' \in CPUs /\ warn' \in SUBSET Warnings /\ on_rq' \in {"queued", "asleep", "waking"}
    /\ mdf_push' \in BOOLEAN /\ push_busy' \in SUBSET CPUs
    /\ known' \in SUBSET {"outside", "pinned", "refused"}
    /\ mask' \in SUBSET CPUs /\ mask' # {} /\ (hp.pc = "none" => mask' = mask)
    /\ cpu' # cpu => cpu = c
    /\ on_rq' # on_rq => on_rq = "waking"
    /\ push_busy' # push_busy => push_busy' = push_busy \ {c} /\ Head(works[c]).kind = "push"

LEMMA MigrationCpuStopFrame ==
    ASSUME Typing, NEW c \in CPUs, NEW r \in Callers \cup {None}, NEW dests \in SUBSET CPUs,
           MigrationCpuStop(c, r, dests)
    PROVE  StopFrame(c)
<1> DEFINE here == cpu = c
           queued == on_rq = "queued" \/ (on_rq = "waking" /\ here)
           chase == ~here /\ r # None /\ cpu \notin cpus_ptr
           complete == r # None /\ ~chase /\ ~(here /\ disabled > 0)
           moves == here /\ disabled = 0 /\ queued /\ (r # None => cpu \notin mask)
<1>1. /\ on_rq' = (IF queued THEN "queued" ELSE on_rq)
      /\ IF moves THEN \E dest \in dests : MigrateTask(dest)
         ELSE /\ cpu' = cpu
              /\ Warn(IF chase /\ ~req[r].stop_pending THEN {"migration_cpu_stop: no stop_pending"} ELSE {})
      /\ known' \in {known, known \cup {"outside"}}
      /\ UNCHANGED <<mask, mdf_push, push_busy>>
  BY DEF MigrationCpuStop
<1>2. cpu' \in CPUs /\ warn' \in SUBSET Warnings /\ (cpu' # cpu => here)
  <2>1. CASE moves
    BY <1>1, <2>1, MigrateTaskTypes
  <2>2. CASE ~moves
    BY <1>1, <2>2 DEF Warn, Typing, Warnings
  <2> QED
    BY <2>1, <2>2
<1>3. on_rq' \in {"queued", "asleep", "waking"} /\ (on_rq' # on_rq => on_rq = "waking")
  BY <1>1 DEF Typing
<1>4. known' \in SUBSET {"outside", "pinned", "refused"}
  BY <1>1 DEF Typing
<1> QED
  BY <1>1, <1>2, <1>3, <1>4 DEF StopFrame, Typing

LEMMA PushCpuStopFrame ==
    ASSUME Typing, NEW c \in CPUs, PushCpuStop(c), Head(works[c]).kind = "push"
    PROVE  StopFrame(c)
<1>1. /\ mdf_push' = (IF cpu = c THEN disabled > 0 ELSE mdf_push)
      /\ \/ cpu = c /\ \E dest \in (mask \cap rq_online) \ {c} : SetTaskCpu(dest)
         \/ UNCHANGED <<cpu, warn>>
      /\ push_busy' = push_busy \ {c}
      /\ UNCHANGED <<on_rq, mask, pending, req, hand, known>>
  BY DEF PushCpuStop
<1>2. cpu' \in CPUs /\ warn' \in SUBSET Warnings /\ (cpu' # cpu => cpu = c)
  <2>1. CASE UNCHANGED <<cpu, warn>>
    BY <2>1 DEF Typing
  <2>2. ASSUME cpu = c, NEW dest \in (mask \cap rq_online) \ {c}, SetTaskCpu(dest)
        PROVE cpu' \in CPUs /\ warn' \in SUBSET Warnings
    BY <2>2, SetTaskCpuTypes DEF Typing
  <2> QED
    BY <1>1, <2>1, <2>2
<1>3. mdf_push' \in BOOLEAN
  <2>1. mdf_push \in BOOLEAN /\ (disabled > 0) \in BOOLEAN
    BY DEF Typing
  <2> QED
    BY <1>1, <2>1, Zenon
<1> QED
  BY <1>1, <1>2, <1>3 DEF StopFrame, Typing

LEMMA BalancePushCpuStopFrame ==
    ASSUME Typing, HotplugOK, NEW c \in CPUs, BalancePushCpuStop(c)
    PROVE  StopFrame(c)
<1>1. UNCHANGED <<on_rq, mdf_push, pending, req, hand, push_busy, known>>
  BY DEF BalancePushCpuStop
<1>2. CASE cpu = c /\ on_rq = "queued"
  <2>1. PICK s \in SelectFallbackRq : MigrateTask(s.to) /\ mask' = s.mask
    BY <1>2 DEF BalancePushCpuStop
  <2>2. s.to \in CPUs /\ s.mask \in {mask, CPUs} /\ (hp.pc = "none" => s.mask = mask)
    BY FallbackTypes
  <2>3. cpu' \in CPUs /\ warn' \in SUBSET Warnings
    BY <2>1, <2>2, MigrateTaskTypes
  <2>4. mask' \in SUBSET CPUs /\ mask' # {} /\ (hp.pc = "none" => mask' = mask)
    BY <2>1, <2>2, AffinityAssumption DEF Typing
  <2> QED
    BY <1>1, <1>2, <2>3, <2>4 DEF StopFrame, Typing
<1>3. CASE ~(cpu = c /\ on_rq = "queued")
  <2>1. UNCHANGED <<cpu, mask, warn>>
    BY <1>3 DEF BalancePushCpuStop
  <2> QED
    BY <1>1, <2>1 DEF StopFrame, Typing
<1> QED
  BY <1>2, <1>3

\* The work of a request: the stopper takes it, and completes the request, chases p, or leaves
\* it to migrate_enable.
Taken(c, q) ==
    \/ /\ hand' = [hand EXCEPT ![c] = [do |-> "requeue", of |-> q]]
       /\ UNCHANGED <<req, pending>>
    \/ /\ hand' = [hand EXCEPT ![c] = [do |-> "complete", of |-> q]]
       /\ req' = [req EXCEPT ![q].stop_pending = FALSE] /\ pending' = None
    \/ /\ hand' = hand
       /\ req' = [req EXCEPT ![q].stop_pending = FALSE] /\ UNCHANGED pending

LEMMA MigrationCpuStopTakes ==
    ASSUME Typing, NEW c \in CPUs, NEW q \in Callers, hand[c] = None, pending = q,
           MigrationCpuStop(c, q, mask)
    PROVE  Taken(c, q)
<1> DEFINE here == cpu = c
           chase == ~here /\ q # None /\ cpu \notin cpus_ptr
           complete == q # None /\ ~chase /\ ~(here /\ disabled > 0)
<1>0. q # None
  BY AffinityAssumption
<1>1. /\ pending' = (IF complete /\ pending = q THEN None ELSE pending)
      /\ req' = (IF q # None /\ ~chase THEN [req EXCEPT ![q].stop_pending = FALSE] ELSE req)
      /\ hand' = [hand EXCEPT ![c] =
                    CASE complete -> [do |-> "complete", of |-> q]
                      [] chase -> [do |-> "requeue", of |-> q]
                      [] OTHER -> None]
  BY DEF MigrationCpuStop
<1>2. CASE chase
  BY <1>0, <1>1, <1>2 DEF Taken
<1>3. CASE complete
  BY <1>0, <1>1, <1>3 DEF Taken
<1>4. CASE ~chase /\ ~complete
  <2>1. hand' = hand
    BY <1>1, <1>4 DEF Typing
  <2> QED
    BY <1>0, <1>1, <1>4, <2>1 DEF Taken
<1> QED
  BY <1>2, <1>3, <1>4

LEMMA TakenRequests ==
    ASSUME Typing, Requests, NEW c \in CPUs, NEW q \in Callers, Taken(c, q), hand[c] = None,
           HasWork(c, q), UNCHANGED <<call, enabling>>,
           \A d \in CPUs, r \in Callers : HasWork(d, r)' <=> HasWork(d, r) /\ ~(d = c /\ r = q)
    PROVE  /\ Requests' /\ req' \in [Callers -> ReqRec] /\ pending' \in Callers \cup {None}
           /\ hand' \in [CPUs -> Afterwards \cup {None}] /\ KeepsCarried
<1>1. Carried(q) /\ req[q].stop_pending /\ pending = q /\ OwnerWaits(q) /\ ~req[q].done
      /\ call[q].pc # "complete" /\ ~Completed(q)
  BY DEF Carried, Queued, Requests, Stages
<1>2. /\ \A d, r : (Starts(d, r)' <=> Starts(d, r)) /\ (Completes(d, r)' <=> Completes(d, r))
      /\ \A r : (OwnerWaits(r)' <=> OwnerWaits(r)) /\ Holders(r)' = Holders(r)
      /\ \A r : (Enables(r)' <=> Enables(r)) /\ (EnableDone(r)' <=> EnableDone(r))
  BY CallSame, EnablingSame
<1>3. \A r \in Callers : Queued(r)' <=> Queued(r) /\ r # q
  BY DEF Queued, Requests, CarriedOnce
<1>4. ~Enables(q) /\ (\A d \in CPUs : ~Requeues(d, q)) /\ \A d \in Callers : ~Starts(d, q)
  BY DEF Requests, CarriedOnce, Queued
<1>5. \A r \in Callers : ~Requeues(c, r) /\ ~Hands(c, r)
  BY NoneAssumption DEF Requeues, Hands, Afterwards
<1>6. /\ [do |-> "requeue", of |-> q] \in Afterwards /\ [do |-> "complete", of |-> q] \in Afterwards
      /\ hand \in [CPUs -> Afterwards \cup {None}] /\ req \in [Callers -> ReqRec]
      /\ pending \in Callers \cup {None} /\ None \notin Callers
  BY AffinityAssumption DEF Afterwards, Typing
<1>7. CallOK'
  BY DEF Requests, CallOK
<1>8. CASE hand' = [hand EXCEPT ![c] = [do |-> "requeue", of |-> q]] /\ UNCHANGED <<req, pending>>
  <2>1. /\ hand'[c] = [do |-> "requeue", of |-> q] /\ \A d \in CPUs \ {c} : hand'[d] = hand[d]
        /\ hand' \in [CPUs -> Afterwards \cup {None}]
    BY <1>6, <1>8
  <2>2. /\ \A d \in CPUs, r \in Callers : Requeues(d, r)' <=> Requeues(d, r) \/ (d = c /\ r = q)
        /\ \A d \in CPUs, r \in Callers : Hands(d, r)' <=> Hands(d, r)
    BY <1>5, <2>1 DEF Requeues, Hands
  <2>3. \A r \in Callers : (Carried(r)' => Carried(r)) /\ (Completed(r)' <=> Completed(r))
    BY <1>1, <1>2, <1>3, <2>2 DEF Carried, Completed
  <2>4. CarriedOnce'
    BY <1>2, <1>3, <1>4, <2>2 DEF Requests, CarriedOnce
  <2>5. CompletedOnce'
    BY <1>2, <2>2 DEF Requests, CompletedOnce
  <2>6. Stages'
    BY <1>2, <1>8, <2>3 DEF Requests, Stages
  <2>7. Counting'
    BY <1>2, <1>8 DEF Requests, Counting, NoRequest
  <2>8. KeepsCarried
    <3>1. \A r \in Callers : Carried(r) => Carried(r)'
      BY <1>2, <1>3, <2>2 DEF Carried
    <3> QED
      BY <1>8, <3>1 DEF KeepsCarried, Remembers
  <2> QED
    BY <1>6, <1>7, <1>8, <2>1, <2>4, <2>5, <2>6, <2>7, <2>8 DEF Requests
<1>9. CASE req' = [req EXCEPT ![q].stop_pending = FALSE]
  <2>1. /\ req' \in [Callers -> ReqRec]
        /\ \A r \in Callers \ {q} : req'[r] = req[r]
        /\ ~req'[q].stop_pending /\ req'[q].refs = req[q].refs /\ (req'[q].done <=> req[q].done)
    <3>1. (\A r \in Callers \ {q} : req'[r] = req[r]) /\ req' = [r \in Callers |-> req'[r]]
      BY <1>6, <1>9
    <3>2. req'[q] = [refs |-> req[q].refs, stop_pending |-> FALSE, done |-> req[q].done]
      BY <1>6, <1>9 DEF ReqRec
    <3>3. req'[q] \in ReqRec
      BY <1>6, <3>2 DEF ReqRec
    <3>4. ~req'[q].stop_pending /\ req'[q].refs = req[q].refs /\ (req'[q].done <=> req[q].done)
      BY <3>2
    <3> QED
      BY <1>6, <3>1, <3>3, <3>4
  <2>2. Counting'
    <3>1. \A r \in Callers : req'[r].refs = Cardinality(Holders(r)')
      BY <1>2, <2>1 DEF Requests, Counting
    <3>2. \A r \in Callers : ~call'[r].waits => req'[r] = NoRequest
      BY <1>1, <2>1 DEF Requests, Counting, OwnerWaits
    <3> QED
      BY <3>1, <3>2 DEF Counting, NoRequest
  <2>3. CASE hand' = [hand EXCEPT ![c] = [do |-> "complete", of |-> q]] /\ pending' = None
    <3>1. /\ hand'[c] = [do |-> "complete", of |-> q] /\ \A d \in CPUs \ {c} : hand'[d] = hand[d]
          /\ hand' \in [CPUs -> Afterwards \cup {None}]
      BY <1>6, <2>3
    <3>2. /\ \A d \in CPUs, r \in Callers : Requeues(d, r)' <=> Requeues(d, r)
          /\ \A d \in CPUs, r \in Callers : Hands(d, r)' <=> Hands(d, r) \/ (d = c /\ r = q)
      BY <1>5, <3>1 DEF Requeues, Hands
    <3>3. \A r \in Callers : (Carried(r)' <=> Carried(r) /\ r # q) /\ (Completed(r)' <=> Completed(r) \/ r = q)
      BY <1>2, <1>3, <1>4, <3>2 DEF Carried, Completed
    <3>4. CarriedOnce'
      BY <1>2, <1>3, <3>2 DEF Requests, CarriedOnce
    <3>5. CompletedOnce'
      BY <1>1, <1>2, <3>2 DEF Requests, CompletedOnce, Completed
    <3>6. call[q].pc # "stop"
      BY <1>1, <1>4 DEF Starts, OwnerWaits
    <3>7. Stages'
      BY <1>1, <1>2, <1>6, <2>1, <2>3, <3>3, <3>6 DEF Requests, Stages
    <3>8. KeepsCarried
      BY <2>1, <3>3 DEF KeepsCarried, Remembers
    <3> QED
      BY <1>7, <2>1, <2>2, <2>3, <3>1, <3>4, <3>5, <3>7, <3>8 DEF Requests
  <2>4. CASE hand' = hand /\ pending' = pending
    <3>1. \A d, r : (Requeues(d, r)' <=> Requeues(d, r)) /\ (Hands(d, r)' <=> Hands(d, r))
      BY <2>4, HandSame
    <3>2. \A r \in Callers : (Carried(r)' <=> Carried(r) /\ r # q) /\ (Completed(r)' <=> Completed(r))
      BY <1>2, <1>3, <1>4, <3>1 DEF Carried, Completed
    <3>3. CarriedOnce'
      BY <1>2, <1>3, <3>1 DEF Requests, CarriedOnce
    <3>4. CompletedOnce'
      BY <1>2, <3>1 DEF Requests, CompletedOnce
    <3>5. Stages'
      BY <1>1, <1>2, <2>1, <2>4, <3>2 DEF Requests, Stages
    <3>6. KeepsCarried
      BY <2>1, <3>2 DEF KeepsCarried, Remembers
    <3> QED
      BY <1>6, <1>7, <2>1, <2>2, <2>4, <3>3, <3>4, <3>5, <3>6 DEF Requests
  <2> QED
    BY <1>8, <1>9, <2>3, <2>4 DEF Taken
<1> QED
  BY <1>8, <1>9 DEF Taken

LEMMA WorkKinds ==
    ASSUME NEW w \in Works
    PROVE  \/ \E q \in Callers : w = Work("migrate", q) /\ w.kind = "migrate" /\ w.of = q
           \/ \E d \in CPUs : w = Work("exec", d) /\ w.kind = "exec" /\ w.of = d
           \/ w = Work("push", None) /\ w.kind = "push"
           \/ w = Work("balance", None) /\ w.kind = "balance"
  BY DEF Works, Work

LEMMA StopCore ==
    ASSUME ACore, NEW c \in CPUs, Stop(c)
    PROVE  ACore' /\ KeepsCarried /\ UNCHANGED <<hp, kthread>> /\ (hp.pc = "none" => mask' = mask)
<1> USE DEF ACore
<1>1. /\ run[c] = "stop" /\ hand[c] = None /\ works[c] # <<>>
      /\ works' = [works EXCEPT ![c] = Tail(@)]
      /\ UNCHANGED <<kthread, pin, disabled, enabling, run, call, active, online, balance_push,
                     nr_pinned, rq_online, hp, tick, twork>>
  BY DEF Stop, cpus
<1>2. PICK w : w = Head(works[c])
  OBVIOUS
<1>3. /\ works' \in [CPUs -> Seq(Works)] /\ w \in Works
      /\ \A r \in Callers : w = Work("migrate", r) => HasWork(c, r)
      /\ \A d \in CPUs, r \in Callers :
            HasWork(d, r)' <=> HasWork(d, r) /\ ~(d = c /\ w = Work("migrate", r))
      /\ \A d \in CPUs : HasPush(d)' <=> HasPush(d) /\ ~(d = c /\ w = Work("push", None))
      /\ \A d \in CPUs : HasBalance(d)' <=> HasBalance(d) /\ ~(d = c /\ w = Work("balance", None))
      /\ \A d \in CPUs : NoRepeat(d) => NoRepeat(d)'
  <2>1. works \in [CPUs -> Seq(Works)] /\ NoRepeat(c)
    BY DEF Typing, QueuesOK
  <2>2. works[c] # <<>> /\ works' = [works EXCEPT ![c] = Tail(@)]
    BY <1>1
  <2> HIDE DEF ACore
  <2> QED
    BY <1>2, <2>1, <2>2, WorksTail, Zenon
<1>4. SUFFICES /\ StopFrame(c) /\ Requests' /\ KeepsCarried /\ req' \in [Callers -> ReqRec]
               /\ pending' \in Callers \cup {None} /\ hand' \in [CPUs -> Afterwards \cup {None}]
               /\ Head(works[c]).kind = "push" => w = Work("push", None)
  <2>1. Typing'
    BY <1>1, <1>3, <1>4 DEF StopFrame, Typing
  <2>2. RunsHere'
    BY <1>1, <1>4 DEF StopFrame, RunsHere, Typing
  <2>3. HotplugOK' /\ TickOK'
    BY <1>1, KeepHotplug, KeepTick
  <2>4. enabling # None => cpu' = cpu /\ cpu # c
    BY <1>1, <1>4 DEF RunsHere, StopFrame
  <2>5. QueuesOK'
    BY <1>1, <1>3, <1>4, <2>4 DEF StopFrame, QueuesOK
  <2> QED
    BY <1>1, <1>4, <2>1, <2>2, <2>3, <2>5 DEF StopFrame
<1>5. CASE \E q \in Callers : w = Work("migrate", q) /\ w.kind = "migrate" /\ w.of = q
  <2>1. PICK q \in Callers : w = Work("migrate", q) /\ w.kind = "migrate" /\ w.of = q
    BY <1>5
  <2>2. MigrationCpuStop(c, q, mask)
    BY <1>2, <2>1 DEF Stop
  <2>3. HasWork(c, q) /\ pending = q
    BY <1>3, <2>1 DEF Requests, Stages, Carried, Queued
  <2>4. StopFrame(c)
    BY <2>2, MigrationCpuStopFrame DEF Typing
  <2>5. Taken(c, q)
    BY <1>1, <2>2, <2>3, MigrationCpuStopTakes
  <2>6. \A d \in CPUs, r \in Callers : HasWork(d, r)' <=> HasWork(d, r) /\ ~(d = c /\ r = q)
    BY <1>3, <2>1, WorkIs
  <2> QED
    BY <1>1, <1>2, <2>1, <2>3, <2>4, <2>5, <2>6, TakenRequests
<1>6. CASE \E d \in CPUs : w = Work("exec", d) /\ w.kind = "exec" /\ w.of = d
  <2>1. PICK d \in CPUs : w = Work("exec", d) /\ w.kind = "exec" /\ w.of = d
    BY <1>6
  <2>2. MigrationCpuStop(c, None, {d})
    BY <1>2, <2>1 DEF Stop
  <2>3. StopFrame(c)
    BY <2>2, MigrationCpuStopFrame
  <2>4. hand' = hand /\ req' = req /\ pending' = pending
    BY <1>1, <2>2 DEF MigrationCpuStop, Typing
  <2>5. \A e \in CPUs, r \in Callers : HasWork(e, r)' <=> HasWork(e, r)
    BY <1>3, <2>1, WorkIs
  <2> QED
    BY <1>1, <1>2, <2>1, <2>3, <2>4, <2>5, KeepRequests DEF Typing
<1>7. CASE w = Work("push", None) /\ w.kind = "push"
  <2>1. PushCpuStop(c)
    BY <1>2, <1>7 DEF Stop
  <2>2. StopFrame(c)
    BY <1>2, <1>7, <2>1, PushCpuStopFrame
  <2>3. hand' = hand /\ req' = req /\ pending' = pending
    BY <2>1 DEF PushCpuStop
  <2>4. \A e \in CPUs, r \in Callers : HasWork(e, r)' <=> HasWork(e, r)
    BY <1>3, <1>7, WorkIs
  <2> QED
    BY <1>1, <1>7, <2>2, <2>3, <2>4, KeepRequests DEF Typing
<1>8. CASE w = Work("balance", None) /\ w.kind = "balance"
  <2>1. BalancePushCpuStop(c)
    BY <1>2, <1>8 DEF Stop
  <2>2. StopFrame(c)
    BY <2>1, BalancePushCpuStopFrame
  <2>3. hand' = hand /\ req' = req /\ pending' = pending
    BY <2>1 DEF BalancePushCpuStop
  <2>4. \A e \in CPUs, r \in Callers : HasWork(e, r)' <=> HasWork(e, r)
    BY <1>3, <1>8, WorkIs
  <2> QED
    BY <1>1, <1>2, <1>8, <2>2, <2>3, <2>4, KeepRequests DEF Typing
<1> QED
  BY <1>3, <1>5, <1>6, <1>7, <1>8, WorkKinds
--------------------------------------------------------------------------------
(* Core: migrate_enable *)

\* What migrate_enable does under the locks: it may have p moved, complete the request that is
\* pending, or have p pushed away.
EnableLocked(moves, complete, pushes) ==
    /\ moves => pending # None /\ ~complete /\ ~pushes
    /\ complete => pending # None /\ ~req[pending].stop_pending
    /\ pushes => cpu \notin push_busy
    /\ disabled > 1 => ~moves /\ ~complete /\ ~pushes
    /\ pending' = IF complete THEN None ELSE pending
    /\ req' = IF moves THEN [req EXCEPT ![pending].stop_pending = TRUE] ELSE req
    /\ push_busy' = IF pushes THEN push_busy \cup {cpu} ELSE push_busy
    /\ disabled' = IF disabled > 1 THEN disabled - 1 ELSE disabled
    /\ enabling' = IF disabled > 1 THEN None
                   ELSE [stop |-> IF moves /\ ~req[pending].stop_pending THEN pending ELSE None,
                         done |-> IF complete THEN pending ELSE None, push |-> pushes]

LEMMA MigrateEnableDoes ==
    ASSUME MigrateEnable, Typing
    PROVE  /\ \E moves, complete, pushes \in BOOLEAN : EnableLocked(moves, complete, pushes)
           /\ run[cpu] = "p" /\ enabling = None /\ disabled > 0
           /\ pin' \in {pin, None} /\ mdf_push' \in {mdf_push, FALSE}
           /\ warn' \in SUBSET Warnings /\ known' \in SUBSET {"outside", "pinned", "refused"}
           /\ UNCHANGED <<kthread, cpu, on_rq, mask, run, works, hand, call, active, online,
                          balance_push, nr_pinned, rq_online, hp, tick, twork>>
<1> DEFINE sets == disabled = 1 /\ pin # None /\ mask \cap online # {}
           here == cpu \in mask
           pushes == sets /\ here /\ mdf_push /\ cpu \notin push_busy
           complete == sets /\ here /\ ReleasesWaiters
           moves == sets /\ ~here /\ pending # None
<1>1. /\ run[cpu] = "p" /\ enabling = None /\ disabled > 0
      /\ UNCHANGED <<kthread, cpu, on_rq, mask, run, works, hand, call, active, online,
                     balance_push, nr_pinned, rq_online, hp, tick, twork>>
  BY DEF MigrateEnable, cpus
<1>2. /\ disabled' = (IF disabled > 1 THEN disabled - 1 ELSE disabled)
      /\ pin' = (IF sets THEN None ELSE pin)
      /\ push_busy' = (IF pushes THEN push_busy \cup {cpu} ELSE push_busy)
      /\ pending' = (IF complete THEN None ELSE pending)
      /\ mdf_push' = (IF moves THEN FALSE ELSE mdf_push)
      /\ req' = (IF moves THEN [req EXCEPT ![pending].stop_pending = TRUE] ELSE req)
      /\ Warn(IF sets /\ ~here /\ pending = None THEN {"affine_move_task: no pending"} ELSE {})
      /\ known' = (IF disabled = 1 /\ pin # None /\ ~sets THEN known \cup {"pinned"} ELSE known)
      /\ enabling' = (IF disabled > 1 THEN None
                      ELSE [stop |-> IF moves /\ ~req[pending].stop_pending THEN pending ELSE None,
                            done |-> IF complete THEN pending ELSE None, push |-> pushes])
  BY DEF MigrateEnable, StartsStop
<1>3. /\ moves => pending # None /\ ~complete /\ ~pushes
      /\ complete => pending # None /\ ~req[pending].stop_pending
      /\ pushes => cpu \notin push_busy
      /\ disabled > 1 => ~moves /\ ~complete /\ ~pushes
  BY DEF ReleasesWaiters
<1>4. /\ pin' \in {pin, None} /\ mdf_push' \in {mdf_push, FALSE}
      /\ warn' \in SUBSET Warnings /\ known' \in SUBSET {"outside", "pinned", "refused"}
  BY <1>2 DEF Warn, Warnings, Typing
<1>5. moves \in BOOLEAN /\ complete \in BOOLEAN /\ pushes \in BOOLEAN
  BY DEF ReleasesWaiters, Typing
<1> HIDE DEF moves, complete, pushes
<1>6. EnableLocked(moves, complete, pushes)
  BY <1>2, <1>3 DEF EnableLocked
<1> QED
  BY <1>1, <1>4, <1>5, <1>6

LEMMA MigrateEnableCore ==
    ASSUME ACore, MigrateEnable
    PROVE  ACore' /\ KeepsCarried /\ UNCHANGED <<mask, hp, kthread>>
<1> USE DEF ACore
<1>1. /\ run[cpu] = "p" /\ enabling = None /\ disabled > 0
      /\ pin' \in {pin, None} /\ mdf_push' \in {mdf_push, FALSE}
      /\ warn' \in SUBSET Warnings /\ known' \in SUBSET {"outside", "pinned", "refused"}
      /\ UNCHANGED <<kthread, cpu, on_rq, mask, run, works, hand, call, active, online,
                     balance_push, nr_pinned, rq_online, hp, tick, twork>>
  BY MigrateEnableDoes
<1>2. PICK moves, complete, pushes \in BOOLEAN : EnableLocked(moves, complete, pushes)
  BY MigrateEnableDoes
<1>3. PICK q : q = pending
  OBVIOUS
<1>4. /\ moves => q \in Callers /\ ~complete /\ ~pushes
      /\ complete => q \in Callers /\ ~req[q].stop_pending
      /\ q \in Callers \cup {None} /\ None \notin Callers /\ None \notin Enabling
      /\ cpu \in CPUs
  BY <1>2, <1>3, AffinityAssumption, NoneAssumption DEF EnableLocked, Typing
<1>5. /\ pending' = (IF complete THEN None ELSE q) /\ pending' \in Callers \cup {None}
      /\ push_busy' = (IF pushes THEN push_busy \cup {cpu} ELSE push_busy)
      /\ push_busy' \in SUBSET CPUs
      /\ pushes => cpu \notin push_busy
  BY <1>2, <1>3, <1>4 DEF EnableLocked, Typing
<1>6. /\ req' \in [Callers -> ReqRec]
      /\ \A r \in Callers : req'[r].refs = req[r].refs /\ (req'[r].done <=> req[r].done)
      /\ \A r \in Callers : req'[r].stop_pending <=> req[r].stop_pending \/ (moves /\ r = q)
      /\ \A r \in Callers : ~(moves /\ r = q) => req'[r] = req[r]
  <2>1. req \in [Callers -> ReqRec]
    BY DEF Typing
  <2>2. CASE ~moves
    <3>1. req' = req
      BY <1>2, <2>2 DEF EnableLocked
    <3> QED
      BY <2>1, <2>2, <3>1
  <2>3. CASE moves
    <3>1. req' = [req EXCEPT ![q].stop_pending = TRUE] /\ q \in Callers
      BY <1>2, <1>3, <1>4, <2>3 DEF EnableLocked
    <3>2. (\A r \in Callers \ {q} : req'[r] = req[r]) /\ req' = [r \in Callers |-> req'[r]]
      BY <2>1, <3>1
    <3>3. req'[q] = [refs |-> req[q].refs, stop_pending |-> TRUE, done |-> req[q].done]
      BY <2>1, <3>1 DEF ReqRec
    <3>4. req'[q] \in ReqRec
      BY <2>1, <3>1, <3>3 DEF ReqRec
    <3>5. req'[q].stop_pending /\ req'[q].refs = req[q].refs /\ (req'[q].done <=> req[q].done)
      BY <3>3
    <3> QED
      BY <2>1, <2>3, <3>1, <3>2, <3>4, <3>5
  <2> QED
    BY <2>2, <2>3
<1>7. /\ disabled' \in 0..MaxNest
      /\ disabled > 1 => enabling' = None
      /\ disabled = 1 => disabled' = 1 /\ enabling' \in Enabling
            /\ enabling'.stop = (IF moves /\ ~req[q].stop_pending THEN q ELSE None)
            /\ enabling'.done = (IF complete THEN q ELSE None)
            /\ (enabling'.push <=> pushes)
  <2>1. disabled \in 0..MaxNest /\ MaxNest \in Nat
    BY AffinityAssumption DEF Typing
  <2>2. CASE disabled > 1
    BY <1>2, <2>1, <2>2 DEF EnableLocked
  <2>3. CASE disabled = 1
    <3>1. enabling' = [stop |-> IF moves /\ ~req[q].stop_pending THEN q ELSE None,
                       done |-> IF complete THEN q ELSE None, push |-> pushes]
      BY <1>2, <1>3, <2>3 DEF EnableLocked
    <3>2. disabled' = 1
      BY <1>2, <2>3 DEF EnableLocked
    <3> QED
      BY <1>4, <2>1, <2>3, <3>1, <3>2 DEF Enabling
  <2> QED
    BY <1>1, <2>1, <2>2, <2>3
<1>8. disabled = 1 \/ disabled > 1
  BY <1>1 DEF Typing
<1>9. disabled > 1 => ~moves /\ ~complete /\ ~pushes
  BY <1>2 DEF EnableLocked
<1>10. /\ \A r \in Callers : Enables(r)' <=> moves /\ ~req[q].stop_pending /\ r = q
       /\ \A r \in Callers : EnableDone(r)' <=> complete /\ r = q
       /\ \A r : ~Enables(r) /\ ~EnableDone(r)
  BY <1>1, <1>4, <1>7, <1>8, <1>9 DEF Enables, EnableDone
<1>11. Typing'
  BY <1>1, <1>5, <1>6, <1>7, <1>8 DEF Typing
<1>12. RunsHere'
  BY <1>1, <1>7, <1>8 DEF RunsHere
<1>13. HotplugOK' /\ TickOK'
  BY <1>1, KeepHotplug, KeepTick
<1>14. QueuesOK'
  <2>1. \A d \in CPUs : /\ HasPush(d)' <=> HasPush(d)
                        /\ HasBalance(d)' <=> HasBalance(d)
                        /\ NoRepeat(d)' <=> NoRepeat(d)
    BY <1>1, WorksSame
  <2>2. enabling' # None /\ enabling'.push => pushes /\ enabling'.stop = None
    BY <1>4, <1>7, <1>8
  <2> QED
    BY <1>1, <1>4, <1>5, <2>1, <2>2 DEF QueuesOK
<1>15. /\ \A d, r : (Starts(d, r)' <=> Starts(d, r)) /\ (Completes(d, r)' <=> Completes(d, r))
       /\ \A r : (OwnerWaits(r)' <=> OwnerWaits(r)) /\ Holders(r)' = Holders(r)
       /\ \A d, r : (Requeues(d, r)' <=> Requeues(d, r)) /\ (Hands(d, r)' <=> Hands(d, r))
       /\ \A d, r : HasWork(d, r)' <=> HasWork(d, r)
       /\ \A r \in Callers : Queued(r)' <=> Queued(r)
  BY <1>1, CallSame, HandSame, WorksSame DEF Queued
<1>16. \A r \in Callers : /\ Carried(r)' <=> Carried(r) \/ (moves /\ ~req[q].stop_pending /\ r = q)
                          /\ Completed(r)' <=> Completed(r) \/ (complete /\ r = q)
  BY <1>10, <1>15 DEF Carried, Completed
<1>17. q \in Callers => ~Completed(q) /\ (~req[q].stop_pending => ~Carried(q))
  BY <1>3 DEF Requests, Stages
<1>18. CarriedOnce'
  <2>1. q \in Callers /\ ~req[q].stop_pending =>
            /\ ~Queued(q) /\ (\A d \in CPUs : ~Requeues(d, q)) /\ \A d \in Callers : ~Starts(d, q)
    BY <1>17 DEF Carried
  <2> QED
    BY <1>4, <1>10, <1>15, <2>1 DEF Requests, CarriedOnce
<1>19. CompletedOnce'
  <2>1. q \in Callers => (\A d \in CPUs : ~Hands(d, q)) /\ \A d \in Callers : ~Completes(d, q)
    BY <1>17 DEF Completed
  <2> QED
    BY <1>4, <1>10, <1>15, <2>1 DEF Requests, CompletedOnce
<1>20. complete => call[q].pc # "stop" /\ OwnerWaits(q) /\ ~req[q].done
  <2>1. complete => OwnerWaits(q) /\ ~req[q].done /\ ~Carried(q)
    BY <1>3, <1>4, <1>17 DEF Requests, Stages
  <2>2. complete => ~Starts(q, q)
    BY <1>4, <2>1 DEF Carried
  <2> QED
    BY <2>1, <2>2 DEF Starts, OwnerWaits
<1>21. Stages'
  <2> SUFFICES ASSUME NEW r \in Callers
               PROVE  /\ pending' = r => OwnerWaits(r)' /\ call'[r].pc # "complete" /\ ~req'[r].done
                      /\ Carried(r)' => req'[r].stop_pending
                      /\ req'[r].stop_pending => pending' = r
                      /\ Completed(r)' => /\ OwnerWaits(r)' /\ call'[r].pc # "stop"
                                          /\ pending' # r /\ ~req'[r].done
                      /\ \A d \in Callers : call'[d].on = r /\ call'[d].waits =>
                            pending' = r \/ Completed(r)' \/ req'[r].done
    BY DEF Stages
  <2>1. pending' = r => OwnerWaits(r)' /\ call'[r].pc # "complete" /\ ~req'[r].done
    BY <1>1, <1>3, <1>4, <1>5, <1>6, <1>15 DEF Requests, Stages
  <2>2. Carried(r)' => req'[r].stop_pending
    BY <1>6, <1>16 DEF Requests, Stages
  <2>3. req'[r].stop_pending => pending' = r
    BY <1>3, <1>4, <1>5, <1>6 DEF Requests, Stages
  <2>4. Completed(r)' => /\ OwnerWaits(r)' /\ call'[r].pc # "stop"
                         /\ pending' # r /\ ~req'[r].done
    BY <1>1, <1>3, <1>4, <1>5, <1>6, <1>15, <1>16, <1>20 DEF Requests, Stages
  <2>5. \A d \in Callers : call'[d].on = r /\ call'[d].waits =>
            pending' = r \/ Completed(r)' \/ req'[r].done
    BY <1>1, <1>3, <1>5, <1>6, <1>16 DEF Requests, Stages
  <2> QED
    BY <2>1, <2>2, <2>3, <2>4, <2>5
<1>22. Counting'
  <2>1. \A r \in Callers : req'[r].refs = Cardinality(Holders(r)')
    BY <1>6, <1>15 DEF Requests, Counting
  <2>2. moves => call[q].waits
    BY <1>3, <1>4 DEF Requests, Stages, OwnerWaits
  <2>3. \A r \in Callers : ~call'[r].waits => req'[r] = NoRequest
    BY <1>1, <1>6, <2>2 DEF Requests, Counting
  <2> QED
    BY <2>1, <2>3 DEF Counting, NoRequest
<1>23. CallOK'
  BY <1>1 DEF Requests, CallOK
<1>24. KeepsCarried
  BY <1>6, <1>16 DEF KeepsCarried, Remembers
<1> QED
  BY <1>1, <1>11, <1>12, <1>13, <1>14, <1>18, <1>19, <1>21, <1>22, <1>23, <1>24 DEF Requests

LEMMA MigrateEnabledCore ==
    ASSUME ACore, MigrateEnabled
    PROVE  ACore' /\ KeepsCarried /\ SameStop /\ UNCHANGED <<mask, hp, kthread>>
<1> USE DEF ACore
<1>1. /\ enabling # None /\ disabled' = 0 /\ nr_pinned' = [nr_pinned EXCEPT ![cpu] = @ - 1]
      /\ enabling' = None
      /\ UNCHANGED <<kthread, cpu, on_rq, mask, pin, mdf_push, pending, run, hand, call,
                     active, online, balance_push, rq_online, hp, tick, twork, push_busy, warn>>
  BY DEF MigrateEnabled
<1>2. PICK q, f, push : q = enabling.stop /\ f = enabling.done /\ push = enabling.push
  OBVIOUS
<1>3. /\ q \in Callers \cup {None} /\ f \in Callers \cup {None} /\ push \in BOOLEAN
      /\ cpu \in CPUs /\ None \notin Callers
      /\ run[cpu] = "p" /\ disabled = 1 /\ cpu \in online
      /\ push => q = None /\ ~HasPush(cpu) /\ cpu \in push_busy
  BY <1>1, <1>2, AffinityAssumption DEF Typing, RunsHere, QueuesOK, Enabling
<1>4. /\ \A r \in Callers : ~Enables(r)' /\ ~EnableDone(r)'
      /\ \A r : (Enables(r) <=> r = q) /\ (EnableDone(r) <=> r = f)
  BY <1>1, <1>2 DEF Enables, EnableDone
<1>5. q \in Callers => /\ ~Queued(q) /\ (\A d \in CPUs : ~Requeues(d, q))
                       /\ (\A d \in Callers : ~Starts(d, q)) /\ Carried(q)
  BY <1>4 DEF Requests, CarriedOnce, Carried
<1>6. /\ works' \in [CPUs -> Seq(Works)] /\ known' = known
      /\ \A d \in CPUs, r \in Callers : HasWork(d, r)' <=> HasWork(d, r) \/ (d = cpu /\ r = q)
      /\ \A d \in CPUs : HasPush(d)' => HasPush(d) \/ (d = cpu /\ push)
      /\ \A d \in CPUs : HasBalance(d)' <=> HasBalance(d)
      /\ \A d \in CPUs : NoRepeat(d) => NoRepeat(d)'
  <2>1. CASE push
    <3>1. StopOneCpu(cpu, Work("push", None))
      BY <1>2, <1>3, <2>1 DEF MigrateEnabled
    <3>2. Work("push", None) \in Works /\ ~In(Work("push", None), works[cpu])
      BY <1>3, <2>1, WorkIs DEF HasPush
    <3> QED
      BY <1>3, <2>1, <3>1, <3>2, StopOneCpuEffect, WorkIs
  <2>2. CASE ~push /\ q # None
    <3>1. StopOneCpu(cpu, Work("migrate", q))
      BY <1>2, <2>2 DEF MigrateEnabled
    <3>2. q \in Callers /\ Work("migrate", q) \in Works /\ ~In(Work("migrate", q), works[cpu])
      BY <1>3, <1>5, <2>2, WorkIs DEF Queued, HasWork
    <3> QED
      BY <1>3, <2>2, <3>1, <3>2, StopOneCpuEffect, WorkIs
  <2>3. CASE ~push /\ q = None
    <3>1. works' = works /\ known' = known
      BY <1>2, <2>3 DEF MigrateEnabled
    <3> QED
      BY <1>3, <2>3, <3>1, WorksSame DEF Typing
  <2> QED
    BY <1>3, <2>1, <2>2, <2>3
<1>7. /\ req' \in [Callers -> ReqRec]
      /\ \A r \in Callers : /\ req'[r].refs = req[r].refs
                            /\ req'[r].stop_pending <=> req[r].stop_pending
                            /\ req'[r].done <=> req[r].done \/ r = f
                            /\ r # f => req'[r] = req[r]
  <2>1. req \in [Callers -> ReqRec]
    BY DEF Typing
  <2>2. CASE f = None
    <3>1. req' = req
      BY <1>2, <2>2 DEF MigrateEnabled
    <3> QED
      BY <1>3, <2>1, <2>2, <3>1
  <2>3. CASE f # None
    <3>1. req' = [req EXCEPT ![f].done = TRUE] /\ f \in Callers
      BY <1>2, <1>3, <2>3 DEF MigrateEnabled
    <3>2. (\A r \in Callers \ {f} : req'[r] = req[r]) /\ req' = [r \in Callers |-> req'[r]]
      BY <2>1, <3>1
    <3>3. req'[f] = [refs |-> req[f].refs, stop_pending |-> req[f].stop_pending, done |-> TRUE]
      BY <2>1, <3>1 DEF ReqRec
    <3>4. req'[f] \in ReqRec
      BY <2>1, <3>1, <3>3 DEF ReqRec
    <3>5. (req'[f].stop_pending <=> req[f].stop_pending) /\ req'[f].refs = req[f].refs /\ req'[f].done
      BY <3>3
    <3> QED
      BY <2>1, <3>1, <3>2, <3>4, <3>5
  <2> QED
    BY <2>2, <2>3
<1>8. disabled' \in 0..MaxNest /\ nr_pinned' \in [CPUs -> Int]
  BY <1>1, <1>3, AffinityAssumption DEF Typing
<1>9. Typing'
  BY <1>1, <1>6, <1>7, <1>8 DEF Typing
<1>10. RunsHere' /\ HotplugOK' /\ TickOK'
  BY <1>1, KeepHotplug, KeepTick DEF RunsHere
<1>11. QueuesOK'
  BY <1>1, <1>3, <1>6 DEF QueuesOK
<1>12. /\ \A d, r : (Starts(d, r)' <=> Starts(d, r)) /\ (Completes(d, r)' <=> Completes(d, r))
       /\ \A r : (OwnerWaits(r)' <=> OwnerWaits(r)) /\ Holders(r)' = Holders(r)
       /\ \A d, r : (Requeues(d, r)' <=> Requeues(d, r)) /\ (Hands(d, r)' <=> Hands(d, r))
  BY <1>1, CallSame, HandSame
<1>13. \A r \in Callers : Queued(r)' <=> Queued(r) \/ r = q
  BY <1>3, <1>6 DEF Queued
<1>14. f \in Callers => /\ Completed(f) /\ (\A d \in CPUs : ~Hands(d, f))
                        /\ \A d \in Callers : ~Completes(d, f)
  BY <1>4 DEF Requests, CompletedOnce, Completed
<1>15. \A r \in Callers : (Carried(r)' <=> Carried(r)) /\ (Completed(r)' <=> Completed(r) /\ r # f)
  BY <1>4, <1>12, <1>13, <1>14 DEF Carried, Completed
<1>16. CarriedOnce'
  BY <1>4, <1>5, <1>6, <1>12, <1>13 DEF Requests, CarriedOnce, Queued
<1>17. CompletedOnce'
  BY <1>4, <1>12 DEF Requests, CompletedOnce
<1>18. Stages'
  <2> SUFFICES ASSUME NEW r \in Callers
               PROVE  /\ pending' = r => OwnerWaits(r)' /\ call'[r].pc # "complete" /\ ~req'[r].done
                      /\ Carried(r)' => req'[r].stop_pending
                      /\ req'[r].stop_pending => pending' = r
                      /\ Completed(r)' => /\ OwnerWaits(r)' /\ call'[r].pc # "stop"
                                          /\ pending' # r /\ ~req'[r].done
                      /\ \A d \in Callers : call'[d].on = r /\ call'[d].waits =>
                            pending' = r \/ Completed(r)' \/ req'[r].done
    BY DEF Stages
  <2>1. pending' = r => OwnerWaits(r)' /\ call'[r].pc # "complete" /\ ~req'[r].done
    BY <1>1, <1>7, <1>12, <1>14 DEF Requests, Stages
  <2>2. (Carried(r)' => req'[r].stop_pending) /\ (req'[r].stop_pending => pending' = r)
    BY <1>1, <1>7, <1>15 DEF Requests, Stages
  <2>3. Completed(r)' => /\ OwnerWaits(r)' /\ call'[r].pc # "stop"
                         /\ pending' # r /\ ~req'[r].done
    BY <1>1, <1>7, <1>12, <1>15 DEF Requests, Stages
  <2>4. \A d \in Callers : call'[d].on = r /\ call'[d].waits =>
            pending' = r \/ Completed(r)' \/ req'[r].done
    BY <1>1, <1>7, <1>15 DEF Requests, Stages
  <2> QED
    BY <2>1, <2>2, <2>3, <2>4
<1>19. Counting'
  <2>1. \A r \in Callers : req'[r].refs = Cardinality(Holders(r)')
    BY <1>7, <1>12 DEF Requests, Counting
  <2>2. f \in Callers => call[f].waits
    BY <1>14 DEF Requests, Stages, OwnerWaits
  <2>3. \A r \in Callers : ~call'[r].waits => req'[r] = NoRequest
    BY <1>1, <1>7, <2>2 DEF Requests, Counting
  <2> QED
    BY <2>1, <2>3 DEF Counting, NoRequest
<1>20. CallOK'
  BY <1>1 DEF Requests, CallOK
<1>21. KeepsCarried /\ SameStop
  BY <1>7, <1>15 DEF KeepsCarried, Remembers, SameStop
<1> QED
  BY <1>1, <1>9, <1>10, <1>11, <1>16, <1>17, <1>18, <1>19, <1>20, <1>21 DEF Requests
--------------------------------------------------------------------------------
(* Core: set_cpus_allowed_ptr *)

\* Caller c joins request r and is then at pc: it starts the stopper, has p moved already and
\* completes the request, or waits.
Joins(c, r, pc, k) ==
    /\ \/ r = c /\ pending = None
       \/ r = pending /\ r # None
    /\ pc = "stop" => k \in CPUs /\ ~req[r].stop_pending /\ req'[r].stop_pending
    /\ pc # "stop" => (req'[r].stop_pending <=> req[r].stop_pending)
    /\ pc = "complete" => ~req[r].stop_pending
    /\ Busy => pc = "stop" \/ (pc = "wait" /\ req[r].stop_pending)
    /\ ~Busy /\ disabled = 0 => pc = "complete" \/ (pc = "wait" /\ req[r].stop_pending)
    /\ ~Busy /\ disabled # 0 => pc = "wait"
    /\ req' \in [Callers -> ReqRec] /\ (\A s \in Callers \ {r} : req'[s] = req[s])
    /\ req'[r].refs = req[r].refs + 1 /\ ~req'[r].done
    /\ pending' = IF pc = "complete" THEN None ELSE r
    /\ call' = [call EXCEPT ![c] = [pc |-> pc, on |-> r, cpu |-> k, waits |-> TRUE]]

\* p is on a CPU of the new mask: the request there is may be completed.
Releases(c) ==
    /\ req' = req
    /\ \/ /\ pending # None /\ ~req[pending].stop_pending /\ pending' = None
          /\ call' = [call EXCEPT ![c] = [pc |-> "complete", on |-> pending, cpu |-> None, waits |-> FALSE]]
       \/ /\ pending' = pending
          /\ call' = [call EXCEPT ![c] = NotCalling]

\* What is known of a caller that is idle.
LEMMA IdleCaller ==
    ASSUME Typing, Requests, NEW c \in Callers, call[c].pc = "idle"
    PROVE  /\ call[c].on = None /\ ~call[c].waits /\ req[c] = NoRequest /\ pending # c
           /\ ~Carried(c) /\ ~Completed(c) /\ req[c].refs = 0 /\ ~req[c].stop_pending /\ ~req[c].done
           /\ Holders(c) = {}
<1>1. call[c].on = None /\ ~call[c].waits /\ req[c] = NoRequest /\ None \notin Callers
  BY AffinityAssumption DEF Requests, CallOK, Counting
<1>2. req[c].refs = 0 /\ ~req[c].stop_pending /\ ~req[c].done
  BY <1>1 DEF NoRequest
<1>3. pending # c /\ ~Carried(c) /\ ~Completed(c)
  BY <1>1, <1>2 DEF Requests, Stages, OwnerWaits
<1>4. Holders(c) = {}
  BY <1>2, HoldersFinite DEF Requests, Counting
<1> QED
  BY <1>1, <1>2, <1>3, <1>4

LEMMA SetCpusAllowedDoes ==
    ASSUME Typing, Requests, NEW c \in Callers, NEW m \in SUBSET CPUs, SetCpusAllowed(c, m)
    PROVE  \/ cpu \in m /\ Releases(c)
           \/ \E r \in Callers, pc \in {"stop", "wait", "complete"}, k \in CPUs \cup {None} :
                cpu \notin m /\ Joins(c, r, pc, k)
<1> DEFINE r == Joined(c)
           here == cpu \in m
           moved == ~here /\ ~Busy /\ disabled = 0
           complete == IF here THEN ReleasesWaiters ELSE moved /\ ~Install(c)[r].stop_pending
           starts == ~here /\ Busy /\ StartsStop(Install(c)[r])
<1>1. /\ call[c].pc = "idle"
      /\ req' = CASE here -> req
                  [] ~here /\ Busy -> [Install(c) EXCEPT ![r].stop_pending = TRUE]
                  [] OTHER -> Install(c)
      /\ pending' = IF complete THEN None ELSE IF here THEN pending ELSE r
      /\ call' = [call EXCEPT ![c] =
                [pc |-> CASE complete -> "complete" [] starts -> "stop"
                          [] OTHER -> IF here THEN "idle" ELSE "wait",
                 on |-> IF here THEN (IF complete THEN pending ELSE None) ELSE r,
                 cpu |-> IF starts /\ ~complete THEN cpu ELSE None, waits |-> ~here]]
  BY DEF SetCpusAllowed
<1>2. CASE here
  <2>1. req' = req /\ ~starts /\ (complete <=> ReleasesWaiters)
    BY <1>1, <1>2
  <2>2. CASE complete
    <3>1. call' = [call EXCEPT ![c] = [pc |-> "complete", on |-> pending, cpu |-> None, waits |-> FALSE]]
      BY <1>1, <1>2, <2>1, <2>2
    <3> QED
      BY <1>1, <1>2, <2>1, <2>2, <3>1 DEF Releases, ReleasesWaiters
  <2>3. CASE ~complete
    <3>1. call' = [call EXCEPT ![c] = NotCalling]
      BY <1>1, <1>2, <2>1, <2>3 DEF NotCalling
    <3> QED
      BY <1>1, <1>2, <2>1, <2>3, <3>1 DEF Releases
  <2> QED
    BY <2>2, <2>3
<1>3. CASE ~here
  <2>1. PICK q \in Callers : q = r
    BY DEF Joined, Typing
  <2>2. \/ q = c /\ pending = None
        \/ q = pending /\ q # None
    BY <2>1 DEF Joined, Typing
  <2>3. /\ req \in [Callers -> ReqRec] /\ cpu \in CPUs /\ ~req[q].done
    <3>1. ~req[q].done
      BY <1>1, <2>2, IdleCaller DEF Requests, Stages
    <3> QED
      BY <3>1 DEF Typing
  <2>4. PICK I : I = Install(c)
    OBVIOUS
  <2>5. /\ I \in [Callers -> ReqRec] /\ (\A t \in Callers \ {q} : I[t] = req[t])
        /\ I[q].refs = req[q].refs + 1 /\ ~I[q].done
        /\ I[q].stop_pending <=> req[q].stop_pending
    <3>1. CASE q = c /\ pending = None
      <4>1. I = [req EXCEPT ![c] = [NoRequest EXCEPT !.refs = 1]]
        BY <2>4, <3>1 DEF Install
      <4>2. NoRequest \in ReqRec
        BY DEF NoRequest, ReqRec
      <4>3. PICK n : n = [NoRequest EXCEPT !.refs = 1]
        OBVIOUS
      <4>4. n.refs = 1 /\ ~n.stop_pending /\ ~n.done
        BY <4>3 DEF NoRequest
      <4>5. n \in ReqRec
        BY <4>2, <4>3 DEF ReqRec
      <4>6. req[c].refs = 0 /\ ~req[c].stop_pending
        BY <1>1, IdleCaller
      <4>7. I \in [Callers -> ReqRec] /\ I[c] = n /\ \A t \in Callers \ {c} : I[t] = req[t]
        BY <2>3, <4>1, <4>3, <4>5
      <4> QED
        BY <3>1, <4>4, <4>6, <4>7
    <3>2. CASE q = pending /\ q # None
      <4>1. I = [req EXCEPT ![q].refs = @ + 1]
        BY <2>4, <3>2 DEF Install
      <4>2. (\A t \in Callers \ {q} : I[t] = req[t]) /\ I = [t \in Callers |-> I[t]]
        BY <2>3, <4>1
      <4>3. I[q] = [refs |-> req[q].refs + 1, stop_pending |-> req[q].stop_pending, done |-> req[q].done]
        BY <2>3, <4>1 DEF ReqRec
      <4>4. I[q] \in ReqRec
        BY <2>3, <4>3 DEF ReqRec
      <4>5. I[q].refs = req[q].refs + 1 /\ ~I[q].done /\ (I[q].stop_pending <=> req[q].stop_pending)
        BY <2>3, <4>3
      <4> QED
        BY <2>3, <4>2, <4>4, <4>5
    <3> QED
      BY <2>2, <3>1, <3>2
  <2>6. /\ starts <=> Busy /\ ~req[q].stop_pending
        /\ complete <=> ~Busy /\ disabled = 0 /\ ~req[q].stop_pending
    BY <1>3, <2>1, <2>4, <2>5 DEF StartsStop
  <2>7. req' = IF Busy THEN [I EXCEPT ![q].stop_pending = TRUE] ELSE I
    BY <1>1, <1>3, <2>1, <2>4
  <2>8. /\ pending' = IF complete THEN None ELSE q
        /\ call' = [call EXCEPT ![c] =
                [pc |-> CASE complete -> "complete" [] starts -> "stop" [] OTHER -> "wait",
                 on |-> q, cpu |-> IF starts /\ ~complete THEN cpu ELSE None, waits |-> TRUE]]
    BY <1>1, <1>3, <2>1
  <2> HIDE DEF r, here, moved, complete, starts
  <2>9. PICK pc \in {"stop", "wait", "complete"}, k \in CPUs \cup {None} :
            /\ pc = "complete" <=> complete
            /\ pc = "stop" <=> starts
            /\ pc = "stop" => k \in CPUs
            /\ call' = [call EXCEPT ![c] = [pc |-> pc, on |-> q, cpu |-> k, waits |-> TRUE]]
    <3>1. CASE complete
      BY <2>6, <2>8, <3>1
    <3>2. CASE starts
      BY <2>3, <2>6, <2>8, <3>2
    <3>3. CASE ~complete /\ ~starts
      BY <2>8, <3>3
    <3> QED
      BY <3>1, <3>2, <3>3
  <2>10. /\ req' \in [Callers -> ReqRec] /\ (\A t \in Callers \ {q} : req'[t] = req[t])
         /\ req'[q].refs = req[q].refs + 1 /\ ~req'[q].done
         /\ req'[q].stop_pending <=> req[q].stop_pending \/ Busy
    <3>1. CASE ~Busy
      BY <2>5, <2>7, <3>1
    <3>2. CASE Busy
      <4>1. req' = [I EXCEPT ![q].stop_pending = TRUE]
        BY <2>7, <3>2
      <4>2. (\A t \in Callers \ {q} : req'[t] = I[t]) /\ req' = [t \in Callers |-> req'[t]]
        BY <2>5, <4>1
      <4>3. req'[q] = [refs |-> I[q].refs, stop_pending |-> TRUE, done |-> I[q].done]
        BY <2>5, <4>1 DEF ReqRec
      <4>4. req'[q] \in ReqRec
        BY <2>5, <4>3 DEF ReqRec
      <4>5. req'[q].refs = I[q].refs /\ (req'[q].done <=> I[q].done) /\ req'[q].stop_pending
        BY <4>3
      <4> QED
        BY <2>5, <3>2, <4>2, <4>4, <4>5
    <3> QED
      BY <3>1, <3>2
  <2>11. pending' = IF pc = "complete" THEN None ELSE q
    BY <2>8, <2>9
  <2>12. /\ pc = "stop" <=> Busy /\ ~req[q].stop_pending
         /\ pc = "complete" <=> ~Busy /\ disabled = 0 /\ ~req[q].stop_pending
    BY <2>6, <2>9
  <2>13. Joins(c, q, pc, k)
    BY <2>2, <2>9, <2>10, <2>11, <2>12 DEF Joins
  <2> QED
    BY <1>3, <2>13 DEF here
<1> QED
  BY <1>2, <1>3

LEMMA ReleasesRequests ==
    ASSUME Typing, Requests, NEW c \in Callers, call[c].pc = "idle", Releases(c),
           UNCHANGED <<works, hand, enabling>>
    PROVE  /\ Requests' /\ req' \in [Callers -> ReqRec] /\ pending' \in Callers \cup {None}
           /\ call' \in [Callers -> CallRec] /\ KeepsCarried
<1>1. /\ call[c].on = None /\ ~call[c].waits /\ pending # c /\ ~Completed(c) /\ None \notin Callers
      /\ req[c] = NoRequest
  BY IdleCaller, AffinityAssumption
<1>2. PICK q : q = pending
  OBVIOUS
<1>3. /\ req' = req /\ req \in [Callers -> ReqRec] /\ q \in Callers \cup {None}
      /\ call \in [Callers -> CallRec]
  BY <1>2 DEF Releases, Typing
<1>4. /\ \A d, r : (Requeues(d, r)' <=> Requeues(d, r)) /\ (Hands(d, r)' <=> Hands(d, r))
      /\ \A r : (Enables(r)' <=> Enables(r)) /\ (EnableDone(r)' <=> EnableDone(r))
      /\ \A d, r : HasWork(d, r)' <=> HasWork(d, r)
      /\ \A r \in Callers : Queued(r)' <=> Queued(r)
  BY HandSame, EnablingSame, WorksSame DEF Queued
<1>5. PICK done \in BOOLEAN :
        /\ done => q # None /\ ~req[q].stop_pending
        /\ pending' = IF done THEN None ELSE q
        /\ call' = [call EXCEPT ![c] = IF done THEN [pc |-> "complete", on |-> q, cpu |-> None, waits |-> FALSE]
                                       ELSE [pc |-> "idle", on |-> None, cpu |-> None, waits |-> FALSE]]
  <2>1. CASE /\ pending # None /\ ~req[pending].stop_pending /\ pending' = None
             /\ call' = [call EXCEPT ![c] = [pc |-> "complete", on |-> pending, cpu |-> None, waits |-> FALSE]]
    BY <1>2, <2>1
  <2>2. CASE pending' = pending /\ call' = [call EXCEPT ![c] = NotCalling]
    BY <1>2, <2>2 DEF NotCalling
  <2> QED
    BY <2>1, <2>2 DEF Releases
<1>6. /\ call' \in [Callers -> CallRec] /\ \A d \in Callers \ {c} : call'[d] = call[d]
      /\ call'[c].on = (IF done THEN q ELSE None)
      /\ call'[c].pc = (IF done THEN "complete" ELSE "idle") /\ ~call'[c].waits
  <2>1. CASE done
    <3>1. call' = [call EXCEPT ![c] = [pc |-> "complete", on |-> q, cpu |-> None, waits |-> FALSE]]
      BY <1>5, <2>1
    <3> QED
      BY <1>3, <2>1, <3>1 DEF CallRec
  <2>2. CASE ~done
    <3>1. call' = [call EXCEPT ![c] = [pc |-> "idle", on |-> None, cpu |-> None, waits |-> FALSE]]
      BY <1>5, <2>2
    <3> QED
      BY <1>3, <2>2, <3>1 DEF CallRec
  <2> QED
    BY <2>1, <2>2
<1>7. done => /\ q \in Callers /\ ~Completed(q) /\ ~Carried(q) /\ OwnerWaits(q) /\ ~req[q].done
              /\ call[q].pc # "stop" /\ q # c
  <2>1. done => q \in Callers /\ ~Completed(q) /\ ~Carried(q) /\ OwnerWaits(q) /\ ~req[q].done
    BY <1>2, <1>3, <1>5 DEF Requests, Stages
  <2>2. done => ~Starts(q, q)
    BY <2>1 DEF Carried
  <2> QED
    BY <1>1, <1>2, <2>1, <2>2 DEF Starts, OwnerWaits
<1>8. /\ \A d \in Callers, r \in Callers : Starts(d, r)' <=> Starts(d, r)
      /\ \A d \in Callers, r \in Callers : Completes(d, r)' <=> Completes(d, r) \/ (d = c /\ r = q /\ done)
      /\ \A r \in Callers : OwnerWaits(r)' <=> OwnerWaits(r)
      /\ \A r \in Callers : Holders(r)' = Holders(r)
  <2>1. \A d \in Callers, r \in Callers :
            call'[d].on = r /\ call'[d].waits <=> call[d].on = r /\ call[d].waits
    BY <1>1, <1>6
  <2>2. \A r \in Callers : Holders(r)' = {d \in Callers : call'[d].on = r /\ call'[d].waits}
    BY DEF Holders
  <2>3. \A r \in Callers : Holders(r)' = Holders(r)
    BY <2>1, <2>2 DEF Holders
  <2>4. \A r \in Callers : OwnerWaits(r)' <=> OwnerWaits(r)
    BY <2>1 DEF OwnerWaits
  <2>5. \A d \in Callers, r \in Callers : Starts(d, r)' <=> Starts(d, r)
    BY <1>1, <1>6 DEF Starts
  <2>6. \A d \in Callers, r \in Callers : Completes(d, r)' <=> Completes(d, r) \/ (d = c /\ r = q /\ done)
    BY <1>1, <1>6 DEF Completes
  <2> QED
    BY <2>3, <2>4, <2>5, <2>6
<1>9. \A r \in Callers : (Carried(r)' <=> Carried(r)) /\ (Completed(r)' <=> Completed(r) \/ (r = q /\ done))
  BY <1>4, <1>8 DEF Carried, Completed
<1>10. CarriedOnce'
  BY <1>4, <1>8 DEF Requests, CarriedOnce
<1>11. CompletedOnce'
  <2>1. done => ~EnableDone(q) /\ (\A d \in CPUs : ~Hands(d, q)) /\ \A d \in Callers : ~Completes(d, q)
    BY <1>7 DEF Completed
  <2> QED
    BY <1>4, <1>7, <1>8, <2>1 DEF Requests, CompletedOnce
<1>12. Stages'
  <2> SUFFICES ASSUME NEW r \in Callers
               PROVE  /\ pending' = r => OwnerWaits(r)' /\ call'[r].pc # "complete" /\ ~req'[r].done
                      /\ Carried(r)' => req'[r].stop_pending
                      /\ req'[r].stop_pending => pending' = r
                      /\ Completed(r)' => /\ OwnerWaits(r)' /\ call'[r].pc # "stop"
                                          /\ pending' # r /\ ~req'[r].done
                      /\ \A d \in Callers : call'[d].on = r /\ call'[d].waits =>
                            pending' = r \/ Completed(r)' \/ req'[r].done
    BY DEF Stages
  <2>1. pending' = r => OwnerWaits(r)' /\ call'[r].pc # "complete" /\ ~req'[r].done
    BY <1>1, <1>2, <1>3, <1>5, <1>6, <1>8 DEF Requests, Stages
  <2>2. (Carried(r)' => req'[r].stop_pending) /\ (req'[r].stop_pending => pending' = r)
    BY <1>2, <1>3, <1>5, <1>9 DEF Requests, Stages
  <2>3. Completed(r)' => /\ OwnerWaits(r)' /\ call'[r].pc # "stop"
                         /\ pending' # r /\ ~req'[r].done
    BY <1>1, <1>2, <1>3, <1>5, <1>6, <1>7, <1>8, <1>9 DEF Requests, Stages
  <2>4. \A d \in Callers : call'[d].on = r /\ call'[d].waits =>
            pending' = r \/ Completed(r)' \/ req'[r].done
    BY <1>2, <1>3, <1>5, <1>6, <1>9 DEF Requests, Stages
  <2> QED
    BY <2>1, <2>2, <2>3, <2>4
<1>13. Counting'
  <2>1. \A r \in Callers : req'[r].refs = Cardinality(Holders(r)')
    BY <1>3, <1>8 DEF Requests, Counting
  <2>2. \A r \in Callers : ~call'[r].waits => req'[r] = NoRequest
    BY <1>1, <1>3, <1>6 DEF Requests, Counting
  <2> QED
    BY <2>1, <2>2 DEF Counting, NoRequest
<1>14. CallOK'
  BY <1>5, <1>6 DEF Requests, CallOK
<1>15. KeepsCarried
  BY <1>3, <1>9 DEF KeepsCarried, Remembers
<1> QED
  BY <1>3, <1>5, <1>6, <1>10, <1>11, <1>12, <1>13, <1>14, <1>15 DEF Requests

LEMMA JoinsRequests ==
    ASSUME Typing, Requests, NEW c \in Callers, call[c].pc = "idle", NEW q \in Callers,
           NEW pc \in {"stop", "wait", "complete"}, NEW k \in CPUs \cup {None}, Joins(c, q, pc, k),
           UNCHANGED <<works, hand, enabling>>
    PROVE  /\ Requests' /\ req' \in [Callers -> ReqRec] /\ pending' \in Callers \cup {None}
           /\ call' \in [Callers -> CallRec] /\ KeepsCarried
<1>1. /\ call[c].on = None /\ ~call[c].waits /\ pending # c /\ ~Completed(c) /\ None \notin Callers
      /\ req[c] = NoRequest /\ ~Carried(c) /\ ~req[c].done /\ Holders(c) = {} /\ ~req[c].stop_pending
  BY IdleCaller, AffinityAssumption
<1>2. /\ \/ q = c /\ pending = None
         \/ q = pending
      /\ pc = "stop" => k \in CPUs /\ ~req[q].stop_pending /\ req'[q].stop_pending
      /\ pc # "stop" => (req'[q].stop_pending <=> req[q].stop_pending)
      /\ pc = "complete" => ~req[q].stop_pending
      /\ req' \in [Callers -> ReqRec] /\ (\A s \in Callers \ {q} : req'[s] = req[s])
      /\ req'[q].refs = req[q].refs + 1 /\ ~req'[q].done
      /\ pending' = IF pc = "complete" THEN None ELSE q
      /\ call' = [call EXCEPT ![c] = [pc |-> pc, on |-> q, cpu |-> k, waits |-> TRUE]]
  BY DEF Joins
<1>3. /\ call' \in [Callers -> CallRec] /\ (\A d \in Callers \ {c} : call'[d] = call[d])
      /\ call'[c].on = q /\ call'[c].pc = pc /\ call'[c].waits /\ call'[c].cpu = k
  <2>1. call \in [Callers -> CallRec]
    BY DEF Typing
  <2> QED
    BY <1>2, <2>1 DEF CallRec
<1>4. /\ \A d, r : (Requeues(d, r)' <=> Requeues(d, r)) /\ (Hands(d, r)' <=> Hands(d, r))
      /\ \A r : (Enables(r)' <=> Enables(r)) /\ (EnableDone(r)' <=> EnableDone(r))
      /\ \A d, r : HasWork(d, r)' <=> HasWork(d, r)
      /\ \A r \in Callers : Queued(r)' <=> Queued(r)
  BY HandSame, EnablingSame, WorksSame DEF Queued
<1>5. /\ ~Completed(q) /\ ~req[q].done /\ (~req[q].stop_pending => ~Carried(q))
      /\ q # c => OwnerWaits(q) /\ pending = q /\ call[q].pc # "complete"
  BY <1>1, <1>2 DEF Requests, Stages
<1>6. q # c /\ ~req[q].stop_pending => call[q].pc # "stop"
  BY <1>5 DEF OwnerWaits, Starts, Carried
<1>7. \A d \in Callers, r \in Callers : call'[d].on = r /\ call'[d].waits <=>
            (call[d].on = r /\ call[d].waits) \/ (d = c /\ r = q)
  BY <1>1, <1>3
<1>8. /\ \A d \in Callers, r \in Callers : Starts(d, r)' <=> Starts(d, r) \/ (d = c /\ r = q /\ pc = "stop")
      /\ \A d \in Callers, r \in Callers :
            Completes(d, r)' <=> Completes(d, r) \/ (d = c /\ r = q /\ pc = "complete")
      /\ \A r \in Callers : OwnerWaits(r)' <=> OwnerWaits(r) \/ (r = c /\ r = q)
  <2>1. \A d \in Callers, r \in Callers : Starts(d, r)' <=> Starts(d, r) \/ (d = c /\ r = q /\ pc = "stop")
    BY <1>1, <1>3 DEF Starts
  <2>2. \A d \in Callers, r \in Callers :
            Completes(d, r)' <=> Completes(d, r) \/ (d = c /\ r = q /\ pc = "complete")
    BY <1>1, <1>3 DEF Completes
  <2>3. \A r \in Callers : OwnerWaits(r)' <=> OwnerWaits(r) \/ (r = c /\ r = q)
    BY <1>7 DEF OwnerWaits
  <2> QED
    BY <2>1, <2>2, <2>3
<1>9. /\ c \notin Holders(q) /\ Holders(q)' = Holders(q) \cup {c}
      /\ \A r \in Callers \ {q} : Holders(r)' = Holders(r)
  <2>1. \A r \in Callers : Holders(r)' = {d \in Callers : call'[d].on = r /\ call'[d].waits}
    BY DEF Holders
  <2>2. \A r \in Callers \ {q} : Holders(r)' = Holders(r)
    BY <1>7, <2>1 DEF Holders
  <2>3. Holders(q)' = Holders(q) \cup {c}
    BY <1>7, <2>1 DEF Holders
  <2> QED
    BY <1>1, <2>2, <2>3 DEF Holders
<1>10. \A r \in Callers : /\ Carried(r)' <=> Carried(r) \/ (r = q /\ pc = "stop")
                          /\ Completed(r)' <=> Completed(r) \/ (r = q /\ pc = "complete")
  BY <1>4, <1>8 DEF Carried, Completed
<1>11. CarriedOnce'
  <2>1. pc = "stop" => /\ ~Queued(q) /\ ~Enables(q) /\ (\A d \in CPUs : ~Requeues(d, q))
                       /\ \A d \in Callers : ~Starts(d, q)
    BY <1>2, <1>5 DEF Carried
  <2> QED
    BY <1>4, <1>8, <2>1 DEF Requests, CarriedOnce
<1>12. CompletedOnce'
  <2>1. ~EnableDone(q) /\ (\A d \in CPUs : ~Hands(d, q)) /\ \A d \in Callers : ~Completes(d, q)
    BY <1>5 DEF Completed
  <2> QED
    BY <1>4, <1>8, <2>1 DEF Requests, CompletedOnce
<1>13. Stages'
  <2> SUFFICES ASSUME NEW r \in Callers
               PROVE  /\ pending' = r => OwnerWaits(r)' /\ call'[r].pc # "complete" /\ ~req'[r].done
                      /\ Carried(r)' => req'[r].stop_pending
                      /\ req'[r].stop_pending => pending' = r
                      /\ Completed(r)' => /\ OwnerWaits(r)' /\ call'[r].pc # "stop"
                                          /\ pending' # r /\ ~req'[r].done
                      /\ \A d \in Callers : call'[d].on = r /\ call'[d].waits =>
                            pending' = r \/ Completed(r)' \/ req'[r].done
    BY DEF Stages
  <2>1. CASE r = q
    <3>1. OwnerWaits(q)'
      BY <1>5, <1>8
    <3>2. pc # "complete" => call'[q].pc # "complete"
      BY <1>3, <1>5
    <3>3. pc = "complete" => call'[q].pc # "stop"
      BY <1>2, <1>3, <1>6
    <3>4. Completed(q)' <=> pc = "complete"
      BY <1>5, <1>10
    <3>5. Carried(q)' => req'[q].stop_pending
      BY <1>2, <1>5, <1>10
    <3> QED
      BY <1>1, <1>2, <2>1, <3>1, <3>2, <3>3, <3>4, <3>5
  <2>2. CASE r # q
    <3>1. pending # r /\ pending' # r
      BY <1>1, <1>2, <2>2
    <3>2. \A d \in Callers : call'[d].on = r /\ call'[d].waits => call[d].on = r /\ call[d].waits
      BY <1>7, <2>2
    <3>3. (Carried(r)' <=> Carried(r)) /\ (Completed(r)' <=> Completed(r)) /\ req'[r] = req[r]
          /\ (OwnerWaits(r) => OwnerWaits(r)')
      BY <1>2, <1>8, <1>10, <2>2
    <3>4. Completed(r) => call'[r].pc # "stop"
      BY <1>1, <1>3 DEF Requests, Stages
    <3> QED
      BY <3>1, <3>2, <3>3, <3>4 DEF Requests, Stages
  <2> QED
    BY <2>1, <2>2
<1>14. Counting'
  <2>1. \A r \in Callers : req'[r].refs = Cardinality(Holders(r)')
    <3>1. req'[q].refs = Cardinality(Holders(q)')
      <4>1. IsFiniteSet(Holders(q))
        BY HoldersFinite
      <4>2. Cardinality(Holders(q) \cup {c}) = Cardinality(Holders(q)) + 1
        BY <1>9, <4>1, FS_AddElement
      <4>3. Cardinality(Holders(q)') = Cardinality(Holders(q)) + 1
        BY <1>9, <4>2
      <4> QED
        BY <1>2, <4>3 DEF Requests, Counting
    <3>2. \A r \in Callers \ {q} : req'[r].refs = Cardinality(Holders(r)')
      BY <1>2, <1>9 DEF Requests, Counting
    <3> QED
      BY <3>1, <3>2
  <2>2. \A r \in Callers : ~call'[r].waits => req'[r] = NoRequest
    BY <1>2, <1>3, <1>5 DEF Requests, Counting, OwnerWaits
  <2> QED
    BY <2>1, <2>2 DEF Counting, NoRequest
<1>15. CallOK'
  BY <1>1, <1>2, <1>3 DEF Requests, CallOK
<1>16. KeepsCarried
  BY <1>2, <1>10 DEF KeepsCarried, Remembers
<1> QED
  BY <1>2, <1>3, <1>11, <1>12, <1>13, <1>14, <1>15, <1>16 DEF Requests

LEMMA SetCpusAllowedCore ==
    ASSUME ACore, NEW c \in Callers, NEW m \in SUBSET CPUs, SetCpusAllowed(c, m)
    PROVE  ACore' /\ KeepsCarried /\ mask' = m /\ UNCHANGED <<hp, kthread>>
<1> USE DEF ACore
<1>1. /\ call[c].pc = "idle" /\ m # mask /\ Valid \cap m # {} /\ mask' = m
      /\ UNCHANGED <<kthread, on_rq, pin, disabled, mdf_push, enabling, run, works, hand, active,
                     online, balance_push, nr_pinned, rq_online, hp, tick, twork, push_busy, known>>
  BY DEF SetCpusAllowed, cpus
<1>2. /\ Requests' /\ req' \in [Callers -> ReqRec] /\ pending' \in Callers \cup {None}
      /\ call' \in [Callers -> CallRec] /\ KeepsCarried
  <2>1. CASE Releases(c)
    BY <1>1, <2>1, ReleasesRequests
  <2>2. CASE \E r \in Callers, pc \in {"stop", "wait", "complete"}, k \in CPUs \cup {None} :
                cpu \notin m /\ Joins(c, r, pc, k)
    BY <1>1, <2>2, JoinsRequests
  <2> QED
    BY <2>1, <2>2, SetCpusAllowedDoes
<1>3. \/ UNCHANGED <<cpu, warn>>
      \/ ~Busy /\ \E dest \in Valid \cap m : SetTaskCpu(dest)
  BY DEF SetCpusAllowed
<1>4. /\ cpu' \in CPUs /\ warn' \in SUBSET Warnings
      /\ cpu' # cpu => \A d \in CPUs : run[d] # "p"
  <2>1. CASE UNCHANGED <<cpu, warn>>
    BY <2>1 DEF Typing
  <2>2. ASSUME ~Busy, NEW dest \in Valid \cap m, SetTaskCpu(dest)
        PROVE  cpu' \in CPUs /\ warn' \in SUBSET Warnings /\ \A d \in CPUs : run[d] # "p"
    BY <2>2, SetTaskCpuTypes DEF Busy, Running
  <2> QED
    BY <1>3, <2>1, <2>2
<1>5. mask' \in SUBSET CPUs /\ mask' # {}
  BY <1>1
<1>6. Typing'
  BY <1>1, <1>2, <1>4, <1>5 DEF Typing
<1>7. enabling # None => cpu' = cpu
  BY <1>4 DEF RunsHere, Typing
<1>8. RunsHere'
  BY <1>1, <1>4, <1>7 DEF RunsHere
<1>9. HotplugOK' /\ TickOK' /\ QueuesOK'
  BY <1>1, <1>7, KeepHotplug, KeepTick, KeepQueues
<1> QED
  BY <1>1, <1>2, <1>6, <1>8, <1>9
--------------------------------------------------------------------------------
(* Core is an invariant *)

LEMMA NextCore ==
    ASSUME ACore, Next
    PROVE  ACore' /\ KeepsCarried /\ kthread' = kthread
<1>1. ASSUME NEW c \in CPUs,
             Schedule(c) \/ Stop(c) \/ StopAfterwards(c) \/ SchedExec(c) \/ RtPush(c) \/ MigrateSwap(c)
      PROVE  ACore' /\ KeepsCarried /\ kthread' = kthread
  BY <1>1, ScheduleCore, StopCore, StopAfterwardsCore, SchedExecCore, RtPushCore, MigrateSwapCore
<1>2. ASSUME TryToWakeUp \/ NoFallback \/ TtwuPending
      PROVE  ACore' /\ KeepsCarried /\ kthread' = kthread
  BY <1>2, TryToWakeUpCore, NoFallbackCore, TtwuPendingCore
<1>3. ASSUME NEW c \in Callers, CallNext(c)
      PROVE  ACore' /\ KeepsCarried /\ kthread' = kthread
  BY <1>3, CallStopCore, CallCompleteCore, CallWokenCore, CallReturnCore DEF CallNext
<1>4. ASSUME NEW c \in Callers, NEW m \in SUBSET CPUs, SetCpusAllowed(c, m)
      PROVE  ACore' /\ KeepsCarried /\ kthread' = kthread
  BY <1>4, SetCpusAllowedCore
<1>5. ASSUME MigrateDisable \/ MigrateEnable \/ MigrateEnabled
      PROVE  ACore' /\ KeepsCarried /\ kthread' = kthread
  BY <1>5, MigrateDisableCore, MigrateEnableCore, MigrateEnabledCore
<1>6. ASSUME NEW c \in HotCPUs, Deactivate(c) \/ SchedTickRemote(c)
      PROVE  ACore' /\ KeepsCarried /\ kthread' = kthread
  BY <1>6, DeactivateCore, SchedTickRemoteCore
<1>7. ASSUME TakeDown \/ BringUp
      PROVE  ACore' /\ KeepsCarried /\ kthread' = kthread
  BY <1>7, BalancePushOnCore, RqOfflineCore, CpusetCpuInactiveCore, HotplugWaitCore, DyingCore,
     StartingCore, ActivateCore DEF TakeDown, BringUp
<1> QED
  BY <1>1, <1>2, <1>3, <1>4, <1>5, <1>6, <1>7 DEF Next

\* As long as no CPU goes, only set_cpus_allowed_ptr changes the mask.
LEMMA TaskStepCore ==
    ASSUME ACore, hp.pc = "none", TaskStep
    PROVE  ACore' /\ KeepsCarried /\ UNCHANGED <<mask, hp, kthread>>
<1>1. ASSUME NEW c \in CPUs, Schedule(c) \/ Stop(c) \/ StopAfterwards(c)
      PROVE  ACore' /\ KeepsCarried /\ UNCHANGED <<mask, hp, kthread>>
  BY <1>1, ScheduleCore, StopCore, StopAfterwardsCore
<1>2. ASSUME TryToWakeUp \/ TtwuPending
      PROVE  ACore' /\ KeepsCarried /\ UNCHANGED <<mask, hp, kthread>>
  BY <1>2, TryToWakeUpCore, TtwuPendingCore
<1>3. ASSUME NEW c \in Callers, CallNext(c)
      PROVE  ACore' /\ KeepsCarried /\ UNCHANGED <<mask, hp, kthread>>
  BY <1>3, CallStopCore, CallCompleteCore, CallWokenCore, CallReturnCore DEF CallNext
<1>4. ASSUME MigrateDisable \/ MigrateEnable \/ MigrateEnabled
      PROVE  ACore' /\ KeepsCarried /\ UNCHANGED <<mask, hp, kthread>>
  BY <1>4, MigrateDisableCore, MigrateEnableCore, MigrateEnabledCore
<1> QED
  BY <1>1, <1>2, <1>3, <1>4 DEF TaskStep

LEMMA ACoreSame ==
    ASSUME ACore, UNCHANGED vars
    PROVE  ACore' /\ KeepsCarried /\ UNCHANGED <<mask, hp, kthread>>
<1> USE DEF ACore
<1>1. UNCHANGED <<kthread, cpu, on_rq, mask, pin, disabled, mdf_push, pending, enabling, run,
                  works, hand, call, req, active, online, balance_push, nr_pinned, rq_online, hp,
                  tick, twork, push_busy, warn, known>>
  BY DEF vars, p_, cpus
<1>2. Typing'
  BY <1>1 DEF Typing
<1>3. RunsHere' /\ HotplugOK' /\ TickOK' /\ QueuesOK'
  BY <1>1, KeepHotplug, KeepTick, KeepQueues DEF RunsHere
<1>4. Requests' /\ KeepsCarried
  BY <1>1, WorksSame, KeepRequests
<1> QED
  BY <1>1, <1>2, <1>3, <1>4

\* The mask was within the cpuset, or c is about to correct it.
Corrects(c) ==
    \/ setter[c].pc \in {"again", "update"} /\ setter[c].new # {}
    \/ setter[c].pc = "setting" /\ ~(setter[c].new \subseteq cpuset)

SetterRec == [pc : {"none", "again", "setting", "update", "updating"}, new : SUBSET CPUs]

LEMMA CpusetStepCore ==
    ASSUME Core, about = "cpusets", CpusetStep
    PROVE  Core'
<1>0. /\ ACore /\ cpuset \in SUBSET CPUs /\ cpuset # {} /\ setter \in [Callers -> SetterRec]
      /\ \A d \in Callers : setter[d].pc \in {"update", "updating"} => setter[d].new = cpuset
      /\ hp.pc = "none" /\ ~kthread
      /\ mask \subseteq cpuset \/ \E d \in Callers : Corrects(d)
  BY DEF Core, Setters, MaskWithinCpuset, Corrects, SetterRec
<1>1. SUFFICES /\ ACore' /\ UNCHANGED <<about, hp, kthread>> /\ cpuset' \in SUBSET CPUs /\ cpuset' # {}
               /\ setter' \in [Callers -> SetterRec]
               /\ \A d \in Callers : setter'[d].pc \in {"update", "updating"} => setter'[d].new = cpuset'
               /\ mask' \subseteq cpuset' \/ \E d \in Callers : Corrects(d)'
  BY <1>0, <1>1 DEF Core, Setters, MaskWithinCpuset, Corrects, SetterRec
<1>2. CASE TaskStep /\ UNCHANGED csvars
  <2>1. UNCHANGED <<about, cpuset, setter>>
    BY <1>2 DEF csvars
  <2>2. \A d : Corrects(d)' <=> Corrects(d)
    BY <2>1 DEF Corrects
  <2> QED
    BY <1>0, <1>2, <2>1, <2>2, TaskStepCore
<1>3. ASSUME NEW c \in Callers, NEW v \in SetterRec, setter' = [setter EXCEPT ![c] = v], UNCHANGED <<about, cpuset>>
      PROVE  /\ setter' \in [Callers -> SetterRec] /\ setter'[c] = v
             /\ \A d \in Callers \ {c} : setter'[d] = setter[d] /\ (Corrects(d)' <=> Corrects(d))
             /\ v.pc \in {"again", "update"} /\ v.new # {} => Corrects(c)'
             /\ v.pc = "setting" /\ ~(v.new \subseteq cpuset) => Corrects(c)'
  <2>1. setter' \in [Callers -> SetterRec] /\ setter'[c] = v /\ \A d \in Callers \ {c} : setter'[d] = setter[d]
    BY <1>0, <1>3
  <2> QED
    BY <1>3, <2>1 DEF Corrects
<1>4. ASSUME NEW c \in Callers, SetMask(c)
      PROVE  /\ ACore' /\ UNCHANGED <<about, hp, kthread>> /\ cpuset' \in SUBSET CPUs /\ cpuset' # {}
             /\ setter' \in [Callers -> SetterRec]
             /\ \A d \in Callers : setter'[d].pc \in {"update", "updating"} => setter'[d].new = cpuset'
             /\ mask' \subseteq cpuset' \/ \E d \in Callers : Corrects(d)'
  <2>1. PICK new : new = setter[c].new
    OBVIOUS
  <2>2. new \in SUBSET CPUs /\ setter[c].pc \in {"again", "update"} /\ UNCHANGED <<about, cpuset>>
        /\ (setter[c].pc = "update" => new = cpuset)
    BY <1>0, <1>4, <2>1 DEF SetMask, SetterRec
  <2>3. PICK waits : waits = IF setter[c].pc = "again" THEN "setting" ELSE "updating"
    OBVIOUS
  <2>4. CASE setter' = [setter EXCEPT ![c].pc = waits] /\ ((new = mask /\ UNCHANGED vars) \/ SetCpusAllowed(c, new))
    <3>1. PICK v : v = [pc |-> waits, new |-> new]
      OBVIOUS
    <3>2. v \in SetterRec /\ v.pc = waits /\ v.new = new
      BY <2>2, <2>3, <3>1 DEF SetterRec
    <3>3. setter' = [setter EXCEPT ![c] = v]
      <4>1. (\A d \in Callers \ {c} : setter'[d] = setter[d]) /\ setter' = [d \in Callers |-> setter'[d]]
        BY <1>0, <2>4
      <4>2. setter'[c] = [pc |-> waits, new |-> setter[c].new]
        BY <1>0, <2>4 DEF SetterRec
      <4> QED
        BY <1>0, <2>1, <3>1, <4>1, <4>2
    <3>4. ACore' /\ mask' = new /\ UNCHANGED <<hp, kthread>>
      BY <1>0, <2>2, <2>4, ACoreSame, SetCpusAllowedCore
    <3>5. /\ setter' \in [Callers -> SetterRec] /\ setter'[c] = v
          /\ \A d \in Callers \ {c} : setter'[d] = setter[d]
          /\ v.pc = "setting" /\ ~(v.new \subseteq cpuset) => Corrects(c)'
      BY <1>3, <2>2, <3>2, <3>3
    <3>6. mask' \subseteq cpuset' \/ \E d \in Callers : Corrects(d)'
      BY <2>2, <2>3, <3>2, <3>4, <3>5
    <3>7. \A d \in Callers : setter'[d].pc \in {"update", "updating"} => setter'[d].new = cpuset'
      BY <1>0, <2>2, <2>3, <3>2, <3>5
    <3> QED
      BY <1>0, <2>2, <3>4, <3>5, <3>6, <3>7
  <2>5. CASE new # mask /\ Valid \cap new = {} /\ setter' = [setter EXCEPT ![c] = NotSetting] /\ UNCHANGED vars
    <3>1. Valid = CPUs
      BY <1>0 DEF Valid, ACore, HotplugOK
    <3>2. new = {}
      BY <2>2, <2>5, <3>1
    <3>3. ~Corrects(c)
      BY <2>1, <2>2, <3>2 DEF Corrects
    <3>4. NotSetting \in SetterRec /\ NotSetting.pc = "none"
      BY DEF NotSetting, SetterRec
    <3>5. /\ setter' \in [Callers -> SetterRec] /\ setter'[c] = NotSetting
          /\ \A d \in Callers \ {c} : setter'[d] = setter[d] /\ (Corrects(d)' <=> Corrects(d))
      BY <1>3, <2>2, <2>5, <3>4
    <3>6. ACore' /\ UNCHANGED <<mask, hp, kthread>>
      BY <1>0, <2>5, ACoreSame
    <3>7. mask' \subseteq cpuset' \/ \E d \in Callers : Corrects(d)'
      BY <1>0, <2>2, <3>3, <3>5, <3>6
    <3>8. \A d \in Callers : setter'[d].pc \in {"update", "updating"} => setter'[d].new = cpuset'
      BY <1>0, <2>2, <3>4, <3>5
    <3> QED
      BY <1>0, <2>2, <3>5, <3>6, <3>7, <3>8
  <2> QED
    BY <1>4, <2>1, <2>3, <2>4, <2>5 DEF SetMask
<1>5. ASSUME NEW c \in Callers, Recheck(c)
      PROVE  /\ ACore' /\ UNCHANGED <<about, hp, kthread>> /\ cpuset' \in SUBSET CPUs /\ cpuset' # {}
             /\ setter' \in [Callers -> SetterRec]
             /\ \A d \in Callers : setter'[d].pc \in {"update", "updating"} => setter'[d].new = cpuset'
             /\ mask' \subseteq cpuset' \/ \E d \in Callers : Corrects(d)'
  <2>1. /\ setter[c].pc \in {"setting", "updating"} /\ UNCHANGED <<about, cpuset>> /\ UNCHANGED vars
        /\ setter' = [setter EXCEPT ![c] =
                        IF setter[c].pc = "updating" \/ setter[c].new \subseteq cpuset THEN NotSetting
                        ELSE [pc |-> "again", new |-> cpuset]]
    BY <1>5 DEF Recheck, Within
  <2>2. ACore' /\ UNCHANGED <<mask, hp, kthread>>
    BY <1>0, <2>1, ACoreSame
  <2>3. CASE setter[c].pc = "updating" \/ setter[c].new \subseteq cpuset
    <3>1. ~Corrects(c)
      BY <2>1, <2>3 DEF Corrects
    <3>2. NotSetting \in SetterRec /\ NotSetting.pc = "none"
      BY DEF NotSetting, SetterRec
    <3>3. /\ setter' \in [Callers -> SetterRec] /\ setter'[c] = NotSetting
          /\ \A d \in Callers \ {c} : setter'[d] = setter[d] /\ (Corrects(d)' <=> Corrects(d))
      BY <1>3, <2>1, <2>3, <3>2
    <3>4. mask' \subseteq cpuset' \/ \E d \in Callers : Corrects(d)'
      BY <1>0, <2>1, <2>2, <3>1, <3>3
    <3>5. \A d \in Callers : setter'[d].pc \in {"update", "updating"} => setter'[d].new = cpuset'
      BY <1>0, <2>1, <3>2, <3>3
    <3> QED
      BY <1>0, <2>1, <2>2, <3>3, <3>4, <3>5
  <2>4. CASE ~(setter[c].pc = "updating" \/ setter[c].new \subseteq cpuset)
    <3>1. PICK v : v = [pc |-> "again", new |-> cpuset]
      OBVIOUS
    <3>2. v \in SetterRec /\ v.pc = "again" /\ v.new = cpuset
      BY <1>0, <3>1 DEF SetterRec
    <3>3. /\ setter' \in [Callers -> SetterRec] /\ setter'[c] = v /\ Corrects(c)'
          /\ \A d \in Callers \ {c} : setter'[d] = setter[d]
      BY <1>0, <1>3, <2>1, <2>4, <3>1, <3>2
    <3>4. \A d \in Callers : setter'[d].pc \in {"update", "updating"} => setter'[d].new = cpuset'
      BY <1>0, <2>1, <3>2, <3>3
    <3> QED
      BY <1>0, <2>1, <2>2, <3>3, <3>4
  <2> QED
    BY <2>3, <2>4
<1>6. ASSUME NEW c \in Callers, NEW m \in SUBSET CPUs, SchedSetaffinity(c, m)
      PROVE  /\ ACore' /\ UNCHANGED <<about, hp, kthread>> /\ cpuset' \in SUBSET CPUs /\ cpuset' # {}
             /\ setter' \in [Callers -> SetterRec]
             /\ \A d \in Callers : setter'[d].pc \in {"update", "updating"} => setter'[d].new = cpuset'
             /\ mask' \subseteq cpuset' \/ \E d \in Callers : Corrects(d)'
  <2>1. PICK v : v = [pc |-> "again", new |-> m \cap cpuset]
    OBVIOUS
  <2>2. v \in SetterRec /\ v.pc = "again"
    BY <1>0, <2>1 DEF SetterRec
  <2>3. setter[c].pc = "none" /\ setter' = [setter EXCEPT ![c] = v] /\ UNCHANGED <<about, cpuset>> /\ UNCHANGED vars
    BY <1>6, <2>1 DEF SchedSetaffinity
  <2>4. ACore' /\ UNCHANGED <<mask, hp, kthread>>
    BY <1>0, <2>3, ACoreSame
  <2>5. /\ setter' \in [Callers -> SetterRec] /\ setter'[c] = v
        /\ \A d \in Callers \ {c} : setter'[d] = setter[d] /\ (Corrects(d)' <=> Corrects(d))
    BY <1>3, <2>2, <2>3
  <2>6. ~Corrects(c)
    BY <2>3 DEF Corrects
  <2>7. mask' \subseteq cpuset' \/ \E d \in Callers : Corrects(d)'
    BY <1>0, <2>3, <2>4, <2>5, <2>6
  <2>8. \A d \in Callers : setter'[d].pc \in {"update", "updating"} => setter'[d].new = cpuset'
    BY <1>0, <2>2, <2>3, <2>5
  <2> QED
    BY <1>0, <2>3, <2>4, <2>5, <2>7, <2>8
<1>7. ASSUME NEW c \in Callers, NEW m \in SUBSET CPUs, CpusetWrite(c, m)
      PROVE  /\ ACore' /\ UNCHANGED <<about, hp, kthread>> /\ cpuset' \in SUBSET CPUs /\ cpuset' # {}
             /\ setter' \in [Callers -> SetterRec]
             /\ \A d \in Callers : setter'[d].pc \in {"update", "updating"} => setter'[d].new = cpuset'
             /\ mask' \subseteq cpuset' \/ \E d \in Callers : Corrects(d)'
  <2>1. PICK v : v = [pc |-> "update", new |-> m]
    OBVIOUS
  <2>2. v \in SetterRec /\ v.pc = "update" /\ v.new = m
    BY <2>1 DEF SetterRec
  <2>3. /\ m # {} /\ cpuset' = m /\ setter' = [setter EXCEPT ![c] = v] /\ about' = about /\ UNCHANGED vars
        /\ \A d \in Callers : setter[d].pc \notin {"update", "updating"}
    BY <1>7, <2>1 DEF CpusetWrite
  <2>4. ACore' /\ UNCHANGED <<mask, hp, kthread>>
    BY <1>0, <2>3, ACoreSame
  <2>5. /\ setter' \in [Callers -> SetterRec] /\ setter'[c] = v
        /\ \A d \in Callers \ {c} : setter'[d] = setter[d]
    BY <1>0, <2>2, <2>3
  <2>6. Corrects(c)'
    BY <2>2, <2>3, <2>5 DEF Corrects
  <2>7. \A d \in Callers : setter'[d].pc \in {"update", "updating"} => setter'[d].new = cpuset'
    BY <2>2, <2>3, <2>5
  <2> QED
    BY <2>3, <2>4, <2>5, <2>6, <2>7
<1> QED
  BY <1>2, <1>4, <1>5, <1>6, <1>7 DEF CpusetStep

LEMMA CoreNext ==
    ASSUME Core, [CsNext]_allvars
    PROVE  Core'
<1>1. CASE UNCHANGED allvars
  <2>1. UNCHANGED vars /\ UNCHANGED <<about, cpuset, setter>>
    BY <1>1 DEF allvars, csvars
  <2>2. ACore' /\ UNCHANGED <<mask, hp, kthread>>
    BY <2>1, ACoreSame DEF Core
  <2> QED
    BY <2>1, <2>2 DEF Core, Setters, MaskWithinCpuset
<1>2. CASE about = "hotplug" /\ Next /\ UNCHANGED csvars
  <2>1. UNCHANGED <<about, cpuset, setter>>
    BY <1>2 DEF csvars
  <2>2. ACore' /\ kthread' = kthread
    BY <1>2, NextCore DEF Core
  <2>3. mask' \subseteq CPUs
    BY <2>2 DEF ACore, Typing
  <2>4. cpuset' = CPUs
    BY <1>2, <2>1 DEF Core, Setters
  <2>5. Setters'
    BY <1>2, <2>1 DEF Core, Setters
  <2> QED
    BY <2>2, <2>3, <2>4, <2>5 DEF Core, MaskWithinCpuset
<1>3. CASE about = "cpusets" /\ CpusetStep
  BY <1>3, CpusetStepCore
<1> QED
  BY <1>1, <1>2, <1>3 DEF CsNext

LEMMA CoreInit ==
    ASSUME CsInit
    PROVE  Core
<1>1. Init /\ about \in {"cpusets", "hotplug"} /\ (about = "cpusets" => ~kthread)
      /\ cpuset = CPUs /\ setter = [c \in Callers |-> NotSetting]
  BY DEF CsInit
<1>2. Typing
  <2>1. NoRequest \in ReqRec /\ NotCalling \in CallRec
    BY DEF NoRequest, ReqRec, NotCalling, CallRec
  <2>2. <<>> \in Seq(Works)
    OBVIOUS
  <2>3. /\ call \in [Callers -> CallRec] /\ req \in [Callers -> ReqRec]
        /\ works \in [CPUs -> Seq(Works)] /\ hand \in [CPUs -> Afterwards \cup {None}]
        /\ run \in [CPUs -> {"p", "idle", "stop", "hotplug", "off"}]
        /\ tick \in [CPUs -> {"OFFLINE", "OFFLINING", "RUNNING"}] /\ twork \in [CPUs -> Nat]
        /\ nr_pinned \in [CPUs -> Int]
    BY <1>1, <2>1, <2>2 DEF Init
  <2>4. /\ mask \in SUBSET CPUs /\ mask # {} /\ hp \in [cpu : CPUs \cup {None}, pc : Hotplug]
        /\ disabled \in 0..MaxNest
    BY <1>1, AffinityAssumption DEF Init, Settled, Hotplug
  <2> QED
    BY <1>1, <2>3, <2>4 DEF Typing, Init
<1>3. RunsHere /\ HotplugOK /\ TickOK
  BY <1>1, AffinityAssumption DEF Init, RunsHere, HotplugOK, TickOK, Settled
<1>4. /\ \A c \in CPUs : \A r : ~HasWork(c, r)
      /\ \A c \in CPUs : ~HasPush(c) /\ ~HasBalance(c) /\ NoRepeat(c)
  BY <1>1 DEF Init, HasWork, HasPush, HasBalance, NoRepeat, In, Distinct
<1>5. QueuesOK
  BY <1>1, <1>4 DEF QueuesOK, Init
<1>6. /\ \A c \in Callers : /\ call[c].pc = "idle" /\ call[c].on = None /\ ~call[c].waits
                            /\ req[c].refs = 0 /\ ~req[c].stop_pending /\ ~req[c].done /\ req[c] = NoRequest
      /\ None \notin Callers
  BY <1>1, AffinityAssumption DEF Init, NotCalling, NoRequest
<1>7. /\ \A c \in CPUs, r \in Callers : ~Requeues(c, r) /\ ~Hands(c, r)
      /\ \A c \in Callers, r \in Callers : ~Starts(c, r) /\ ~Completes(c, r)
      /\ \A r : ~Enables(r) /\ ~EnableDone(r)
  <2>1. \A r \in Callers : [do |-> "requeue", of |-> r] # None /\ [do |-> "complete", of |-> r] # None
    BY NoneAssumption DEF Afterwards
  <2> QED
    BY <1>1, <1>6, <2>1 DEF Init, Requeues, Hands, Starts, Completes, Enables, EnableDone
<1>8. \A r \in Callers : ~Queued(r) /\ ~Carried(r) /\ ~Completed(r) /\ Holders(r) = {}
  BY <1>4, <1>6, <1>7 DEF Queued, Carried, Completed, Holders
<1>9. CarriedOnce /\ CompletedOnce
  BY <1>4, <1>7, <1>8 DEF CarriedOnce, CompletedOnce
<1>10. Stages
  BY <1>1, <1>6, <1>8 DEF Stages, Init
<1>11. Counting
  BY <1>6, <1>8, FS_EmptySet DEF Counting
<1>12. CallOK
  BY <1>6 DEF CallOK
<1>13. Setters
  <2>1. NotSetting \in [pc : {"none", "again", "setting", "update", "updating"}, new : SUBSET CPUs]
        /\ NotSetting.pc = "none"
    BY DEF NotSetting
  <2> QED
    BY <1>1, <2>1, AffinityAssumption DEF Setters, Init, Settled
<1>14. MaskWithinCpuset
  BY <1>1 DEF Init, MaskWithinCpuset
<1> QED
  BY <1>2, <1>3, <1>5, <1>9, <1>10, <1>11, <1>12, <1>13, <1>14 DEF Core, ACore, Requests

\* However calls, wakeups, stoppers, migrate_enable and hotplug overtake each other, also
\* after one of the races this code loses: requests are carried, completed and counted as
\* Core says, and the mask is within the cpuset or about to be corrected.
THEOREM CoreInvariant == CsSpec => []Core
  BY CoreInit, CoreNext, PTL DEF CsSpec

\* A request on the stack of a caller that has returned is out of reach of everybody.
THEOREM NoUseAfterReturnCorrect == CsSpec => []NoUseAfterReturn
<1>1. ASSUME Core PROVE NoUseAfterReturn
  <2> SUFFICES ASSUME NEW r \in Callers, call[r].pc = "idle"
               PROVE  /\ pending # r
                      /\ \A c \in CPUs : Work("migrate", r) \notin QueuedWork(c)
                                            /\ (hand[c] # None => hand[c].of # r)
                      /\ \A c \in Callers : call[c].on # r
                      /\ enabling # None => r \notin {enabling.stop, enabling.done}
    BY DEF NoUseAfterReturn
  <2>1. pending # r /\ ~Carried(r) /\ ~Completed(r) /\ Holders(r) = {}
    BY <1>1, IdleCaller DEF Core, ACore
  <2>2. \A c \in CPUs : ~HasWork(c, r)
    BY <2>1 DEF Carried, Queued
  <2>3. \A c \in CPUs : Work("migrate", r) \notin QueuedWork(c)
    BY <2>2 DEF HasWork, In, QueuedWork
  <2>4. ASSUME NEW c \in CPUs, hand[c] # None PROVE hand[c].of # r
    <3>1. PICK do \in {"complete", "requeue"}, q \in Callers : hand[c] = [do |-> do, of |-> q]
      BY <1>1, <2>4 DEF Core, ACore, Typing, Afterwards
    <3> QED
      BY <2>1, <3>1 DEF Carried, Completed, Requeues, Hands
  <2>5. ASSUME NEW c \in Callers, call[c].on = r PROVE FALSE
    <3>1. ~call[c].waits
      BY <2>1, <2>5 DEF Holders
    <3>2. call[c].pc = "complete"
      BY <1>1, <2>5, <3>1, AffinityAssumption DEF Core, ACore, Requests, CallOK
    <3> QED
      BY <2>1, <2>5, <3>2 DEF Completed, Completes
  <2>6. enabling # None => r \notin {enabling.stop, enabling.done}
    BY <2>1 DEF Carried, Completed, Enables, EnableDone
  <2> QED
    BY <2>1, <2>3, <2>4, <2>5, <2>6
<1> QED
  BY <1>1, CoreInvariant, PTL

\* No work item of a stopper and no remote tick is queued twice.
THEOREM WorkOnceCorrect == CsSpec => []WorkOnce
<1>1. ASSUME Core PROVE WorkOnce
  <2>1. TickWorkOnce
    BY <1>1 DEF Core, ACore, TickOK, TickWorkOnce
  <2>2. \A c \in CPUs : \A i, j \in 1..Len(works[c]) : works[c][i] = works[c][j] => i = j
    BY <1>1 DEF Core, ACore, QueuesOK, NoRepeat, Distinct
  <2>3. ASSUME NEW c \in CPUs, NEW d \in CPUs, NEW i \in 1..Len(works[c]), NEW j \in 1..Len(works[d]),
               works[c][i] = works[d][j], works[c][i].kind = "migrate"
        PROVE  c = d /\ i = j
    <3>1. works[c] \in Seq(Works)
      BY <1>1 DEF Core, ACore, Typing
    <3>2. works[c][i] \in Works
      BY <3>1
    <3>3. PICK q \in Callers : works[c][i] = Work("migrate", q)
      BY <2>3, <3>2, WorkKinds
    <3>4. HasWork(c, q) /\ HasWork(d, q)
      BY <2>3, <3>3 DEF HasWork, In
    <3>5. c = d
      BY <1>1, <3>4 DEF Core, ACore, Requests, CarriedOnce
    <3> QED
      BY <2>2, <2>3, <3>5
  <2> QED
    BY <2>1, <2>2, <2>3 DEF WorkOnce
<1> QED
  BY <1>1, CoreInvariant, PTL

--------------------------------------------------------------------------------
(* Behaviours that are followed: which CPU p may be sent to *)

LEMMA CPUsLeft ==
    ASSUME Typing, HotplugOK
    PROVE  /\ active # {} /\ active \subseteq online /\ online \subseteq CPUs
           /\ rq_online \subseteq online /\ active \cap balance_push = {}
           /\ hp.pc # "none" => hp.cpu \in CPUs /\ hp.cpu \notin active
<1>1. CPUs # {} /\ HotCPUs \subseteq CPUs /\ rq_online \subseteq CPUs
  BY AffinityAssumption DEF Typing
<1>2. CASE hp.pc = "none"
  BY <1>1, <1>2 DEF HotplugOK
<1>3. CASE hp.pc # "none"
  <2>1. hp.cpu \in CPUs /\ CPUs # {hp.cpu} /\ active = CPUs \ {hp.cpu}
    BY <1>1, <1>3 DEF HotplugOK
  <2>2. balance_push \subseteq {hp.cpu} /\ online \in {CPUs, CPUs \ {hp.cpu}}
    BY <1>3 DEF HotplugOK
  <2>3. rq_online \subseteq online
    BY <1>1 DEF HotplugOK
  <2> QED
    BY <2>1, <2>2, <2>3
<1> QED
  BY <1>2, <1>3

LEMMA AllowedSays ==
    ASSUME Typing, HotplugOK, NEW c \in CPUs, NEW ptr
    PROVE  /\ Allowed(c, ptr) => /\ c \in ptr /\ c \in online
                                 /\ disabled = 0 /\ ~kthread => c \in active
           /\ c \in ptr /\ c \in active => Allowed(c, ptr)
           /\ c \in ptr /\ c \in online /\ disabled > 0 => Allowed(c, ptr)
<1>1. active \subseteq online /\ active \cap balance_push = {}
  BY CPUsLeft
<1>2. disabled \in Nat
  BY AffinityAssumption DEF Typing
<1>3. CASE disabled > 0
  BY <1>1, <1>2, <1>3 DEF Allowed
<1>4. CASE disabled = 0 /\ ~kthread
  BY <1>1, <1>2, <1>4 DEF Allowed
<1>5. CASE disabled = 0 /\ kthread
  BY <1>1, <1>2, <1>5 DEF Allowed
<1> QED
  BY <1>2, <1>3, <1>4, <1>5

\* A CPU that select_task_rq may return for a p that does not run.
Selected(s) ==
    /\ s.to \in online /\ s.mask \in {mask, CPUs}
    /\ disabled > 0 => s.to = cpu /\ s.mask = mask
    /\ disabled = 0 => s.to \in s.mask /\ (~kthread => s.to \in active)

LEMMA FallbackSelects ==
    ASSUME Typing, HotplugOK, Pinning, PinnedOnline, run[cpu] # "p"
    PROVE  SelectFallbackRq # {} /\ \A s \in SelectFallbackRq : Selected(s)
<1> DEFINE near == active \cap cpus_ptr
           allowed == {c \in CPUs : Allowed(c, cpus_ptr)}
           possible == {c \in CPUs : Allowed(c, IF pin = None THEN CPUs ELSE {pin})}
<1>1. /\ active # {} /\ active \subseteq online /\ online \subseteq CPUs
      /\ mask \subseteq CPUs /\ disabled \in Nat /\ cpu \in CPUs /\ None \notin CPUs
  <2>1. active # {} /\ active \subseteq online /\ online \subseteq CPUs
    BY CPUsLeft
  <2> QED
    BY SMTT(30), <2>1, AffinityAssumption DEF Typing
<1>2. /\ disabled > 0 => cpus_ptr = {cpu} /\ cpu \in online
      /\ disabled = 0 => cpus_ptr = mask /\ pin = None
  BY <1>1 DEF Pinning, PinnedOnline, cpus_ptr
<1>3. CASE near # {}
  <2>1. SelectFallbackRq = [to : near, mask : {mask}]
    BY <1>3 DEF SelectFallbackRq
  <2>2. SelectFallbackRq # {}
    <3>1. PICK c : c \in near
      BY <1>3
    <3>2. [to |-> c, mask |-> mask] \in SelectFallbackRq
      BY <2>1, <3>1
    <3> QED
      BY <3>2
  <2> QED
    BY <1>1, <1>2, <2>1, <2>2 DEF Selected
<1>4. CASE near = {} /\ allowed # {}
  <2>1. SelectFallbackRq = [to : allowed, mask : {mask}]
    BY <1>4 DEF SelectFallbackRq
  <2>2. SelectFallbackRq # {}
    <3>1. PICK c : c \in allowed
      BY <1>4
    <3>2. [to |-> c, mask |-> mask] \in SelectFallbackRq
      BY <2>1, <3>1
    <3> QED
      BY <3>2
  <2>3. \A c \in allowed : c \in online /\ c \in cpus_ptr /\ (disabled = 0 /\ ~kthread => c \in active)
    BY AllowedSays
  <2> QED
    BY <1>1, <1>2, <2>1, <2>2, <2>3 DEF Selected
<1>5. CASE near = {} /\ allowed = {}
  <2>1. SelectFallbackRq = [to : possible, mask : {CPUs}]
    BY <1>5 DEF SelectFallbackRq
  <2>2. disabled = 0
    BY <1>1, <1>2, <1>5, AllowedSays
  <2>3. possible = {c \in CPUs : Allowed(c, CPUs)}
    BY <1>2, <2>2
  <2>4. SelectFallbackRq # {}
    <3>1. PICK c : c \in active
      BY <1>1
    <3>2. c \in possible
      BY <1>1, <2>3, <3>1, AllowedSays
    <3>3. [to |-> c, mask |-> CPUs] \in SelectFallbackRq
      BY <2>1, <3>2
    <3> QED
      BY <3>3
  <2>5. \A c \in possible : c \in online /\ (disabled = 0 /\ ~kthread => c \in active)
    BY <2>3, AllowedSays
  <2> QED
    BY <1>1, <2>1, <2>2, <2>4, <2>5 DEF Selected
<1> QED
  BY <1>3, <1>4, <1>5

LEMMA TaskRqSelects ==
    ASSUME Typing, HotplugOK, Pinning, PinnedOnline, run[cpu] # "p"
    PROVE  SelectTaskRq # {} /\ \A s \in SelectTaskRq : Selected(s)
<1> DEFINE chosen == IF disabled = 0 /\ Cardinality(mask) > 1 THEN mask \cup {cpu} ELSE cpus_ptr
           found == [to : {c \in chosen : Allowed(c, cpus_ptr)}, mask : {mask}]
           all == \A c \in chosen : Allowed(c, cpus_ptr)
<1>1. /\ mask \subseteq CPUs /\ mask # {} /\ disabled \in Nat /\ cpu \in CPUs /\ pin \in CPUs \cup {None}
  BY AffinityAssumption DEF Typing
<1>2. /\ disabled > 0 => cpus_ptr = {cpu}
      /\ disabled = 0 => cpus_ptr = mask
      /\ chosen \subseteq CPUs /\ chosen # {}
  BY <1>1, AffinityAssumption DEF Pinning, cpus_ptr
<1>3. SelectTaskRq = found \cup (IF all THEN {} ELSE SelectFallbackRq)
  BY DEF SelectTaskRq
<1> HIDE DEF chosen
<1>4. \A s \in found : Selected(s)
  <2>1. \A c \in chosen : Allowed(c, cpus_ptr) =>
            c \in online /\ c \in cpus_ptr /\ (disabled = 0 /\ ~kthread => c \in active)
    BY <1>2, AllowedSays
  <2> QED
    BY <1>1, <1>2, <2>1 DEF Selected
<1>5. CASE all
  <2>1. PICK c : c \in chosen
    BY <1>2
  <2>2. [to |-> c, mask |-> mask] \in found
    BY <1>5, <2>1
  <2> QED
    BY <1>3, <1>4, <1>5, <2>2
<1>6. CASE ~all
  BY <1>3, <1>4, <1>6, FallbackSelects
<1> QED
  BY <1>5, <1>6

\* set_task_cpu gives no warning when p may be moved and the CPU is there.
LEMMA SetTaskCpuQuiet ==
    ASSUME NEW c \in online, SetTaskCpu(c), disabled = 0
    PROVE  cpu' = c /\ warn' = warn
<1>1. /\ cpu' = c
      /\ warn' = warn \cup {w \in {"set_task_cpu: offline", "set_task_cpu: migration disabled"} :
                                \/ w = "set_task_cpu: offline" /\ c \notin online
                                \/ w = "set_task_cpu: migration disabled" /\ disabled > 0}
  BY DEF SetTaskCpu, Warn
<1>2. ~(disabled > 0)
  OBVIOUS
<1> QED
  BY <1>1, <1>2

--------------------------------------------------------------------------------
(* Behaviours that are followed: what steps have in common *)

LEMMA SoundTypes ==
    ASSUME Sound
    PROVE  /\ ACore /\ Typing /\ RunsHere /\ HotplugOK /\ disabled \in Nat /\ cpu \in CPUs
           /\ \A d \in CPUs : HasBalance(d) => run[d] = "stop"
<1>1. ACore /\ Typing /\ RunsHere /\ HotplugOK /\ QueuesOK
  BY DEF Sound, ACore
<1>2. disabled \in Nat /\ cpu \in CPUs
  BY <1>1, AffinityAssumption DEF Typing
<1>3. \A d \in CPUs : HasBalance(d) => run[d] = "stop"
  BY <1>1 DEF QueuesOK
<1> QED
  BY <1>1, <1>2, <1>3

\* Steps that leave p and hotplug alone.
LEMMA GoodFrame ==
    ASSUME Sound, UNCHANGED <<kthread, cpu, on_rq, mask, pin, disabled, pending, enabling, run,
                              nr_pinned, hp, online, warn>>,
           SameStop, \A d \in CPUs : HasBalance(d)' <=> HasBalance(d),
           \A d \in CPUs : d \notin online => works'[d] = works[d] /\ hand'[d] \in {hand[d], None}
    PROVE  Good'
<1>1. Pinning'
  BY DEF Sound, Strong, Pinning
<1>2. Left'
  BY DEF Sound, Strong, Left, SameStop
<1>3. Leaving'
  BY DEF Sound, Strong, Leaving, Vacated
<1>4. Counted'
  BY DEF Sound, Counted
<1>5. Warned' /\ PinnedOnline'
  BY DEF Sound, Followed, Warned, PinnedOnline
<1> QED
  BY <1>1, <1>2, <1>3, <1>4, <1>5 DEF Good, Strong

\* Steps that move p, wake it or complete a request.
LEMMA GoodMove ==
    ASSUME Sound, UNCHANGED <<kthread, pin, disabled, enabling, run, nr_pinned, hp, online, warn>>,
           disabled > 0 => cpu' = cpu,
           on_rq' = "waking" => (on_rq = "waking" /\ cpu' = cpu) \/ cpu' \in active,
           on_rq' = "queued" /\ ~kthread /\ disabled = 0 =>
                (cpu' = cpu /\ on_rq \in {"queued", "waking"}) \/ cpu' \in active \cup rq_online,
           known' = {} => Left',
           \A d \in CPUs : HasBalance(d)' => HasBalance(d),
           \A d \in CPUs : d \notin online => works'[d] = works[d] /\ hand'[d] = hand[d]
    PROVE  Good'
<1>0. disabled \in Nat
  BY AffinityAssumption DEF Sound, ACore, Typing
<1>1. Pinning'
  BY <1>0 DEF Sound, Strong, Pinning
<1>2. hp.pc \in {"rq_offline", "wait", "sleep", "empty"} =>
        /\ hp.cpu \in CPUs /\ hp.cpu \notin active \cup rq_online /\ ~(on_rq = "waking" /\ cpu = hp.cpu)
  BY CPUsLeft DEF Sound, ACore, HotplugOK, Strong, Leaving
<1>3. ASSUME hp.pc = "empty", ~kthread
      PROVE  ~(on_rq' = "queued" /\ cpu' = hp.cpu) /\ nr_pinned[hp.cpu] = 0
  <2>1. ~(on_rq = "queued" /\ cpu = hp.cpu) /\ nr_pinned[hp.cpu] = 0
    BY <1>3 DEF Sound, Strong, Leaving, Vacated
  <2>2. disabled > 0 => cpu # hp.cpu
    BY <1>2, <1>3, <2>1 DEF Sound, Counted
  <2> QED
    BY <1>0, <1>2, <1>3, <2>1, <2>2
<1>4. Leaving'
  BY <1>2, <1>3 DEF Sound, Strong, Leaving, Vacated
<1>5. Counted'
  BY <1>0 DEF Sound, Counted
<1>6. Warned' /\ PinnedOnline'
  BY DEF Sound, Followed, Warned, PinnedOnline
<1> QED
  BY <1>1, <1>4, <1>5, <1>6 DEF Good, Strong

\* Steps of hotplug between which p stays as it is.
LEMMA GoodHotplug ==
    ASSUME Sound, UNCHANGED <<kthread, cpu, on_rq, mask, pin, disabled, pending, enabling, run,
                              works, hand, req, nr_pinned, online, warn, known>>,
           NEW k, NEW pc, hp'.cpu = k, hp'.pc = pc,
           pc \in {"rq_offline", "wait", "sleep", "empty"} => ~(on_rq = "waking" /\ cpu = k),
           pc = "empty" /\ ~kthread => Vacated(k),
           pc = "sleep" /\ run[k] = "idle" => nr_pinned[k] = 1
    PROVE  Good'
<1>1. Pinning'
  BY WorksSame DEF Sound, Strong, Pinning
<1>2. Left'
  BY DEF Sound, Strong, Left
<1>3. Leaving'
  BY DEF Sound, Strong, Leaving, Vacated
<1>4. Counted'
  BY DEF Sound, Counted
<1>5. Warned' /\ PinnedOnline'
  BY DEF Sound, Followed, Warned, PinnedOnline
<1> QED
  BY <1>1, <1>2, <1>3, <1>4, <1>5 DEF Good, Strong

--------------------------------------------------------------------------------
(* Behaviours that are followed: callers, stoppers and p itself *)

LEMMA CallNextGood ==
    ASSUME Sound, NEW c \in Callers, CallNext(c)
    PROVE  Good'
<1>0. ACore /\ Typing
  BY DEF Sound, ACore
<1>1. CASE CallStop(c)
  <2>1. SameStop
    BY <1>0, <1>1, CallStopCore
  <2>2. /\ StopOneCpu(call[c].cpu, Work("migrate", call[c].on)) /\ call[c].pc = "stop"
        /\ UNCHANGED <<kthread, cpu, on_rq, mask, pin, disabled, pending, enabling, run, nr_pinned, hp,
                       online, warn, hand>>
    BY <1>1 DEF CallStop, p_, cpus
  <2>3. call[c].cpu \in CPUs /\ call[c].on \in Callers /\ Work("migrate", call[c].on) \in Works
    BY <1>0, <2>2, WorkIs DEF ACore, Requests, CallOK, Typing, CallRec
  <2>4. /\ \A d \in CPUs : HasBalance(d)' <=> HasBalance(d)
        /\ \A d \in CPUs : d \notin online => works'[d] = works[d]
    BY <1>0, <2>2, <2>3, StopOneCpuEffect, WorkIs
  <2> QED
    BY <2>1, <2>2, <2>4, GoodFrame
<1>2. CASE CallComplete(c) \/ CallWoken(c) \/ CallReturn(c)
  <2>1. SameStop /\ warn' = warn
    <3>1. CASE CallComplete(c)
      BY <1>0, <3>1, CallCompleteCore DEF CallComplete
    <3>2. CASE CallWoken(c)
      BY <1>0, <3>2, CallWokenCore DEF CallWoken
    <3>3. CASE CallReturn(c)
      BY <1>0, <3>3, CallReturnCore
    <3> QED
      BY <1>2, <3>1, <3>2, <3>3
  <2>2. UNCHANGED <<kthread, cpu, on_rq, mask, pin, disabled, pending, enabling, run, nr_pinned, hp,
                    online, works, hand>>
    BY <1>2 DEF CallComplete, CallWoken, CallReturn, p_, cpus
  <2> QED
    BY <2>1, <2>2, WorksSame, GoodFrame
<1> QED
  BY <1>1, <1>2 DEF CallNext

LEMMA StopAfterwardsGood ==
    ASSUME Sound, NEW c \in CPUs, StopAfterwards(c)
    PROVE  Good'
<1>0. ACore /\ Typing /\ hand \in [CPUs -> Afterwards \cup {None}] /\ cpu \in CPUs
  BY DEF Sound, ACore, Typing
<1>1. SameStop
  BY <1>0, StopAfterwardsCore
<1>2. /\ hand[c] # None /\ hand' = [hand EXCEPT ![c] = None]
      /\ works' = works \/ StopOneCpu(cpu, Work("migrate", hand[c].of))
      /\ UNCHANGED <<kthread, cpu, on_rq, mask, pin, disabled, pending, enabling, run, nr_pinned, hp,
                     online, warn>>
  BY DEF StopAfterwards, p_, cpus
<1>3. \A d \in CPUs : hand'[d] \in {hand[d], None}
  BY <1>0, <1>2
<1>4. Work("migrate", hand[c].of) \in Works
  BY <1>0, <1>2, WorkIs DEF Afterwards
<1>5. /\ \A d \in CPUs : HasBalance(d)' <=> HasBalance(d)
      /\ \A d \in CPUs : d \notin online => works'[d] = works[d]
  BY <1>0, <1>2, <1>4, WorksSame, StopOneCpuEffect, WorkIs
<1> QED
  BY <1>1, <1>2, <1>3, <1>5, GoodFrame

LEMMA AsksGood ==
    ASSUME Sound, NEW c \in CPUs, SchedExec(c) \/ RtPush(c)
    PROVE  Good'
<1>0. Typing /\ cpu \in CPUs
  BY DEF Sound, ACore, Typing
<1>1. /\ \E d \in CPUs : StopOneCpu(d, Work("exec", c)) \/ StopOneCpu(d, Work("push", None))
      /\ UNCHANGED <<kthread, cpu, on_rq, mask, pin, disabled, pending, enabling, run, nr_pinned, hp,
                     online, warn, hand, req>>
  BY <1>0 DEF SchedExec, RtPush, p_, cpus
<1>2. /\ \A d \in CPUs : HasBalance(d)' <=> HasBalance(d)
      /\ \A d \in CPUs : d \notin online => works'[d] = works[d]
  BY <1>0, <1>1, StopOneCpuEffect, WorkIs
<1> QED
  BY <1>1, <1>2, GoodFrame DEF SameStop

LEMMA SchedTickRemoteGood ==
    ASSUME Sound, NEW c \in CPUs, SchedTickRemote(c)
    PROVE  Good'
<1>1. /\ twork[c] > 0 /\ Warn(IF tick[c] = "OFFLINE" THEN {"sched_tick_remote"} ELSE {})
      /\ UNCHANGED <<kthread, cpu, on_rq, mask, pin, disabled, pending, enabling, run, nr_pinned, hp,
                     online, hand, req, works>>
  BY DEF SchedTickRemote, state, p_
<1>2. tick[c] # "OFFLINE"
  BY <1>1 DEF Sound, ACore, TickOK
<1>3. warn' = warn
  BY <1>1, <1>2 DEF Warn
<1> QED
  BY <1>1, <1>3, WorksSame, GoodFrame DEF SameStop

LEMMA MigrateDisableGood ==
    ASSUME Sound, MigrateDisable
    PROVE  Good'
<1>0. /\ Typing /\ RunsHere /\ disabled \in Nat /\ cpu \in CPUs /\ nr_pinned \in [CPUs -> Int]
      /\ \A d \in CPUs : HasBalance(d) => run[d] = "stop"
  BY SoundTypes DEF Typing
<1>1. /\ run[cpu] = "p" /\ enabling = None /\ disabled' = disabled + 1
      /\ nr_pinned' = IF disabled = 0 THEN [nr_pinned EXCEPT ![cpu] = @ + 1] ELSE nr_pinned
      /\ UNCHANGED <<kthread, cpu, on_rq, mask, pin, pending, enabling, run, hp, online, hand, req,
                     works, warn, known>>
  BY DEF MigrateDisable
<1>2. on_rq = "queued" /\ cpu \in online
  BY <1>0, <1>1 DEF RunsHere
<1>3. Pinning'
  BY <1>0, <1>1, WorksSame DEF Sound, Strong, Pinning
<1>4. Left'
  BY <1>0, <1>1, <1>2 DEF Sound, Strong, Left
<1>5. \A d \in CPUs : nr_pinned'[d] = IF cpu = d THEN 1 ELSE 0
  BY <1>0, <1>1 DEF Sound, Counted
<1>6. Counted'
  BY <1>0, <1>1, <1>5, CPUsLeft DEF Sound, ACore, Counted
<1>7. Leaving'
  <2>1. hp.pc = "empty" => hp.cpu \in CPUs
    BY CPUsLeft DEF Sound, ACore
  <2> QED
    BY <1>1, <1>2, <1>5, <2>1 DEF Sound, Strong, Leaving, Vacated
<1>8. Warned' /\ PinnedOnline'
  BY <1>1, <1>2 DEF Sound, Followed, Warned, PinnedOnline
<1> QED
  BY <1>3, <1>4, <1>6, <1>7, <1>8 DEF Good, Strong

LEMMA MigrateEnabledGood ==
    ASSUME Sound, MigrateEnabled
    PROVE  Good'
<1>0. /\ Typing /\ RunsHere /\ cpu \in CPUs /\ nr_pinned \in [CPUs -> Int] /\ ACore
  BY DEF Sound, ACore, Typing
<1>1. /\ enabling # None /\ disabled' = 0 /\ nr_pinned' = [nr_pinned EXCEPT ![cpu] = @ - 1]
      /\ enabling' = None
      /\ UNCHANGED <<kthread, cpu, on_rq, mask, pin, pending, run, hp, online, hand, warn>>
  BY DEF MigrateEnabled
<1>2. run[cpu] = "p" /\ disabled = 1 /\ on_rq = "queued" /\ cpu \in online /\ pin = None
  BY <1>0, <1>1 DEF RunsHere, Sound, Strong, Pinning
<1>3. SameStop
  BY <1>0, MigrateEnabledCore
<1>4. \A d \in CPUs : d \notin online => works'[d] = works[d]
  <2>0. PICK push : push = enabling.push
    OBVIOUS
  <2>1. CASE push
    <3>1. StopOneCpu(cpu, Work("push", None))
      <4>1. enabling.stop = None
        BY <1>0, <1>1, <2>0, <2>1 DEF ACore, QueuesOK
      <4> QED
        BY <2>0, <2>1, <4>1 DEF MigrateEnabled
    <3> QED
      BY <1>0, <1>2, <3>1, StopOneCpuEffect, WorkIs
  <2>2. CASE ~push /\ enabling.stop # None
    <3>1. StopOneCpu(cpu, Work("migrate", enabling.stop))
      BY <2>0, <2>2 DEF MigrateEnabled
    <3>2. Work("migrate", enabling.stop) \in Works
      BY <1>0, <1>1, <2>2, WorkIs DEF Typing, Enabling
    <3> QED
      BY <1>0, <1>2, <3>1, <3>2, StopOneCpuEffect
  <2>3. CASE ~push /\ enabling.stop = None
    BY <2>0, <2>3 DEF MigrateEnabled
  <2> QED
    BY <2>1, <2>2, <2>3
<1>5. Pinning'
  BY <1>1, <1>2 DEF Pinning
<1>6. Left'
  BY <1>1, <1>2, <1>3 DEF Sound, Strong, Left, SameStop
<1>7. \A d \in CPUs : nr_pinned'[d] = 0
  BY <1>0, <1>1, <1>2 DEF Sound, Counted
<1>8. hp.pc # "none" => hp.cpu \in CPUs
  BY CPUsLeft DEF Sound, ACore
<1>9. hp.pc = "sleep" => run[hp.cpu] # "idle"
  BY <1>0, <1>1, <1>2, <1>7, <1>8 DEF Sound, Counted
<1>10. Counted'
  BY <1>1, <1>7, <1>9 DEF Counted
<1>11. Leaving'
  BY <1>1, <1>2, <1>4, <1>7, <1>8 DEF Sound, Strong, Leaving, Vacated
<1>12. Warned' /\ PinnedOnline'
  BY <1>1 DEF Sound, Followed, Warned, PinnedOnline
<1> QED
  BY <1>5, <1>6, <1>10, <1>11, <1>12 DEF Good, Strong

LEMMA MigrateEnableGood ==
    ASSUME Sound, MigrateEnable
    PROVE  Good'
<1>0. /\ Typing /\ RunsHere /\ cpu \in CPUs /\ disabled \in Nat /\ ACore /\ pending \in Callers \cup {None}
      /\ req \in [Callers -> ReqRec]
  BY SoundTypes DEF Typing
<1> DEFINE sets == disabled = 1 /\ pin # None /\ mask \cap online # {}
           here == cpu \in mask
           complete == sets /\ here /\ ReleasesWaiters
           moves == sets /\ ~here /\ pending # None
<1>1. /\ run[cpu] = "p" /\ enabling = None /\ disabled > 0
      /\ UNCHANGED <<kthread, cpu, on_rq, mask, run, works, hand, online, nr_pinned, hp>>
  BY DEF MigrateEnable, cpus
<1>2. /\ disabled' = (IF disabled > 1 THEN disabled - 1 ELSE disabled)
      /\ pin' = (IF sets THEN None ELSE pin)
      /\ pending' = (IF complete THEN None ELSE pending)
      /\ req' = (IF moves THEN [req EXCEPT ![pending].stop_pending = TRUE] ELSE req)
      /\ Warn(IF sets /\ ~here /\ pending = None THEN {"affine_move_task: no pending"} ELSE {})
      /\ known' = (IF disabled = 1 /\ pin # None /\ ~sets THEN known \cup {"pinned"} ELSE known)
      /\ disabled > 1 => enabling' = None
  BY DEF MigrateEnable
<1>3. disabled' > 0 /\ disabled' \in Nat /\ disabled > 0
  <2>1. disabled' = (IF disabled > 1 THEN disabled - 1 ELSE disabled)
    BY <1>2
  <2> QED
    BY <1>0, <1>1, <2>1
<1>4. here \/ pending # None
  BY <1>1 DEF Sound, Strong, Left
<1>5. warn' = warn
  BY <1>2, <1>4 DEF Warn
<1>6. known' = {} => Pinning'
  <2>1. known' = {} /\ enabling' # None => pin' = None
    <3>1. enabling' # None => disabled = 1
      <4>1. disabled > 1 => enabling' = None
        BY <1>2
      <4> QED
        BY <1>0, <1>1, <4>1
    <3> QED
      BY <1>2, <3>1
  <2>2. pin' \in {pin, None}
    BY <1>2
  <2>3. ~HasBalance(cpu)
    BY <1>0, <1>1, SoundTypes
  <2> QED
    BY <1>0, <1>1, <1>3, <2>1, <2>2, <2>3, WorksSame DEF Sound, Strong, Pinning
<1>7. known' = {} => Left'
  <2>1. here \/ pending' # None
    BY <1>2, <1>4
  <2>2. ASSUME known' = {}, NEW r \in Callers, pending' = r, ~req'[r].stop_pending
        PROVE  disabled > 1 /\ pin # None /\ pin' = pin
    <3>1. pending = r /\ ~complete /\ r # None
      BY <1>2, <2>2, AffinityAssumption
    <3>2. ~moves
      <4>1. ASSUME moves PROVE req'[r].stop_pending
        <5>1. req' = [req EXCEPT ![r].stop_pending = TRUE]
          BY <1>2, <3>1, <4>1
        <5> QED
          BY <1>0, <5>1 DEF ReqRec
      <4> QED
        BY <2>2, <4>1
    <3>3. ~req[r].stop_pending
      BY <1>2, <2>2, <3>2
    <3>4. pin # None
      BY <3>1, <3>3 DEF Sound, Strong, Left
    <3>5. ~sets
      BY <3>1, <3>2, <3>3 DEF ReleasesWaiters
    <3>6. disabled # 1
      BY <1>2, <2>2, <3>4, <3>5
    <3> QED
      BY <1>0, <1>1, <1>2, <3>4, <3>5, <3>6
  <2> QED
    BY <1>1, <1>2, <1>3, <2>1, <2>2 DEF Left
<1>8. Leaving'
  BY <1>1 DEF Sound, Strong, Leaving, Vacated
<1>9. Counted'
  BY <1>1, <1>3 DEF Sound, Counted
<1>10. Warned' /\ PinnedOnline'
  BY <1>1, <1>3, <1>5 DEF Sound, Followed, Warned, PinnedOnline
<1> QED
  BY <1>6, <1>7, <1>8, <1>9, <1>10 DEF Good, Strong

--------------------------------------------------------------------------------
(* Behaviours that are followed: CPUs that go and come *)

LEMMA TakeDownGood ==
    ASSUME Sound, TakeDown, ~Dying
    PROVE  Good'
<1>0. /\ hp \in [cpu : CPUs \cup {None}, pc : Hotplug] /\ HotplugOK
      /\ hp.pc \in {"rq_offline", "wait", "sleep", "empty"} => ~(on_rq = "waking" /\ cpu = hp.cpu)
  BY DEF Sound, ACore, Typing, Strong, Leaving
<1>1. UNCHANGED <<kthread, cpu, on_rq, mask, pin, disabled, pending, enabling, run, works, hand, req,
                  nr_pinned, online, warn, known>>
  BY DEF TakeDown, BalancePushOn, RqOffline, CpusetCpuInactive, HotplugWait, state, p_
<1>2. CASE BalancePushOn
  <2>1. hp'.cpu = hp.cpu /\ hp'.pc = "pushing"
    BY <1>0, <1>2 DEF BalancePushOn, Set
  <2> QED
    BY <1>1, <2>1, GoodHotplug
<1>3. CASE RqOffline
  <2>1. hp'.cpu = hp.cpu /\ hp'.pc = "rq_offline" /\ ~(on_rq = "waking" /\ cpu = hp.cpu)
    BY <1>0, <1>3 DEF RqOffline, Set
  <2> QED
    BY <1>1, <2>1, GoodHotplug
<1>4. CASE CpusetCpuInactive /\ hp' = [hp EXCEPT !.pc = "wait"]
  <2>1. hp'.cpu = hp.cpu /\ hp'.pc = "wait" /\ hp.pc = "rq_offline"
    BY <1>0, <1>4 DEF CpusetCpuInactive
  <2> QED
    BY <1>0, <1>1, <2>1, GoodHotplug
<1>5. CASE hp' = Settled
  <2>1. hp'.cpu = None /\ hp'.pc = "none"
    BY <1>5 DEF Settled
  <2> QED
    BY <1>1, <2>1, GoodHotplug
<1>6. CASE HotplugWait
  <2>1. hp.pc = "wait" /\ run[hp.cpu] = "hotplug"
        /\ hp' = [hp EXCEPT !.pc = IF Vacated(hp.cpu) THEN "empty" ELSE "sleep"]
    BY <1>6 DEF HotplugWait, Set
  <2>2. CASE Vacated(hp.cpu)
    <3>1. hp' = [hp EXCEPT !.pc = "empty"]
      BY <2>1, <2>2
    <3>2. hp'.cpu = hp.cpu /\ hp'.pc = "empty"
      BY <1>0, <3>1
    <3> QED
      BY <1>0, <1>1, <2>1, <2>2, <3>2, GoodHotplug
  <2>3. CASE ~Vacated(hp.cpu)
    <3>1. hp' = [hp EXCEPT !.pc = "sleep"]
      BY <2>1, <2>3
    <3>2. hp'.cpu = hp.cpu /\ hp'.pc = "sleep"
      BY <1>0, <3>1
    <3> QED
      BY <1>0, <1>1, <2>1, <3>2, GoodHotplug
  <2> QED
    BY <2>2, <2>3
<1> QED
  BY <1>2, <1>3, <1>4, <1>5, <1>6 DEF TakeDown, CpusetCpuInactive, Set

LEMMA DyingGood ==
    ASSUME Sound, Dying
    PROVE  Good'
<1>0. /\ hp \in [cpu : CPUs \cup {None}, pc : Hotplug] /\ HotplugOK /\ disabled \in Nat
      /\ run \in [CPUs -> {"p", "idle", "stop", "hotplug", "off"}] /\ cpu \in CPUs
  BY SoundTypes DEF Typing
<1>1. PICK c : c = hp.cpu
  OBVIOUS
<1>2. /\ hp.pc = "empty" /\ works[c] = <<>> /\ hand[c] = None /\ run[c] \notin {"p", "stop"}
      /\ Warn({w \in {"sched_cpu_dying", "sched_tick_stop"} :
                    \/ w = "sched_cpu_dying" /\ ~Vacated(c)
                    \/ w = "sched_tick_stop" /\ tick[c] # "RUNNING"})
      /\ hp' = [hp EXCEPT !.pc = "down"] /\ online' = online \ {c}
      /\ run' = [run EXCEPT ![c] = "off"]
      /\ UNCHANGED <<kthread, cpu, on_rq, mask, pin, disabled, pending, enabling, works, hand, req,
                     nr_pinned, known>>
  BY <1>1 DEF Dying, Set, state, p_
<1>3. /\ c \in CPUs /\ hp'.pc = "down" /\ online = CPUs
      /\ run'[c] = "off" /\ \A d \in CPUs \ {c} : run'[d] = run[d]
  BY <1>0, <1>1, <1>2, CPUsLeft, SoundTypes DEF HotplugOK
<1>4. tick[c] = "RUNNING"
  BY <1>1, <1>2, <1>3 DEF Sound, ACore, TickOK, HotplugOK
<1>5. /\ Vacated(c) => warn' = warn
      /\ ~Vacated(c) => warn' = {"sched_cpu_dying"}
  BY <1>2, <1>4 DEF Warn, Sound, Followed
<1>6. Vacated(c) \/ kthread
  BY <1>1, <1>2 DEF Sound, Strong, Leaving
<1>7. Pinning'
  BY <1>0, <1>2, <1>3, WorksSame DEF Sound, Strong, Pinning
<1>8. Left'
  BY <1>2 DEF Sound, Strong, Left
<1>9. Leaving'
  BY <1>2, <1>3 DEF Leaving
<1>10. Counted'
  BY <1>2, <1>3 DEF Sound, Counted
<1>11. Warned'
  <2>1. kthread' = kthread
    BY <1>2
  <2> QED
    BY <1>5, <1>6, <2>1 DEF Warned, Sound, Followed
<1>12. Followed' => PinnedOnline'
  <2>1. Followed' => Vacated(c)
    BY <1>5 DEF Followed
  <2>2. Vacated(c) /\ disabled > 0 => cpu # c
    BY <1>3 DEF Vacated, Sound, Counted
  <2> QED
    BY <1>0, <1>2, <1>3, <2>1, <2>2 DEF PinnedOnline
<1> QED
  BY <1>7, <1>8, <1>9, <1>10, <1>11, <1>12 DEF Good, Strong

LEMMA StartingGood ==
    ASSUME Sound, Starting
    PROVE  Good'
<1>0. /\ hp \in [cpu : CPUs \cup {None}, pc : Hotplug] /\ HotplugOK /\ ACore
      /\ run \in [CPUs -> {"p", "idle", "stop", "hotplug", "off"}] /\ cpu \in CPUs
  BY SoundTypes DEF Typing
<1>1. PICK c : c = hp.cpu
  OBVIOUS
<1>2. /\ hp.pc = "down" /\ hp' = [hp EXCEPT !.pc = "up"] /\ online' = online \cup {c}
      /\ run' = [run EXCEPT ![c] = "idle"]
      /\ UNCHANGED <<kthread, cpu, on_rq, mask, pin, disabled, pending, enabling, works, hand, req,
                     nr_pinned, known>>
  BY <1>1 DEF Starting, Set, state, p_
<1>3. /\ c \in CPUs /\ hp'.pc = "up" /\ c \notin online
      /\ run'[c] = "idle" /\ \A d \in CPUs \ {c} : run'[d] = run[d]
  BY <1>0, <1>1, <1>2, CPUsLeft, SoundTypes DEF HotplugOK
<1>4. run[c] = "off" /\ warn' = warn
  BY <1>0, <1>3, SoundTypes, StartingCore DEF RunsHere
<1>5. Pinning'
  BY <1>0, <1>2, <1>3, <1>4, WorksSame DEF Sound, Strong, Pinning
<1>6. Left'
  BY <1>2 DEF Sound, Strong, Left
<1>7. Leaving'
  BY <1>2, <1>3 DEF Sound, Strong, Leaving
<1>8. Counted'
  BY <1>2, <1>3 DEF Sound, Counted
<1>9. Warned' /\ PinnedOnline'
  BY <1>2, <1>4 DEF Sound, Followed, Warned, PinnedOnline
<1> QED
  BY <1>5, <1>6, <1>7, <1>8, <1>9 DEF Good, Strong

LEMMA SettlesGood ==
    ASSUME Sound, Activate \/ \E c \in HotCPUs : Deactivate(c)
    PROVE  Good'
<1>1. UNCHANGED <<kthread, cpu, on_rq, mask, pin, disabled, pending, enabling, run, works, hand, req,
                  nr_pinned, online, warn, known>>
  BY DEF Activate, Deactivate, state, p_
<1>2. PICK k, pc : hp'.cpu = k /\ hp'.pc = pc /\ pc \in {"none", "inactive"}
  BY DEF Activate, Deactivate, Settled
<1> QED
  BY <1>1, <1>2, GoodHotplug

--------------------------------------------------------------------------------
(* Behaviours that are followed: the scheduler and wakeups *)

LEMMA ScheduleGood ==
    ASSUME Sound, NEW c \in CPUs, Schedule(c)
    PROVE  Good'
<1>0. Typing /\ RunsHere /\ HotplugOK /\ disabled \in Nat /\ cpu \in CPUs
  BY SoundTypes
<1>1. PICK sleeps \in BOOLEAN, next \in {"p", "idle", "stop", "hotplug"} : Scheduled(c, sleeps, next)
  BY ScheduleDoes
<1>2. /\ known' = known
      /\ \A d \in CPUs \ {c} : works'[d] = works[d]
      /\ \A d \in CPUs : HasBalance(d)' <=> HasBalance(d) \/ (d = c /\ PushedAway(c, next))
  BY <1>0, <1>1, ScheduledWorks
<1>3. /\ UNCHANGED <<kthread, cpu, mask, disabled, pending, enabling, hand, req, online, nr_pinned, warn>>
      /\ on_rq' = (IF sleeps THEN "asleep" ELSE on_rq)
      /\ pin' = (IF run[c] = "p" /\ next # "p" /\ disabled > 0 /\ pin = None THEN c ELSE pin)
      /\ run[c] # "off" /\ (run[c] = "p" => enabling = None)
      /\ next = "idle" => ~(on_rq = "queued" /\ cpu = c /\ ~sleeps)
  BY <1>1 DEF Scheduled
<1>4. /\ \A d \in CPUs \ {c} : run'[d] = run[d]
      /\ run'[c] = (IF PushedAway(c, next) THEN "stop" ELSE next)
  BY <1>0, <1>1 DEF Scheduled, Typing
<1>5. run[c] = "p" => cpu = c
  BY <1>0 DEF RunsHere
<1>6. PushedAway(c, next) => disabled = 0
  BY DEF PushedAway
<1>7. Pinning'
  <2>1. disabled = 0 => pin' = None
    BY <1>0, <1>3 DEF Sound, Strong, Pinning
  <2>2. pin' \in {None, cpu}
    BY <1>3, <1>5 DEF Sound, Strong, Pinning
  <2>3. disabled > 0 /\ run'[cpu] # "p" => pin' = cpu
    BY <1>0, <1>3, <1>4, <1>5, <1>6 DEF Sound, Strong, Pinning
  <2>4. enabling # None => pin' = None
    BY <1>3 DEF Sound, Strong, Pinning
  <2>5. \A d \in CPUs : HasBalance(d)' /\ cpu = d => disabled = 0
    BY <1>2, <1>6 DEF Sound, Strong, Pinning
  <2> QED
    BY <1>3, <2>1, <2>2, <2>3, <2>4, <2>5 DEF Pinning
<1>8. Left'
  <2>1. on_rq' # "asleep" => on_rq # "asleep"
    BY <1>3
  <2>2. pin # None => pin' # None
    BY <1>3
  <2> QED
    BY <1>3, <2>1, <2>2 DEF Sound, Strong, Left
<1>9. /\ hp'.cpu = hp.cpu /\ (hp'.pc # hp.pc => hp.pc = "sleep" /\ hp'.pc = "wait" /\ IdleWakes(c, next))
      /\ IdleWakes(c, next) => hp'.pc = "wait"
  <2>1. hp \in [cpu : CPUs \cup {None}, pc : Hotplug]
    BY <1>0 DEF Typing
  <2>2. CASE IdleWakes(c, next)
    <3>1. hp.pc = "sleep" /\ hp' = [hp EXCEPT !.pc = "wait"]
      BY <1>1, <2>2 DEF Scheduled, IdleWakes
    <3> QED
      BY <2>1, <2>2, <3>1
  <2>3. CASE ~IdleWakes(c, next)
    <3>1. hp' = hp
      BY <1>1, <2>3 DEF Scheduled
    <3> QED
      BY <2>3, <3>1
  <2> QED
    BY <2>2, <2>3
<1>10. Leaving'
  <2>1. \A d \in CPUs : d \notin online => works'[d] = works[d]
    BY <1>0, <1>2, <1>3 DEF RunsHere
  <2>2. on_rq' = "waking" => on_rq = "waking"
    BY <1>3
  <2>3. on_rq' = "queued" => on_rq = "queued"
    BY <1>3
  <2> QED
    BY <1>2, <1>3, <1>9, <2>1, <2>2, <2>3 DEF Sound, Strong, Leaving, Vacated
<1>11. Counted'
  <2>1. ASSUME hp'.pc = "sleep", run'[hp.cpu] = "idle" PROVE nr_pinned[hp.cpu] = 1
    <3>1. hp.pc = "sleep" /\ ~IdleWakes(c, next) /\ hp.cpu \in CPUs
      BY <1>0, <1>9, <2>1, CPUsLeft
    <3>2. CASE hp.cpu # c
      BY <1>4, <2>1, <3>1, <3>2 DEF Sound, Counted
    <3>3. CASE hp.cpu = c
      <4>1. next = "idle"
        BY <1>4, <2>1, <3>3
      <4>2. c \in balance_push /\ hp = [cpu |-> c, pc |-> "sleep"]
        BY <1>0, <3>1, <3>3 DEF HotplugOK, Typing
      <4>3. nr_pinned[c] # 0
        BY <3>1, <4>1, <4>2 DEF IdleWakes
      <4> QED
        BY <3>3, <4>3 DEF Sound, Counted
    <3> QED
      BY <3>2, <3>3
  <2> QED
    BY <1>3, <1>9, <2>1 DEF Sound, Counted
<1>12. Warned' /\ PinnedOnline'
  BY <1>3 DEF Sound, Followed, Warned, PinnedOnline
<1> QED
  BY <1>7, <1>8, <1>10, <1>11, <1>12 DEF Good, Strong

LEMMA TryToWakeUpGood ==
    ASSUME Sound, TryToWakeUp
    PROVE  Good'
<1>0. Typing /\ RunsHere /\ HotplugOK /\ disabled \in Nat /\ cpu \in CPUs /\ Pinning /\ PinnedOnline
  BY SoundTypes DEF Sound, Strong
<1>1. /\ on_rq = "asleep"
      /\ UNCHANGED <<kthread, pin, disabled, pending, enabling, run, works, hand, req, online, nr_pinned,
                     hp, known>>
  BY DEF TryToWakeUp, cpus
<1>2. PICK t \in SelectTaskRq :
        /\ mask' = t.mask
        /\ IF t.to # cpu THEN SetTaskCpu(t.to) ELSE UNCHANGED <<cpu, warn>>
        /\ \E w \in {"queued"} \cup (IF t.to \in active THEN {"waking"} ELSE {}) : on_rq' = w
  BY DEF TryToWakeUp
<1>3. run[cpu] # "p"
  BY <1>0, <1>1 DEF RunsHere
<1>4. Selected(t)
  BY <1>0, <1>3, TaskRqSelects
<1>5. cpu' = t.to /\ warn' = warn
  BY <1>0, <1>2, <1>4, SetTaskCpuQuiet DEF Selected
<1>6. on_rq' \in {"queued", "waking"} /\ (on_rq' = "waking" => t.to \in active)
  BY <1>2
<1>7. Left'
  <2>1. cpu' \in mask' \/ pending # None
    BY <1>0, <1>2, <1>4, <1>5 DEF Selected, Sound, Strong, Left
  <2> QED
    BY <1>1, <2>1 DEF Sound, Strong, Left
<1>8. /\ disabled > 0 => cpu' = cpu
      /\ disabled = 0 /\ ~kthread => cpu' \in active
  BY <1>4, <1>5 DEF Selected
<1>9. \A d \in CPUs : HasBalance(d)' <=> HasBalance(d)
  BY <1>1, WorksSame
<1> QED
  BY <1>1, <1>5, <1>6, <1>7, <1>8, <1>9, GoodMove

\* select_fallback_rq always finds a CPU.
LEMMA NoFallbackNever ==
    ASSUME Sound
    PROVE  ~NoFallback
<1>0. Typing /\ RunsHere /\ HotplugOK /\ cpu \in CPUs /\ Pinning /\ PinnedOnline
  BY SoundTypes DEF Sound, Strong
<1>1. SUFFICES ASSUME on_rq = "asleep", SelectTaskRq = {} PROVE FALSE
  BY DEF NoFallback
<1>2. run[cpu] # "p"
  BY <1>0, <1>1 DEF RunsHere
<1> QED
  BY <1>0, <1>1, <1>2, TaskRqSelects

LEMMA TtwuPendingGood ==
    ASSUME Sound, TtwuPending
    PROVE  Good'
<1>1. /\ on_rq = "waking" /\ on_rq' = "queued"
      /\ UNCHANGED <<kthread, cpu, mask, pin, disabled, pending, enabling, run, works, hand, req, online,
                     nr_pinned, hp, warn, known>>
  BY DEF TtwuPending, cpus
<1>2. Left'
  BY <1>1 DEF Sound, Strong, Left
<1>3. \A d \in CPUs : HasBalance(d)' <=> HasBalance(d)
  BY <1>1, WorksSame
<1> QED
  BY <1>1, <1>2, <1>3, GoodMove

LEMMA MigrateSwapGood ==
    ASSUME Sound, NEW dest \in CPUs, MigrateSwap(dest)
    PROVE  Good'
<1>0. Typing /\ HotplugOK /\ disabled \in Nat /\ cpu \in CPUs
  BY SoundTypes
<1>1. /\ dest # cpu /\ dest \in active /\ dest \in cpus_ptr /\ run[cpu] # "p" /\ on_rq = "queued"
      /\ SetTaskCpu(dest)
      /\ UNCHANGED <<kthread, on_rq, mask, pin, disabled, pending, enabling, run, works, hand, req, online,
                     nr_pinned, hp, known>>
  BY DEF MigrateSwap, cpus
<1>2. disabled = 0 /\ dest \in mask
  BY <1>0, <1>1, AffinityAssumption DEF Sound, Strong, Pinning, cpus_ptr
<1>3. dest \in online
  BY <1>0, <1>1, CPUsLeft
<1>4. cpu' = dest /\ warn' = warn
  BY <1>1, <1>2, <1>3, SetTaskCpuQuiet
<1>5. Left'
  BY <1>1, <1>2, <1>4 DEF Sound, Strong, Left
<1>6. \A d \in CPUs : HasBalance(d)' <=> HasBalance(d)
  BY <1>1, WorksSame
<1> QED
  BY <1>1, <1>2, <1>4, <1>5, <1>6, GoodMove

--------------------------------------------------------------------------------
(* Behaviours that are followed: the work of a stopper *)

\* What the stopper of c does to p and its requests.
Moves(c) ==
    /\ warn' = warn
    /\ cpu' # cpu => /\ cpu = c /\ disabled = 0 /\ on_rq' = "queued"
                     /\ ~kthread => cpu' \in active \cup rq_online
    /\ on_rq' = on_rq \/ (on_rq = "waking" /\ on_rq' = "queued")
    /\ known' = {} => Left'

LEMMA MigrateTaskQuiet ==
    ASSUME Sound, NEW c \in CPUs, MigrateTask(c), disabled = 0
    PROVE  /\ warn' = warn
           /\ cpu' # cpu => cpu' = c /\ c \in cpus_ptr /\ (~kthread => c \in active)
<1>0. Typing /\ HotplugOK
  BY SoundTypes
<1>1. CASE Allowed(c, cpus_ptr)
  <2>1. c \in cpus_ptr /\ c \in online /\ (~kthread => c \in active)
    BY <1>0, <1>1, AllowedSays
  <2>2. SetTaskCpu(c)
    BY <1>1 DEF MigrateTask
  <2> QED
    BY <2>1, <2>2, SetTaskCpuQuiet
<1>2. CASE ~Allowed(c, cpus_ptr)
  BY <1>2 DEF MigrateTask
<1> QED
  BY <1>1, <1>2

LEMMA MigrationCpuStopMoves ==
    ASSUME Sound, NEW c \in CPUs, run[c] = "stop", NEW r \in Callers \cup {None}, NEW dests \in SUBSET CPUs,
           MigrationCpuStop(c, r, dests), UNCHANGED <<disabled, pin, enabling>>,
           r # None => pending = r /\ req[r].stop_pending
    PROVE  Moves(c)
<1> DEFINE here == cpu = c
           queued == on_rq = "queued" \/ (on_rq = "waking" /\ here)
           chase == ~here /\ r # None /\ cpu \notin cpus_ptr
           complete == r # None /\ ~chase /\ ~(here /\ disabled > 0)
           moves == here /\ disabled = 0 /\ queued /\ (r # None => cpu \notin mask)
<1>0. Typing /\ RunsHere /\ HotplugOK /\ disabled \in Nat /\ cpu \in CPUs /\ Pinning /\ Left /\ None \notin Callers
  BY SoundTypes, AffinityAssumption DEF Sound, Strong
<1>1. /\ on_rq' = (IF queued THEN "queued" ELSE on_rq)
      /\ pending' = (IF complete /\ pending = r THEN None ELSE pending)
      /\ req' = (IF r # None /\ ~chase THEN [req EXCEPT ![r].stop_pending = FALSE] ELSE req)
      /\ IF moves THEN \E dest \in dests : MigrateTask(dest)
         ELSE /\ cpu' = cpu
              /\ Warn(IF chase /\ ~req[r].stop_pending THEN {"migration_cpu_stop: no stop_pending"} ELSE {})
      /\ known' = (IF complete /\ cpu' \notin mask /\ (queued \/ disabled > 0)
                   THEN known \cup {"outside"} ELSE known)
      /\ mask' = mask
  BY DEF MigrationCpuStop
<1>2. disabled = 0 => cpus_ptr = mask
  BY <1>0 DEF Pinning, cpus_ptr
<1>3. /\ warn' = warn
      /\ cpu' # cpu => moves /\ cpu' \in mask /\ (~kthread => cpu' \in active)
  <2>1. CASE moves
    <3>1. PICK dest \in dests : MigrateTask(dest)
      BY <1>1, <2>1
    <3> QED
      BY <1>2, <2>1, <3>1, MigrateTaskQuiet
  <2>2. CASE ~moves
    <3>1. cpu' = cpu /\ Warn({})
      BY <1>1, <2>2
    <3> QED
      BY <3>1 DEF Warn
  <2> QED
    BY <2>1, <2>2
<1>4. on_rq' = on_rq \/ (on_rq = "waking" /\ on_rq' = "queued")
  BY <1>1
<1>5. ASSUME known' = {}, r = None PROVE Left'
  <2>1. UNCHANGED <<pending, req>>
    BY <1>1, <1>5
  <2>2. on_rq' # "asleep" => on_rq # "asleep"
    BY <1>4
  <2>3. (on_rq' # "asleep" \/ disabled > 0) => (cpu' \in mask \/ pending # None)
    BY <1>0, <1>3, <2>2 DEF Left
  <2> QED
    BY <1>0, <1>1, <2>1, <2>3 DEF Left
<1>6. ASSUME known' = {}, r # None PROVE Left'
  <2>1. CASE chase
    <3>1. UNCHANGED <<pending, req, cpu, on_rq>>
      BY <1>1, <1>3, <2>1
    <3> QED
      BY <1>0, <1>1, <3>1 DEF Left
  <2>2. CASE complete
    <3>1. pending' = None
      BY <1>1, <1>6, <2>2
    <3>2. cpu' \in mask \/ (~queued /\ disabled = 0)
      <4>1. CASE cpu' \notin mask /\ (queued \/ disabled > 0)
        <5>1. known' = known \cup {"outside"}
          BY <1>1, <2>2, <4>1
        <5> QED
          BY <1>6, <5>1
      <4> QED
        BY <1>0, <4>1
    <3>3. ASSUME ~queued, disabled = 0, on_rq' # "asleep" PROVE cpu' \in mask
      <4>1. ~here /\ cpu' = cpu
        BY <1>0, <1>1, <1>3, <3>3 DEF Typing
      <4>2. cpu \in cpus_ptr
        BY <2>2, <4>1
      <4> QED
        BY <1>2, <3>3, <4>1, <4>2
    <3>4. (on_rq' # "asleep" \/ disabled > 0) => cpu' \in mask
      BY <1>0, <3>2, <3>3
    <3> QED
      BY <1>0, <1>1, <3>1, <3>4 DEF Left
  <2>3. CASE ~chase /\ ~complete
    <3>1. here /\ disabled > 0 /\ pending' = pending /\ pending = r
      BY <1>1, <1>6, <2>3
    <3>2. pin # None /\ enabling = None
      BY <1>0, <3>1, AffinityAssumption DEF Pinning, RunsHere
    <3>3. pending' # None
      BY <1>6, <3>1
    <3> QED
      BY <1>1, <3>1, <3>2, <3>3 DEF Left
  <2> QED
    BY <2>1, <2>2, <2>3
<1> QED
  BY <1>1, <1>3, <1>4, <1>5, <1>6 DEF Moves

LEMMA PushCpuStopMoves ==
    ASSUME Sound, NEW c \in CPUs, PushCpuStop(c), UNCHANGED <<disabled, pin, enabling>>
    PROVE  Moves(c)
<1>0. Typing /\ HotplugOK /\ Left
  BY SoundTypes DEF Sound, Strong
<1>1. UNCHANGED <<on_rq, mask, pending, req, known>>
  BY DEF PushCpuStop
<1>2. CASE UNCHANGED <<cpu, warn>>
  BY <1>0, <1>1, <1>2 DEF Moves, Left
<1>3. CASE ~UNCHANGED <<cpu, warn>>
  <2>1. /\ cpu = c /\ disabled = 0 /\ on_rq = "queued"
        /\ \E dest \in (mask \cap rq_online) \ {c} : SetTaskCpu(dest)
    BY <1>3 DEF PushCpuStop
  <2>2. PICK dest \in (mask \cap rq_online) \ {c} : SetTaskCpu(dest)
    BY <2>1
  <2>3. dest \in online
    BY <1>0, CPUsLeft
  <2>4. cpu' = dest /\ warn' = warn
    BY <2>1, <2>2, <2>3, SetTaskCpuQuiet
  <2>5. Left'
    BY <1>0, <1>1, <2>4 DEF Left
  <2> QED
    BY <1>1, <2>1, <2>4, <2>5 DEF Moves
<1> QED
  BY <1>2, <1>3

LEMMA BalancePushCpuStopMoves ==
    ASSUME Sound, NEW c \in CPUs, run[c] = "stop", HasBalance(c), BalancePushCpuStop(c),
           UNCHANGED <<disabled, pin, enabling>>
    PROVE  Moves(c)
<1>0. Typing /\ HotplugOK /\ Left /\ Pinning /\ PinnedOnline
  BY SoundTypes DEF Sound, Strong
<1>1. UNCHANGED <<on_rq, pending, req, known>>
  BY DEF BalancePushCpuStop
<1>2. CASE cpu = c /\ on_rq = "queued"
  <2>1. PICK s \in SelectFallbackRq : MigrateTask(s.to) /\ mask' = s.mask
    BY <1>2 DEF BalancePushCpuStop
  <2>2. disabled = 0 /\ run[cpu] # "p"
    BY <1>0, <1>2 DEF Pinning
  <2>3. Selected(s)
    BY <1>0, <2>2, FallbackSelects
  <2>4. s.to \in CPUs /\ mask \subseteq s.mask /\ s.to \in s.mask
    BY <1>0, <2>2, <2>3, CPUsLeft DEF Selected, Typing
  <2>5. warn' = warn /\ (cpu' # cpu => cpu' = s.to /\ (~kthread => cpu' \in active))
    BY <2>1, <2>2, <2>4, MigrateTaskQuiet
  <2>6. Left'
    BY <1>0, <1>1, <2>1, <2>2, <2>4, <2>5 DEF Left
  <2> QED
    BY <1>1, <1>2, <2>2, <2>5, <2>6 DEF Moves
<1>3. CASE ~(cpu = c /\ on_rq = "queued")
  <2>1. UNCHANGED <<cpu, mask, warn>>
    BY <1>3 DEF BalancePushCpuStop
  <2> QED
    BY <1>0, <1>1, <2>1 DEF Moves, Left
<1> QED
  BY <1>2, <1>3

LEMMA StopGood ==
    ASSUME Sound, NEW c \in CPUs, Stop(c)
    PROVE  Good'
<1>0. ACore /\ Typing /\ RunsHere /\ disabled \in Nat /\ Requests /\ QueuesOK
  BY SoundTypes DEF ACore
<1>1. /\ run[c] = "stop" /\ hand[c] = None /\ works[c] # <<>>
      /\ works' = [works EXCEPT ![c] = Tail(@)]
      /\ UNCHANGED <<kthread, pin, disabled, enabling, run, online, nr_pinned, hp>>
  BY DEF Stop, cpus
<1>2. PICK w : w = Head(works[c])
  OBVIOUS
<1>3. /\ w \in Works
      /\ \A d \in CPUs \ {c} : works'[d] = works[d]
      /\ \A r \in Callers : w = Work("migrate", r) => HasWork(c, r)
      /\ w = Work("balance", None) => HasBalance(c)
      /\ \A d \in CPUs : HasBalance(d)' => HasBalance(d)
  <2>1. works \in [CPUs -> Seq(Works)] /\ NoRepeat(c)
    BY <1>0 DEF Typing, QueuesOK
  <2>2. works[c] # <<>> /\ works' = [works EXCEPT ![c] = Tail(@)]
    BY <1>1
  <2> QED
    BY <1>2, <2>1, <2>2, WorksTail, Zenon
<1>4. SUFFICES Moves(c) /\ \A d \in CPUs \ {c} : hand'[d] = hand[d]
  <2>1. c \in online
    BY <1>0, <1>1 DEF RunsHere
  <2>2. \A d \in CPUs : d \notin online => works'[d] = works[d] /\ hand'[d] = hand[d]
    BY <1>3, <1>4, <2>1
  <2>3. /\ warn' = warn /\ (disabled > 0 => cpu' = cpu) /\ (known' = {} => Left')
        /\ on_rq' = "waking" => on_rq = "waking" /\ cpu' = cpu
        /\ on_rq' = "queued" /\ ~kthread =>
                (cpu' = cpu /\ on_rq \in {"queued", "waking"}) \/ cpu' \in active \cup rq_online
    BY <1>4 DEF Moves
  <2> QED
    BY <1>1, <1>3, <2>2, <2>3, GoodMove
<1>5. CASE \E q \in Callers : w = Work("migrate", q) /\ w.kind = "migrate" /\ w.of = q
  <2>1. PICK q \in Callers : w = Work("migrate", q) /\ w.kind = "migrate" /\ w.of = q
    BY <1>5
  <2>2. MigrationCpuStop(c, q, mask)
    BY <1>2, <2>1 DEF Stop
  <2>3. pending = q /\ req[q].stop_pending
    BY <1>0, <1>3, <2>1 DEF Requests, Stages, Carried, Queued
  <2>4. mask \in SUBSET CPUs /\ hand \in [CPUs -> Afterwards \cup {None}]
    BY <1>0 DEF Typing
  <2>5. Moves(c)
    BY <1>1, <2>2, <2>3, <2>4, MigrationCpuStopMoves
  <2> QED
    BY <2>2, <2>4, <2>5 DEF MigrationCpuStop
<1>6. CASE \E d \in CPUs : w = Work("exec", d) /\ w.kind = "exec" /\ w.of = d
  <2>1. PICK d \in CPUs : w = Work("exec", d) /\ w.kind = "exec" /\ w.of = d
    BY <1>6
  <2>2. MigrationCpuStop(c, None, {d})
    BY <1>2, <2>1 DEF Stop
  <2>3. hand \in [CPUs -> Afterwards \cup {None}]
    BY <1>0 DEF Typing
  <2>4. Moves(c)
    BY <1>1, <2>2, MigrationCpuStopMoves
  <2> QED
    BY <2>2, <2>3, <2>4 DEF MigrationCpuStop
<1>7. CASE w = Work("push", None) /\ w.kind = "push"
  <2>1. PushCpuStop(c)
    BY <1>2, <1>7 DEF Stop
  <2>2. Moves(c)
    BY <1>1, <2>1, PushCpuStopMoves
  <2> QED
    BY <2>1, <2>2 DEF PushCpuStop
<1>8. CASE w = Work("balance", None) /\ w.kind = "balance"
  <2>1. BalancePushCpuStop(c)
    BY <1>2, <1>8 DEF Stop
  <2>2. Moves(c)
    BY <1>1, <1>3, <1>8, <2>1, BalancePushCpuStopMoves
  <2> QED
    BY <2>1, <2>2 DEF BalancePushCpuStop
<1> QED
  BY <1>3, <1>5, <1>6, <1>7, <1>8, WorkKinds

--------------------------------------------------------------------------------
(* Behaviours that are followed: set_cpus_allowed_ptr *)

LEMMA SetCpusAllowedGood ==
    ASSUME Sound, NEW c \in Callers, NEW m \in SUBSET CPUs, SetCpusAllowed(c, m)
    PROVE  Good'
<1>0. /\ Typing /\ RunsHere /\ HotplugOK /\ disabled \in Nat /\ cpu \in CPUs /\ Pinning /\ Left /\ Requests
      /\ None \notin Callers \cup CPUs
  BY SoundTypes, AffinityAssumption DEF Sound, Strong, ACore
<1>1. /\ mask' = m
      /\ UNCHANGED <<kthread, on_rq, pin, disabled, enabling, run, works, hand, online, nr_pinned, hp, known>>
  BY DEF SetCpusAllowed, cpus
<1>2. /\ warn' = warn
      /\ cpu' # cpu => ~Busy /\ disabled = 0 /\ on_rq = "queued" /\ (~kthread => cpu' \in active)
      /\ cpu \notin m /\ ~Busy /\ disabled = 0 /\ on_rq = "queued" => cpu' \in m
      /\ cpu \in m => cpu' = cpu
  <2> DEFINE moved == cpu \notin m /\ ~Busy /\ disabled = 0
  <2>1. IF moved /\ on_rq = "queued" THEN \E dest \in Valid \cap m : SetTaskCpu(dest) ELSE UNCHANGED <<cpu, warn>>
    BY DEF SetCpusAllowed
  <2>2. CASE moved /\ on_rq = "queued"
    <3>1. PICK dest \in Valid \cap m : SetTaskCpu(dest)
      BY <2>1, <2>2
    <3>2. dest \in online /\ (~kthread => dest \in active)
      BY <1>0, <2>2, CPUsLeft DEF Valid
    <3>3. cpu' = dest /\ warn' = warn
      BY <2>2, <3>1, <3>2, SetTaskCpuQuiet
    <3> QED
      BY <2>2, <3>1, <3>2, <3>3
  <2>3. CASE ~(moved /\ on_rq = "queued")
    BY <2>1, <2>3
  <2> QED
    BY <2>2, <2>3
<1>3. Left'
  <2>1. CASE cpu \in m /\ Releases(c)
    <3>1. req' = req /\ pending' \in {pending, None}
      BY <2>1 DEF Releases
    <3> QED
      BY <1>0, <1>1, <1>2, <2>1, <3>1 DEF Left
  <2>2. ASSUME NEW r \in Callers, NEW pc \in {"stop", "wait", "complete"}, NEW k \in CPUs \cup {None},
               cpu \notin m, Joins(c, r, pc, k)
        PROVE  Left'
    <3>1. CASE pc = "complete"
      <4>1. pending' = None /\ ~Busy /\ disabled = 0
        BY <2>2, <3>1 DEF Joins
      <4>2. on_rq' # "asleep" => cpu' \in mask'
        BY <1>0, <1>1, <1>2, <2>2, <4>1 DEF Busy, Typing
      <4> QED
        BY <1>0, <1>1, <4>1, <4>2 DEF Left
    <3>2. CASE pc # "complete"
      <4>1. pending' = r /\ r # None
        BY <1>0, <2>2, <3>2 DEF Joins
      <4>2. ASSUME ~req'[r].stop_pending PROVE disabled > 0 /\ pin # None /\ enabling = None
        <5>1. ~Busy /\ disabled # 0
          BY <2>2, <3>2, <4>2 DEF Joins
        <5>2. run[cpu] # "p"
          BY <1>0, <5>1 DEF Busy, Running
        <5> QED
          BY <1>0, <5>1, <5>2 DEF Pinning, RunsHere
      <4> QED
        BY <1>1, <4>1, <4>2 DEF Left
    <3> QED
      BY <3>1, <3>2
  <2> QED
    BY <1>0, <2>1, <2>2, SetCpusAllowedDoes
<1>4. \A d \in CPUs : HasBalance(d)' <=> HasBalance(d)
  BY <1>1, WorksSame
<1>5. on_rq' = "waking" => on_rq = "waking" /\ cpu' = cpu
  BY <1>1, <1>2
<1>6. /\ disabled > 0 => cpu' = cpu
      /\ on_rq' = "queued" /\ ~kthread /\ disabled = 0 =>
            (cpu' = cpu /\ on_rq \in {"queued", "waking"}) \/ cpu' \in active \cup rq_online
  BY <1>1, <1>2
<1> QED
  BY <1>1, <1>2, <1>3, <1>4, <1>5, <1>6, GoodMove

--------------------------------------------------------------------------------
(* Behaviours that are followed: the invariant *)

LEMMA NextGood ==
    ASSUME Sound, Next
    PROVE  Good'
<1>1. ASSUME NEW c \in CPUs,
             Schedule(c) \/ Stop(c) \/ StopAfterwards(c) \/ SchedExec(c) \/ RtPush(c) \/ MigrateSwap(c)
      PROVE  Good'
  BY <1>1, ScheduleGood, StopGood, StopAfterwardsGood, AsksGood, MigrateSwapGood
<1>2. ASSUME TryToWakeUp \/ NoFallback \/ TtwuPending
      PROVE  Good'
  BY <1>2, TryToWakeUpGood, NoFallbackNever, TtwuPendingGood
<1>3. ASSUME NEW c \in Callers, CallNext(c)
      PROVE  Good'
  BY <1>3, CallNextGood
<1>4. ASSUME NEW c \in Callers, NEW m \in SUBSET CPUs, SetCpusAllowed(c, m)
      PROVE  Good'
  BY <1>4, SetCpusAllowedGood
<1>5. ASSUME MigrateDisable \/ MigrateEnable \/ MigrateEnabled
      PROVE  Good'
  BY <1>5, MigrateDisableGood, MigrateEnableGood, MigrateEnabledGood
<1>6. ASSUME NEW c \in HotCPUs, Deactivate(c) \/ SchedTickRemote(c)
      PROVE  Good'
  BY <1>6, SettlesGood, SchedTickRemoteGood, AffinityAssumption
<1>7. ASSUME TakeDown \/ BringUp
      PROVE  Good'
  BY <1>7, TakeDownGood, DyingGood, StartingGood, SettlesGood DEF TakeDown, BringUp
<1> QED
  BY <1>1, <1>2, <1>3, <1>4, <1>5, <1>6, <1>7 DEF Next

LEMMA SameGood ==
    ASSUME Sound, UNCHANGED vars
    PROVE  Good'
<1>1. UNCHANGED <<kthread, cpu, on_rq, mask, pin, disabled, pending, enabling, run, works, hand, req,
                  nr_pinned, hp, online, warn>>
  BY DEF vars, p_, cpus
<1> QED
  BY <1>1, WorksSame, GoodFrame DEF SameStop

LEMMA CpusetStepGood ==
    ASSUME Sound, Core, about = "cpusets", CpusetStep
    PROVE  Good' /\ KeepsCarried
<1>0. ACore /\ hp.pc = "none"
  BY DEF Core, Setters
<1>1. CASE TaskStep
  <2>1. ASSUME NEW c \in CPUs, Schedule(c) \/ Stop(c) \/ StopAfterwards(c)
        PROVE  Good'
    BY <2>1, ScheduleGood, StopGood, StopAfterwardsGood
  <2>2. ASSUME TryToWakeUp \/ TtwuPending
        PROVE  Good'
    BY <2>2, TryToWakeUpGood, TtwuPendingGood
  <2>3. ASSUME MigrateDisable \/ MigrateEnable \/ MigrateEnabled
        PROVE  Good'
    BY <2>3, MigrateDisableGood, MigrateEnableGood, MigrateEnabledGood
  <2>4. Good'
    BY <1>1, <2>1, <2>2, <2>3, CallNextGood DEF TaskStep
  <2> QED
    BY <1>0, <1>1, <2>4, TaskStepCore
<1>2. ASSUME NEW c \in Callers, SetMask(c)
      PROVE  Good' /\ KeepsCarried
  <2>1. UNCHANGED vars \/ SetCpusAllowed(c, setter[c].new)
    BY <1>2 DEF SetMask
  <2>2. setter[c].new \in SUBSET CPUs
    BY DEF Core, Setters
  <2> QED
    BY <1>0, <2>1, <2>2, SameGood, ACoreSame, SetCpusAllowedGood, SetCpusAllowedCore
<1>3. ASSUME UNCHANGED vars
      PROVE  Good' /\ KeepsCarried
  BY <1>0, <1>3, SameGood, ACoreSame
<1> QED
  BY <1>1, <1>2, <1>3 DEF CpusetStep, Recheck, SchedSetaffinity, CpusetWrite

\* A step from a state that is followed.
LEMMA FollowedNext ==
    ASSUME FInv, Followed, CsNext
    PROVE  FInv'
<1>1. Sound /\ Core /\ Remembers
  BY DEF FInv, Good, Followed, Sound, Core
<1>2. Core'
  BY <1>1, CoreNext
<1>3. Good' /\ KeepsCarried
  <2>1. CASE about = "hotplug" /\ Next
    BY <1>1, <2>1, NextGood, NextCore DEF Core
  <2>2. CASE about = "cpusets" /\ CpusetStep
    BY <1>1, <2>2, CpusetStepGood
  <2> QED
    BY <2>1, <2>2 DEF CsNext
<1> QED
  BY <1>1, <1>2, <1>3 DEF FInv, KeepsCarried

LEMMA FollowedSame ==
    ASSUME FInv, UNCHANGED allvars
    PROVE  FInv'
<1>1. /\ UNCHANGED <<kthread, cpu, on_rq, mask, pin, disabled, pending, enabling, run, works, hand, req,
                     nr_pinned, hp, online, warn, known>>
      /\ UNCHANGED vars
  BY DEF allvars, vars, p_, cpus
<1>2. Core' /\ KeepsCarried
  BY <1>1, CoreNext, ACoreSame DEF FInv, Core
<1>3. known = {} => Strong'
  <2>1. Pinning => Pinning'
    BY <1>1, WorksSame DEF Pinning
  <2>2. (Left => Left') /\ (Leaving => Leaving')
    BY <1>1 DEF Left, Leaving, Vacated
  <2> QED
    BY <2>1, <2>2 DEF FInv, Good, Strong
<1>4. Counted' /\ Warned'
  BY <1>1 DEF FInv, Good, Counted, Warned
<1>5. Followed' => PinnedOnline'
  BY <1>1 DEF FInv, Good, Followed, PinnedOnline
<1> QED
  BY <1>1, <1>2, <1>3, <1>4, <1>5 DEF FInv, Good, KeepsCarried

LEMMA FollowedInit ==
    ASSUME CsInit
    PROVE  FInv
<1>1. Core /\ Init
  BY CoreInit DEF CsInit
<1>2. /\ cpu \in CPUs /\ mask = CPUs /\ pin = None /\ disabled = 0 /\ pending = None /\ enabling = None
      /\ works = [c \in CPUs |-> <<>>] /\ hand = [c \in CPUs |-> None]
      /\ req = [c \in Callers |-> NoRequest] /\ nr_pinned = [c \in CPUs |-> 0]
      /\ hp.pc = "none" /\ warn = {} /\ known = {}
  BY <1>1 DEF Init, Settled
<1>3. Pinning
  BY <1>2 DEF Pinning
<1>4. Left
  BY <1>2, AffinityAssumption DEF Left
<1>5. Leaving
  BY <1>2 DEF Leaving
<1>6. Counted /\ Warned /\ PinnedOnline
  BY <1>2 DEF Counted, Warned, PinnedOnline
<1>7. Remembers
  BY <1>2 DEF Remembers, NoRequest
<1> QED
  BY <1>1, <1>3, <1>4, <1>5, <1>6, <1>7 DEF FInv, Good, Strong

\* What the invariant says about the properties of the runs.
LEMMA FollowedNoWarning ==
    ASSUME FInv
    PROVE  NoWarning
<1>1. Typing /\ HotplugOK /\ TickOK /\ Requests /\ Counted /\ Warned
  BY DEF FInv, Core, ACore, Good
<1>2. req \in [Callers -> [refs : 0..Cardinality(Callers), stop_pending : BOOLEAN, done : BOOLEAN]]
  <2>1. ASSUME NEW r \in Callers
        PROVE  req[r].refs \in 0..Cardinality(Callers)
    <3>1. req[r].refs \in Nat /\ req[r].refs = Cardinality(Holders(r))
      BY <1>1 DEF Typing, ReqRec, Requests, Counting
    <3>2. Holders(r) \in SUBSET Callers /\ IsFiniteSet(Callers)
      BY AffinityAssumption DEF Holders
    <3>3. Cardinality(Holders(r)) <= Cardinality(Callers) /\ Cardinality(Callers) \in Nat
      BY <3>2, FS_Subset, FS_CardinalityType
    <3> QED
      BY <3>1, <3>3
  <2>2. req \in [Callers -> ReqRec]
    BY <1>1 DEF Typing
  <2> QED
    BY <2>1, <2>2 DEF ReqRec
<1>3. nr_pinned \in [CPUs -> 0..1]
  BY <1>1 DEF Typing, Counted
<1>4. twork \in [CPUs -> 0..2]
  BY <1>1 DEF Typing, TickOK
<1>5. {active, online, balance_push, push_busy, rq_online} \subseteq SUBSET CPUs
  <2>1. active \subseteq CPUs /\ online \subseteq CPUs
    BY <1>1, CPUsLeft
  <2>2. balance_push \subseteq CPUs
    BY <1>1, CPUsLeft DEF HotplugOK
  <2> QED
    BY <1>1, <2>1, <2>2 DEF Typing
<1>6. mask \in (SUBSET CPUs) \ {{}} /\ warn \subseteq Warnings /\ known \subseteq {"outside", "pinned", "refused"}
  BY <1>1 DEF Typing
<1>7. call \in [Callers -> [pc : {"idle", "stop", "complete", "wait", "refs"}, on : Callers \cup {None},
                            cpu : CPUs \cup {None}, waits : BOOLEAN]]
  BY <1>1 DEF Typing, CallRec
<1>8. TypeOK
  BY <1>1, <1>2, <1>3, <1>4, <1>5, <1>6, <1>7, Zenon DEF Typing, TypeOK
<1> QED
  BY <1>1, <1>8 DEF NoWarning, Warned

LEMMA FollowedNoLostRequest ==
    ASSUME FInv
    PROVE  NoLostRequest
<1>1. Typing /\ Requests /\ Counted
  BY DEF FInv, Core, ACore, Good
<1>2. HotplugWoken
  BY <1>1 DEF HotplugWoken, Counted, Vacated
<1>3. ASSUME NEW c \in Callers, NEW r, r = call[c].on, call[c].pc = "wait", ~req[r].done, known = {}
      PROVE  \/ \E d \in Callers : call[d].pc \in {"stop", "complete"} /\ call[d].on = r
             \/ \E d \in CPUs : \/ d \in online /\ Work("migrate", r) \in QueuedWork(d)
                                \/ hand[d] # None /\ hand[d].of = r
             \/ enabling # None /\ r \in {enabling.stop, enabling.done}
             \/ pending = r /\ disabled > 0 /\ pin # None
  <2>1. r \in Callers /\ call[c].waits
    BY <1>1, <1>3 DEF Requests, CallOK, Typing, CallRec
  <2>2. pending = r \/ Completed(r)
    BY <1>1, <1>3, <2>1 DEF Requests, Stages
  <2>3. Remembers /\ Left /\ Leaving
    BY <1>3 DEF FInv, Good, Strong
  <2>4. \A d \in CPUs : Hands(d, r) \/ Requeues(d, r) => hand[d] # None /\ hand[d].of = r
    BY <2>1, NoneAssumption DEF Hands, Requeues, Afterwards
  <2>5. CASE Completed(r)
    BY <2>4, <2>5 DEF Completed, EnableDone, Completes
  <2>6. CASE pending = r /\ ~req[r].stop_pending
    BY <2>1, <2>3, <2>6 DEF Left
  <2>7. CASE req[r].stop_pending
    <3>1. Carried(r)
      BY <2>1, <2>3, <2>7 DEF Remembers
    <3>2. \A d \in CPUs : HasWork(d, r) => d \in online /\ Work("migrate", r) \in QueuedWork(d)
      <4>1. SUFFICES ASSUME NEW d \in CPUs, HasWork(d, r)
                     PROVE  d \in online /\ Work("migrate", r) \in QueuedWork(d)
        OBVIOUS
      <4>2. PICK i \in 1..Len(works[d]) : works[d][i] = Work("migrate", r)
        BY <4>1 DEF HasWork, In
      <4>3. works[d] # <<>>
        BY <4>2
      <4> QED
        BY <2>3, <4>2, <4>3 DEF Leaving, QueuedWork
    <3> QED
      BY <2>4, <3>1, <3>2 DEF Carried, Queued, Enables, Starts
  <2> QED
    BY <2>2, <2>5, <2>6, <2>7
<1> QED
  BY <1>2, <1>3 DEF NoLostRequest

LEMMA FollowedPlaced ==
    ASSUME FInv
    PROVE  Placed
<1>1. MaskWithinCpuset
  BY DEF FInv, Core
<1>2. PlacedOnMask
  BY DEF FInv, Good, Strong, Left, PlacedOnMask
<1> QED
  BY <1>1, <1>2 DEF Placed

--------------------------------------------------------------------------------
(* Behaviours that are followed: the theorems *)

\* The behaviours up to the first race that is lost or the first warning: a state in which one
\* has just been met is reached, and no step is taken from there.
FollowedSpec == CsInit /\ [][Followed /\ CsNext]_allvars

\* In such behaviours p is pinned, queued and counted as Good says, and the work of a request
\* that is in use is always carried by somebody.
THEOREM FollowedInvariant == FollowedSpec => []FInv
<1>1. CsInit => FInv
  BY FollowedInit
<1>2. FInv /\ [Followed /\ CsNext]_allvars => FInv'
  BY FollowedNext, FollowedSame
<1> QED
  BY <1>1, <1>2, PTL DEF FollowedSpec

\* No WARN_ON or BUG_ON is met before a race is lost, and the variables keep their types, the
\* reference counts and nr_pinned their bounds.
THEOREM NoWarningCorrect == FollowedSpec => []NoWarning
  BY FollowedInvariant, FollowedNoWarning, PTL

\* A caller that waits, and the hotplug thread, will be told.
THEOREM NoLostRequestCorrect == FollowedSpec => []NoLostRequest
  BY FollowedInvariant, FollowedNoLostRequest, PTL

\* p ends up on its last mask, which its cpuset allows.
THEOREM PlacedCorrect == FollowedSpec => []Placed
  BY FollowedInvariant, FollowedPlaced, PTL

\* A race that has been lost stays on record.
KeepsKnown == known' = {} => known = {}

LEMMA StopKnown ==
    ASSUME Typing, QueuesOK, NEW c \in CPUs, Stop(c)
    PROVE  KeepsKnown
<1>1. ASSUME NEW r, NEW dests, MigrationCpuStop(c, r, dests) PROVE KeepsKnown
  <2>1. known' = known \/ known' = known \cup {"outside"}
    BY <1>1 DEF MigrationCpuStop
  <2> QED
    BY <2>1 DEF KeepsKnown
<1>2. PICK w : w = Head(works[c])
  OBVIOUS
<1>3. w \in Works
  <2>1. works[c] \in Seq(Works) /\ works[c] # <<>>
    BY DEF Typing, Stop
  <2> QED
    BY <1>2, <2>1
<1>4. \/ MigrationCpuStop(c, w.of, mask) \/ MigrationCpuStop(c, None, {w.of})
      \/ PushCpuStop(c) \/ BalancePushCpuStop(c)
  BY <1>2, <1>3, WorkKinds DEF Stop
<1> QED
  BY <1>1, <1>4 DEF PushCpuStop, BalancePushCpuStop, KeepsKnown

LEMMA KnownKept ==
    ASSUME Core, CsNext
    PROVE  KeepsKnown /\ kthread' = kthread
<1>0. ACore /\ Typing /\ QueuesOK
  BY DEF Core, ACore
<1>1. ASSUME NEW c, NEW w, StopOneCpu(c, w) PROVE KeepsKnown
  BY <1>1 DEF StopOneCpu, KeepsKnown
<1>2. ASSUME NEW c \in CPUs, Schedule(c) PROVE KeepsKnown
  <2>1. PICK next : BalancePush(c, next)
    BY <1>2 DEF Schedule
  <2> QED
    BY <1>1, <2>1 DEF BalancePush, KeepsKnown
<1>3. ASSUME NEW c \in CPUs, StopAfterwards(c) \/ SchedExec(c) \/ RtPush(c) \/ MigrateSwap(c) PROVE KeepsKnown
  BY <1>1, <1>3 DEF StopAfterwards, SchedExec, RtPush, MigrateSwap, KeepsKnown
<1>4. ASSUME TryToWakeUp \/ NoFallback \/ TtwuPending PROVE KeepsKnown
  BY <1>4 DEF TryToWakeUp, NoFallback, TtwuPending, KeepsKnown
<1>5. ASSUME NEW c \in Callers, CallNext(c) PROVE KeepsKnown
  BY <1>1, <1>5 DEF CallNext, CallStop, CallComplete, CallWoken, CallReturn, KeepsKnown
<1>6. ASSUME NEW c, NEW m, SetCpusAllowed(c, m) PROVE KeepsKnown
  BY <1>6 DEF SetCpusAllowed, KeepsKnown
<1>7. ASSUME MigrateDisable \/ MigrateEnabled PROVE KeepsKnown
  BY <1>1, <1>7 DEF MigrateDisable, MigrateEnabled, KeepsKnown
<1>8. ASSUME MigrateEnable PROVE KeepsKnown
  <2>1. known' = known \/ known' = known \cup {"pinned"}
    BY <1>8 DEF MigrateEnable
  <2> QED
    BY <2>1 DEF KeepsKnown
<1>9. ASSUME NEW c, Deactivate(c) \/ SchedTickRemote(c) \/ TakeDown \/ BringUp PROVE KeepsKnown
  BY <1>9 DEF Deactivate, SchedTickRemote, TakeDown, BalancePushOn, RqOffline, CpusetCpuInactive,
              HotplugWait, Dying, BringUp, Starting, Activate, state, KeepsKnown
<1>10. ASSUME UNCHANGED vars PROVE KeepsKnown
  BY <1>10 DEF vars, KeepsKnown
<1>11. CASE about = "hotplug" /\ Next
  <2>1. KeepsKnown
    BY <1>0, <1>2, <1>3, <1>4, <1>5, <1>6, <1>7, <1>8, <1>9, <1>11, StopKnown DEF Next
  <2> QED
    BY <1>0, <1>11, <2>1, NextCore
<1>12. CASE about = "cpusets" /\ CpusetStep
  <2>1. TaskStep => KeepsKnown
    BY <1>0, <1>2, <1>3, <1>4, <1>5, <1>7, <1>8, StopKnown DEF TaskStep
  <2>2. KeepsKnown
    BY <1>6, <1>10, <1>12, <2>1 DEF CpusetStep, SetMask, Recheck, SchedSetaffinity, CpusetWrite
  <2>3. ~kthread /\ about' = about /\ Core'
    BY <1>12, CpusetStepCore DEF Core, Setters, CpusetStep, SetMask, Recheck, SchedSetaffinity, CpusetWrite, csvars
  <2>4. kthread \in BOOLEAN /\ kthread' \in BOOLEAN /\ ~kthread'
    BY <1>12, <2>3 DEF Core, ACore, Typing, Setters
  <2> QED
    BY <2>2, <2>3, <2>4
<1> QED
  BY <1>11, <1>12 DEF CsNext

\* Of a task that is no kernel thread nothing has to be left out: as long as no race has been
\* lost there is no warning at all, nobody waits in vain and the last mask takes effect.
Unharmed == known = {} /\ ~kthread => warn = {} /\ NoWarning /\ NoLostRequest /\ Placed

THEOREM UserTaskCorrect == CsSpec => []Unharmed
<1> DEFINE Inv == Core /\ (known = {} /\ ~kthread => FInv)
<1>1. FInv /\ known = {} /\ ~kthread => Followed
  BY DEF FInv, Good, Warned, Followed
<1>2. CsInit => Inv
  BY CoreInit, FollowedInit
<1>3. Inv /\ [CsNext]_allvars => Inv'
  <2>1. ASSUME Inv, CsNext PROVE Inv'
    <3>1. Core' /\ KeepsKnown /\ kthread' = kthread
      BY <2>1, CoreNext, KnownKept
    <3>2. ASSUME known' = {}, ~kthread' PROVE FInv'
      BY <1>1, <2>1, <3>1, <3>2, FollowedNext DEF KeepsKnown
    <3> QED
      BY <3>1, <3>2
  <2>2. ASSUME Inv, UNCHANGED allvars PROVE Inv'
    <3>1. Core' /\ known' = known /\ kthread' = kthread
      BY <2>2, CoreNext DEF allvars, vars, p_
    <3>2. ASSUME known' = {}, ~kthread' PROVE FInv'
      BY <2>2, <3>1, <3>2, FollowedSame
    <3> QED
      BY <3>1, <3>2
  <2> QED
    BY <2>1, <2>2
<1>4. Inv => Unharmed
  BY <1>1, FollowedNoWarning, FollowedNoLostRequest, FollowedPlaced DEF Unharmed, Followed
<1> QED
  BY <1>2, <1>3, <1>4, PTL DEF CsSpec

================================================================================
