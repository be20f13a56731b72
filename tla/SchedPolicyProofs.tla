--------------------------- MODULE SchedPolicyProofs ---------------------------
(***************************************************************************)
(* Proofs about SchedPolicy, for any number of tasks, calls and priorities, *)
(* in both patched kernels: the parameters of a task stay consistent, an    *)
(* inherited priority is there as long as it is needed and no longer, the   *)
(* most urgent task runs, a SCHED_FIFO task keeps its turn, sched_setparam  *)
(* changes no policy, and the printed time is the time used.                *)
(*                                                                          *)
(* Three facts carry the rest.  A task on the runqueue that is not ready is  *)
(* current, and current is never merely released (Places); a waiter is never *)
(* itself an owner, and pi_top_task is one of the waiters (Waiting); the     *)
(* parameters of a task agree with each other in the way normal_prio and     *)
(* effective_prio rely on (Sound).                                           *)
(***************************************************************************)
EXTENDS SchedPolicy, SequenceTheorems, TLAPS

--------------------------------------------------------------------------------
(* The invariant *)

Calls == [p : Tasks, priority : 0..(MAX_RT_PRIO - 1), oldpolicy : {"NORMAL", "FIFO"},
          nice : -20..19, reset : BOOLEAN]

Typing ==
    /\ kernel \in {"cfs", "fifo"} /\ kernel \in Kernels /\ privileged \in BOOLEAN
    /\ sp \in [Tasks -> Params]
    /\ life \in [Tasks -> {"unborn", "ready", "blocked", "released", "dead"}]
    /\ blocked \in [Tasks -> Tasks \cup {Idle}] /\ top \in [Tasks -> Tasks \cup {Idle}]
    /\ on_rq \in SUBSET Tasks /\ moved \in BOOLEAN /\ queue \in Seq(Tasks)
    /\ curr \in Tasks \cup {Idle} /\ need_resched \in BOOLEAN
    /\ acc \in [Tasks -> Nat] /\ used \in [Tasks -> Nat] /\ since \in Nat
    /\ call \in {NoCall} \cup Calls
    /\ adjust \in SUBSET Tasks /\ calls \in 0..MaxCalls

\* Parameters that belong together.
Sound(s) ==
    /\ s.static_prio >= MAX_RT_PRIO /\ s.class = ClassOf(s.prio)
    /\ s.policy = "FIFO" <=> s.rt_priority > 0
    /\ s.policy = "NORMAL" => s.normal_prio = s.static_prio
    /\ s.policy = "FIFO" => s.normal_prio < MAX_RT_PRIO
AllSound == \A p \in Tasks : Sound(sp[p])

\* Nobody without the capability has raised anything, the call under way included.
Modest(s) == s.policy = "NORMAL" /\ s.static_prio >= MAX_RT_PRIO + 20 /\ ~rt_prio(s.prio)
AllModest == kernel = "cfs" /\ ~privileged =>
    /\ \A p \in Tasks : Modest(sp[p])
    /\ call # NoCall => call.oldpolicy = "NORMAL" /\ call.nice >= 0

\* What sched_setparam has checked.
Checked == call # NoCall => (call.oldpolicy = "FIFO" <=> call.priority # 0)

Distinct(q) == \A i, j \in 1..Len(q) : q[i] = q[j] => i = j
In(x, q) == \E i \in 1..Len(q) : q[i] = x
Before(x, y, q) == \E i, j \in 1..Len(q) : i < j /\ q[i] = x /\ q[j] = y

\* The queue holds the real-time tasks of the runqueue, each of them once.
Queueing ==
    Distinct(queue) /\ \A t \in Tasks : In(t, queue) <=> t \in on_rq /\ sp[t].class = "rt"

\* A task that is not ready is on the runqueue only until __schedule.
Places ==
    /\ \A p \in on_rq : life[p] = "ready" \/ p = curr
    /\ curr \in Tasks => curr \in on_rq /\ life[curr] \notin {"unborn", "released"}

\* The time that is accounted is the time used.
Timing ==
    /\ \A t \in Tasks : /\ used[t] = acc[t] + (IF t = curr THEN since ELSE 0)
                        /\ used[t] <= MaxTime
                        /\ life[t] = "unborn" \/ kernel = "fifo" => used[t] = 0
    /\ curr = Idle => since = 0

\* A waiter is blocked and its owner is not; the top waiter is a waiter.
Waiting ==
    /\ \A w \in Tasks : blocked[w] # Idle => life[w] = "blocked" /\ life[blocked[w]] = "ready"
    /\ \A p \in Tasks : top[p] # Idle => blocked[top[p]] = p

\* An owner whose waiters all have the priority they were queued with is as urgent as its
\* top waiter, and that one as urgent as any.
Boosting == \A p, v \in Tasks :
    /\ blocked[v] = p /\ rt_prio(sp[v].prio)
    /\ \A w \in Tasks : blocked[w] = p => w \notin adjust
    => top[p] # Idle /\ sp[top[p]].prio <= sp[v].prio /\ sp[p].prio <= sp[top[p]].prio

Unboosted == kernel = "cfs" =>
    \A p \in Tasks : Live(p) /\ (\A w \in Tasks : blocked[w] # p) => sp[p].prio = sp[p].normal_prio

\* Until something moves, current is the first of its priority.
Turn == ~moved /\ curr \in Tasks /\ sp[curr].class = "rt" =>
    \A y \in Tasks : Before(y, curr, queue) => sp[y].prio # sp[curr].prio

Inv == /\ Typing /\ AllSound /\ AllModest /\ Checked /\ Queueing /\ Places /\ Timing
       /\ Waiting /\ Boosting /\ Unboosted /\ UrgentRuns /\ Turn
--------------------------------------------------------------------------------
(* The lists of rt.c *)

\* dequeue_task: the task is gone, the others keep their order.
LEMMA Removed ==
    ASSUME NEW q \in Seq(Tasks), Distinct(q), NEW t \in Tasks, NEW w, w = RemoveFirst(q, t)
    PROVE  /\ w \in Seq(Tasks) /\ Distinct(w)
           /\ \A x \in Tasks : In(x, w) <=> In(x, q) /\ x # t
           /\ \A x, y \in Tasks : Before(x, y, w) => Before(x, y, q)
<1>1. CASE ~\E i \in 1..Len(q) : q[i] = t
  BY <1>1 DEF RemoveFirst, In
<1>2. CASE \E i \in 1..Len(q) : q[i] = t
  <2>1. PICK k \in 1..Len(q) : q[k] = t
    BY <1>2
  <2>2. SelectInSeq(q, LAMBDA v : v = t) = k
    <3> DEFINE I == {i \in 1..Len(q) : q[i] = t}
    <3>1. I = {k}
      BY <2>1 DEF Distinct
    <3>2. SelectInSeq(q, LAMBDA v : v = t) = Min(I)
      BY <2>1 DEF SelectInSeq
    <3> QED
      <4>1. \E x \in I : \A y \in I : x <= y
        BY <3>1
      <4>2. Min(I) \in I
        BY <4>1 DEF Min
      <4> QED
        BY <3>1, <3>2, <4>2
  <2>3. w = SubSeq(q, 1, k - 1) \o SubSeq(q, k + 1, Len(q))
    BY <1>2, <2>2 DEF RemoveFirst, RemoveAt
  <2> DEFINE l == SubSeq(q, 1, k - 1)
             r == SubSeq(q, k + 1, Len(q))
  <2>10. /\ l \in Seq(Tasks) /\ Len(l) = k - 1
         /\ \A i \in 1..(k - 1) : l[i] = q[i]
    <3>1. \A i \in 1..(k - 1) : q[i] \in Tasks
      OBVIOUS
    <3>2. /\ SubSeq(q, 1, k - 1) \in Seq(Tasks)
          /\ Len(SubSeq(q, 1, k - 1)) = IF 1 <= k - 1 THEN k - 1 - 1 + 1 ELSE 0
          /\ \A i \in 1..(k - 1 - 1 + 1) : SubSeq(q, 1, k - 1)[i] = q[1 + i - 1]
      BY <3>1, SubSeqProperties
    <3> QED
      BY <3>2
  <2>11. /\ r \in Seq(Tasks) /\ Len(r) = Len(q) - k
         /\ \A i \in 1..(Len(q) - k) : r[i] = q[k + i]
    <3>1. \A i \in (k + 1)..Len(q) : q[i] \in Tasks
      OBVIOUS
    <3>2. /\ SubSeq(q, k + 1, Len(q)) \in Seq(Tasks)
          /\ Len(SubSeq(q, k + 1, Len(q))) = IF k + 1 <= Len(q) THEN Len(q) - (k + 1) + 1 ELSE 0
          /\ \A i \in 1..(Len(q) - (k + 1) + 1) : SubSeq(q, k + 1, Len(q))[i] = q[k + 1 + i - 1]
      BY <3>1, SubSeqProperties
    <3>3. \A i \in 1..(Len(q) - k) : k + 1 + i - 1 = k + i
      OBVIOUS
    <3> QED
      BY <3>2, <3>3
  <2> HIDE DEF l, r
  <2>12. /\ w \in Seq(Tasks) /\ Len(w) = Len(l) + Len(r)
         /\ \A i \in 1..(Len(l) + Len(r)) : w[i] = IF i <= Len(l) THEN l[i] ELSE r[i - Len(l)]
    <3>1. /\ l \o r \in Seq(Tasks) /\ Len(l \o r) = Len(l) + Len(r)
          /\ \A i \in 1..(Len(l) + Len(r)) :
                (l \o r)[i] = IF i <= Len(l) THEN l[i] ELSE r[i - Len(l)]
      BY <2>10, <2>11, ConcatProperties, Zenon
    <3>2. w = l \o r
      BY <2>3 DEF l, r
    <3> QED
      BY <3>1, <3>2, Zenon
  <2>4. w \in Seq(Tasks) /\ Len(w) = Len(q) - 1
    BY <2>10, <2>11, <2>12
  <2>5. \A i \in 1..Len(w) : w[i] = IF i < k THEN q[i] ELSE q[i + 1]
    <3> SUFFICES ASSUME NEW i \in 1..Len(w) PROVE w[i] = IF i < k THEN q[i] ELSE q[i + 1]
      OBVIOUS
    <3>0. /\ i \in 1..(Len(l) + Len(r)) /\ Len(l) = k - 1 /\ i \in Int /\ k \in Int
          /\ w[i] = IF i <= k - 1 THEN l[i] ELSE r[i - (k - 1)]
      BY <2>10, <2>12
    <3> HIDE DEF l, r
    <3>1. CASE i < k
      <4>1. i <= k - 1 /\ i \in 1..(k - 1)
        BY <3>1
      <4> QED
        BY <2>10, <3>0, <3>1, <4>1
    <3>2. CASE i >= k
      <4>1. i - (k - 1) \in 1..(Len(q) - k) /\ k + (i - (k - 1)) = i + 1
        BY <2>4, <3>2
      <4>2. w[i] = r[i - (k - 1)]
        BY <3>0, <3>2
      <4> QED
        BY <2>11, <3>2, <4>1, <4>2
    <3> QED
      BY <3>1, <3>2
  <2>6. Distinct(w)
    BY <2>4, <2>5 DEF Distinct
  <2>7. ASSUME NEW x \in Tasks PROVE In(x, w) <=> In(x, q) /\ x # t
    <3>1. ASSUME In(x, w) PROVE In(x, q) /\ x # t
      <4>1. PICK i \in 1..Len(w) : w[i] = x
        BY <3>1 DEF In
      <4>2. CASE i < k
        BY <2>1, <2>4, <2>5, <4>1, <4>2 DEF In, Distinct
      <4>3. CASE i >= k
        BY <2>1, <2>4, <2>5, <4>1, <4>3 DEF In, Distinct
      <4> QED
        BY <4>2, <4>3
    <3>2. ASSUME In(x, q), x # t PROVE In(x, w)
      <4>1. PICK i \in 1..Len(q) : q[i] = x
        BY <3>2 DEF In
      <4>2. CASE i < k
        BY <2>4, <2>5, <4>1, <4>2 DEF In
      <4>3. CASE i > k
        <5>1. i - 1 \in 1..Len(w) /\ w[i - 1] = x
          BY <2>4, <2>5, <4>1, <4>3
        <5> QED
          BY <5>1 DEF In
      <4>4. i # k
        BY <2>1, <3>2, <4>1
      <4> QED
        BY <4>2, <4>3, <4>4
    <3> QED
      BY <3>1, <3>2
  <2>8. ASSUME NEW x \in Tasks, NEW y \in Tasks, Before(x, y, w) PROVE Before(x, y, q)
    <3>1. PICK i, j \in 1..Len(w) : i < j /\ w[i] = x /\ w[j] = y
      BY <2>8 DEF Before
    <3> DEFINE a == IF i < k THEN i ELSE i + 1
               b == IF j < k THEN j ELSE j + 1
    <3>2. a \in 1..Len(q) /\ b \in 1..Len(q) /\ a < b /\ q[a] = x /\ q[b] = y
      BY <2>4, <2>5, <3>1
    <3> QED
      BY <3>2 DEF Before
  <2> QED
    BY <2>4, <2>6, <2>7, <2>8
<1> QED
  BY <1>1, <1>2

\* To the tail of its list.
LEMMA Appended ==
    ASSUME NEW q \in Seq(Tasks), Distinct(q), NEW t \in Tasks, ~In(t, q), NEW w, w = Append(q, t)
    PROVE  /\ w \in Seq(Tasks) /\ Distinct(w)
           /\ \A x \in Tasks : In(x, w) <=> In(x, q) \/ x = t
           /\ \A x, y \in Tasks : Before(x, y, w) => Before(x, y, q) \/ y = t
<1>1. /\ w \in Seq(Tasks) /\ Len(w) = Len(q) + 1 /\ w[Len(w)] = t
      /\ \A i \in 1..Len(q) : w[i] = q[i]
  OBVIOUS
<1>2. Distinct(w)
  BY <1>1 DEF Distinct, In
<1>3. \A x \in Tasks : In(x, w) <=> In(x, q) \/ x = t
  BY <1>1 DEF In
<1>4. ASSUME NEW x \in Tasks, NEW y \in Tasks, Before(x, y, w) PROVE Before(x, y, q) \/ y = t
  <2>1. PICK i, j \in 1..Len(w) : i < j /\ w[i] = x /\ w[j] = y
    BY <1>4 DEF Before
  <2>2. CASE j = Len(w)
    BY <1>1, <2>1, <2>2
  <2>3. CASE j < Len(w)
    BY <1>1, <2>1, <2>3 DEF Before
  <2> QED
    BY <1>1, <2>1, <2>2, <2>3
<1> QED
  BY <1>1, <1>2, <1>3, <1>4

\* To the head of its list.
LEMMA Prepended ==
    ASSUME NEW q \in Seq(Tasks), Distinct(q), NEW t \in Tasks, ~In(t, q), NEW w, w = <<t>> \o q
    PROVE  /\ w \in Seq(Tasks) /\ Distinct(w)
           /\ \A x \in Tasks : In(x, w) <=> In(x, q) \/ x = t
           /\ \A x, y \in Tasks : Before(x, y, w) => Before(x, y, q) \/ (x = t /\ In(y, q))
<1>1. /\ w \in Seq(Tasks) /\ Len(w) = Len(q) + 1 /\ w[1] = t
      /\ \A i \in 2..Len(w) : i - 1 \in 1..Len(q) /\ w[i] = q[i - 1]
      /\ \A i \in 1..Len(q) : i + 1 \in 2..Len(w) /\ w[i + 1] = q[i]
  OBVIOUS
<1>2. Distinct(w)
  <2> SUFFICES ASSUME NEW i \in 1..Len(w), NEW j \in 1..Len(w), w[i] = w[j] PROVE i = j
    BY DEF Distinct
  <2>1. CASE i > 1 /\ j > 1
    <3>1. i - 1 \in 1..Len(q) /\ j - 1 \in 1..Len(q) /\ q[i - 1] = q[j - 1]
      BY <1>1, <2>1
    <3>2. i - 1 = j - 1
      BY <3>1 DEF Distinct
    <3> QED
      BY <3>2
  <2>2. CASE i = 1 \/ j = 1
    BY <1>1, <2>2 DEF In
  <2> QED
    BY <1>1, <2>1, <2>2
<1>3. ASSUME NEW x \in Tasks PROVE In(x, w) <=> In(x, q) \/ x = t
  <2>1. ASSUME In(x, w) PROVE In(x, q) \/ x = t
    <3>1. PICK i \in 1..Len(w) : w[i] = x
      BY <2>1 DEF In
    <3>2. CASE i = 1
      BY <1>1, <3>1, <3>2
    <3>3. CASE i > 1
      BY <1>1, <3>1, <3>3 DEF In
    <3> QED
      BY <3>2, <3>3
  <2>2. ASSUME In(x, q) PROVE In(x, w)
    <3>1. PICK i \in 1..Len(q) : q[i] = x
      BY <2>2 DEF In
    <3>2. i + 1 \in 1..Len(w) /\ w[i + 1] = x
      BY <1>1, <3>1
    <3> QED
      BY <3>2 DEF In
  <2>3. In(t, w)
    <3>1. 1 \in 1..Len(w)
      BY <1>1
    <3> QED
      BY <1>1, <3>1 DEF In
  <2> QED
    BY <2>1, <2>2, <2>3
<1>4. ASSUME NEW x \in Tasks, NEW y \in Tasks, Before(x, y, w)
      PROVE  Before(x, y, q) \/ (x = t /\ In(y, q))
  <2>1. PICK i, j \in 1..Len(w) : i < j /\ w[i] = x /\ w[j] = y
    BY <1>4 DEF Before
  <2>2. j - 1 \in 1..Len(q) /\ q[j - 1] = y
    BY <1>1, <2>1
  <2>3. CASE i = 1
    BY <1>1, <2>1, <2>2, <2>3 DEF In
  <2>4. CASE i > 1
    <3>1. i - 1 \in 1..Len(q) /\ q[i - 1] = x /\ i - 1 < j - 1
      BY <1>1, <2>1, <2>4
    <3> QED
      BY <2>2, <3>1 DEF Before
  <2> QED
    BY <2>1, <2>3, <2>4
<1> QED
  BY <1>1, <1>2, <1>3, <1>4

LEMMA BeforeIn == \A q, x, y : Before(x, y, q) => In(x, q) /\ In(y, q)
  BY DEF Before, In
--------------------------------------------------------------------------------
(* A new priority and the runqueue *)

LEMMA PriosAreNat ==
    ASSUME Typing, NEW t \in Tasks
    PROVE  sp[t] \in Params /\ sp[t].prio \in Nat /\ sp[t].normal_prio \in Nat
           /\ sp[t].static_prio \in Nat
<1>1. sp[t] \in Params
  BY DEF Typing
<1>2. sp[t].prio \in Priorities /\ sp[t].normal_prio \in Priorities /\ sp[t].static_prio \in Priorities
  BY <1>1 DEF Params
<1>3. \A n \in Priorities : n \in Nat
  BY DEF Priorities
<1> QED
  BY <1>1, <1>2, <1>3

\* resched_curr takes no request back.
LEMMA ReschedEffect ==
    ASSUME Typing, NEW must \in BOOLEAN, NEW may \in BOOLEAN, ReschedCurr(must, may)
    PROVE  need_resched' \in BOOLEAN /\ (need_resched => need_resched') /\ (must => need_resched')
  BY Zenon DEF ReschedCurr, Typing

\* check_class_changed asks for __schedule where it has to.
LEMMA ClassChangedEffect ==
    ASSUME Typing, NEW p \in Tasks, NEW new \in Params, ClassChanged(p, sp[p], new)
    PROVE  /\ need_resched' \in BOOLEAN /\ (need_resched => need_resched')
           /\ p \in on_rq /\ p = curr /\ sp[p].prio < new.prio => need_resched'
           /\ p \in on_rq /\ p # curr /\ Preempts(new) /\ sp[p].class # new.class => need_resched'
           /\ p \in on_rq /\ p # curr /\ Preempts(new) /\ sp[p].prio # new.prio => need_resched'
<1> DEFINE old == sp[p]
           must == old.prio < new.prio \/ (old.class # new.class /\ new.class = "fair")
<1>1. must \in BOOLEAN /\ Preempts(new) \in BOOLEAN /\ MayPreempt(new) \in BOOLEAN
  BY Zenon DEF Preempts, MayPreempt
<1>2. CASE p \in on_rq /\ (old.class # new.class \/ old.prio # new.prio) /\ p = curr
  <2>1. ReschedCurr(must, FALSE)
    BY <1>2 DEF ClassChanged
  <2> HIDE DEF must
  <2>2. need_resched' \in BOOLEAN /\ (need_resched => need_resched') /\ (must => need_resched')
    BY <1>1, <2>1, ReschedEffect
  <2> QED
    BY <1>2, <2>2 DEF must
<1>3. CASE p \in on_rq /\ (old.class # new.class \/ old.prio # new.prio) /\ p # curr
  <2>1. ReschedCurr(Preempts(new), MayPreempt(new))
    BY <1>3 DEF ClassChanged
  <2>2. /\ need_resched' \in BOOLEAN /\ (need_resched => need_resched')
        /\ Preempts(new) => need_resched'
    BY <1>1, <2>1, ReschedEffect
  <2> QED
    BY <1>3, <2>2
<1>4. CASE ~(p \in on_rq /\ (old.class # new.class \/ old.prio # new.prio))
  <2>1. UNCHANGED need_resched
    BY <1>4 DEF ClassChanged
  <2>2. p \in on_rq => old.prio = new.prio /\ old.class = new.class
    BY <1>4
  <2>3. old.prio \in Int
    BY PriosAreNat
  <2> QED
    BY <2>1, <2>2, <2>3 DEF Typing
<1> QED
  BY <1>2, <1>3, <1>4

\* After a change of p's priority no task waits that would have to preempt current.
LEMMA UrgentAfter ==
    ASSUME Typing, UrgentRuns, Places, NEW p \in Tasks, NEW new \in Params,
           sp' = [sp EXCEPT ![p] = new], ClassChanged(p, sp[p], new),
           on_rq' = on_rq, curr' = curr,
           \A q \in Tasks : life'[q] = "ready" => life[q] = "ready"
    PROVE  UrgentRuns' /\ need_resched' \in BOOLEAN
<1>1. sp'[p] = new /\ \A q \in Tasks \ {p} : sp'[q] = sp[q]
  BY DEF Typing
<1>2. /\ need_resched' \in BOOLEAN /\ (need_resched => need_resched')
      /\ p \in on_rq /\ p = curr /\ sp[p].prio < new.prio => need_resched'
      /\ p \in on_rq /\ p # curr /\ Preempts(new) /\ sp[p].class # new.class => need_resched'
      /\ p \in on_rq /\ p # curr /\ Preempts(new) /\ sp[p].prio # new.prio => need_resched'
  BY ClassChangedEffect
<1>3. \A q \in Tasks : sp[q].prio \in Int
  BY PriosAreNat
<1>4. new.prio \in Int
  BY PolicyAssumption DEF Params, Priorities
<1>5. on_rq \in SUBSET Tasks /\ curr \in Tasks \cup {Idle}
  BY DEF Typing
<1> SUFFICES ASSUME NEW x \in on_rq, x # curr, life'[x] = "ready", ~need_resched',
                    Preempts(sp[x])', curr # Idle => life'[curr] = "ready"
             PROVE  FALSE
  BY <1>2 DEF UrgentRuns
<1>6. ~Preempts(sp[x])
  BY <1>2, <1>5 DEF UrgentRuns
<1>7. curr # Idle /\ curr \in Tasks /\ x \in Tasks
  BY <1>5, <1>6 DEF Preempts
<1>8. ~(sp[x].class = "rt" /\ sp[x].prio < sp[curr].prio)
  BY <1>6 DEF Preempts
<1>9. sp'[x].class = "rt" /\ sp'[x].prio < sp'[curr].prio
  BY <1>7 DEF Preempts
<1>10. CASE x = p
  <2>1. sp'[curr] = sp[curr]
    BY <1>1, <1>7, <1>10
  <2>2. Preempts(new)
    BY <1>1, <1>9, <1>10, <2>1 DEF Preempts
  <2>3. sp[p].class = new.class /\ sp[p].prio = new.prio
    BY <1>2, <1>10, <2>2
  <2> QED
    BY <1>1, <1>8, <1>9, <1>10, <2>1, <2>3
<1>11. CASE x # p /\ p = curr
  <2>1. p \in on_rq
    BY <1>7, <1>11 DEF Places
  <2>2. ~(sp[p].prio < new.prio)
    BY <1>2, <1>11, <2>1
  <2> QED
    BY <1>1, <1>3, <1>4, <1>7, <1>8, <1>9, <1>11, <2>2
<1>12. CASE x # p /\ p # curr
  BY <1>1, <1>7, <1>8, <1>9, <1>12
<1> QED
  BY <1>10, <1>11, <1>12

\* The queue after dequeue_task and enqueue_task: p is where its new priority puts it.
LEMMA RequeuedEffect ==
    ASSUME Typing, AllSound, Queueing, NEW p \in Tasks, NEW new \in Params, Sound(new),
           NEW w, w = Requeued(p, sp[p], new)
    PROVE  /\ w \in Seq(Tasks) /\ Distinct(w)
           /\ \A x \in Tasks \ {p} : In(x, w) <=> In(x, queue)
           /\ In(p, w) <=> p \in on_rq /\ new.class = "rt"
           /\ \A x, y \in Tasks \ {p} : Before(x, y, w) => Before(x, y, queue)
           /\ sp[p].prio < new.prio /\ p \in on_rq => \A x \in Tasks : ~Before(x, p, w)
           /\ new.prio < sp[p].prio => \A y \in Tasks : ~Before(p, y, w)
           /\ sp[p].prio = new.prio => w = queue
<1> DEFINE old == sp[p]
           r == Without(p)
<1>1. queue \in Seq(Tasks) /\ Distinct(queue)
  BY DEF Typing, Queueing
<1>2. /\ r \in Seq(Tasks) /\ Distinct(r) /\ ~In(p, r)
      /\ \A x \in Tasks \ {p} : In(x, r) <=> In(x, queue)
      /\ \A x, y \in Tasks : Before(x, y, r) => Before(x, y, queue)
  BY <1>1, Removed DEF Without
<1>3. \A y \in Tasks : ~Before(p, y, r) /\ ~Before(y, p, r)
  BY <1>2, BeforeIn
<1>4. old.prio \in Int /\ new.prio \in Int
  BY PriosAreNat, PolicyAssumption DEF Params, Priorities
<1>5. In(p, queue) <=> p \in on_rq /\ old.class = "rt"
  BY DEF Queueing
<1>6. old.class = ClassOf(old.prio) /\ new.class = ClassOf(new.prio)
      /\ new.class \in {"fair", "rt"}
  BY DEF AllSound, Sound, ClassOf
<1>7. \/ (p \notin on_rq \/ old.prio = new.prio) /\ w = queue
      \/ p \in on_rq /\ old.prio # new.prio /\ new.class = "fair" /\ w = r
      \/ p \in on_rq /\ old.prio < new.prio /\ new.class = "rt" /\ w = <<p>> \o r
      \/ p \in on_rq /\ new.prio < old.prio /\ new.class = "rt" /\ w = Append(r, p)
  BY <1>4, <1>6 DEF Requeued
<1> HIDE DEF r
<1>8. CASE (p \notin on_rq \/ old.prio = new.prio) /\ w = queue
  <2>1. In(p, queue) <=> p \in on_rq /\ new.class = "rt"
    BY <1>5, <1>6, <1>8
  <2>2. p \notin on_rq => \A y \in Tasks : ~Before(p, y, queue)
    BY <1>5, BeforeIn
  <2> QED
    BY <1>1, <1>4, <1>8, <2>1, <2>2
<1>9. CASE p \in on_rq /\ old.prio # new.prio /\ new.class = "fair" /\ w = r
  BY <1>2, <1>3, <1>9
<1>10. CASE p \in on_rq /\ old.prio < new.prio /\ new.class = "rt" /\ w = <<p>> \o r
  <2>1. /\ w \in Seq(Tasks) /\ Distinct(w)
        /\ \A x \in Tasks : In(x, w) <=> In(x, r) \/ x = p
        /\ \A x, y \in Tasks : Before(x, y, w) => Before(x, y, r) \/ (x = p /\ In(y, r))
    BY <1>2, <1>10, Prepended
  <2> QED
    BY <1>2, <1>3, <1>4, <1>10, <2>1
<1>11. CASE p \in on_rq /\ new.prio < old.prio /\ new.class = "rt" /\ w = Append(r, p)
  <2>1. /\ w \in Seq(Tasks) /\ Distinct(w)
        /\ \A x \in Tasks : In(x, w) <=> In(x, r) \/ x = p
        /\ \A x, y \in Tasks : Before(x, y, w) => Before(x, y, r) \/ y = p
    BY <1>2, <1>11, Appended
  <2>2. \A y \in Tasks : ~Before(p, y, w)
    <3>1. \A y \in Tasks \ {p} : ~Before(p, y, w)
      BY <1>3, <2>1
    <3>2. ~Before(p, p, w)
      BY <2>1 DEF Before, Distinct
    <3> QED
      BY <3>1, <3>2
  <2> QED
    BY <1>2, <1>3, <1>4, <1>11, <2>1, <2>2
<1> QED
  BY <1>7, <1>8, <1>9, <1>10, <1>11

\* What a new priority leaves of the runqueue's invariants.
LEMMA ReprioritisedStep ==
    ASSUME Typing, AllSound, Queueing, UrgentRuns, Turn, Places,
           NEW p \in Tasks, NEW new \in Params, Sound(new), Reprioritised(p, new), curr' = curr,
           \A q \in Tasks : life'[q] = "ready" => life[q] = "ready"
    PROVE  /\ queue' \in Seq(Tasks) /\ moved' \in BOOLEAN /\ need_resched' \in BOOLEAN
           /\ on_rq' = on_rq /\ Queueing' /\ UrgentRuns' /\ Turn'
<1> DEFINE old == sp[p]
           w == Requeued(p, sp[p], new)
<1>1. /\ sp' = [sp EXCEPT ![p] = new] /\ queue' = w /\ ClassChanged(p, sp[p], new)
      /\ on_rq' = on_rq
      /\ moved' = (moved \/ (p = curr /\ new.prio < old.prio)
                         \/ (p # curr /\ p \in on_rq /\ old.prio < new.prio))
  BY DEF Reprioritised
<1>2. moved' \in BOOLEAN
  BY <1>1, Zenon DEF Typing
<1>3. sp'[p] = new /\ \A q \in Tasks \ {p} : sp'[q] = sp[q]
  BY <1>1 DEF Typing
<1>4. UrgentRuns' /\ need_resched' \in BOOLEAN
  BY <1>1, UrgentAfter
<1> HIDE DEF w
<1>5. /\ w \in Seq(Tasks) /\ Distinct(w)
      /\ \A x \in Tasks \ {p} : In(x, w) <=> In(x, queue)
      /\ In(p, w) <=> p \in on_rq /\ new.class = "rt"
      /\ \A x, y \in Tasks \ {p} : Before(x, y, w) => Before(x, y, queue)
      /\ old.prio < new.prio /\ p \in on_rq => \A x \in Tasks : ~Before(x, p, w)
      /\ new.prio < old.prio => \A y \in Tasks : ~Before(p, y, w)
      /\ old.prio = new.prio => w = queue
  BY RequeuedEffect DEF w
<1>6. Queueing'
  <2>1. \A x \in Tasks \ {p} : In(x, w) <=> x \in on_rq /\ sp'[x].class = "rt"
    BY <1>3, <1>5 DEF Queueing
  <2>2. In(p, w) <=> p \in on_rq /\ sp'[p].class = "rt"
    BY <1>3, <1>5
  <2>3. \A x \in Tasks : In(x, queue') <=> x \in on_rq' /\ sp'[x].class = "rt"
    BY <1>1, <2>1, <2>2
  <2>4. Distinct(queue')
    BY <1>1, <1>5
  <2> QED
    BY <2>3, <2>4 DEF Queueing, Distinct, In
<1>7. Turn'
  <2>1. old.prio \in Int /\ new.prio \in Int
    BY PriosAreNat, PolicyAssumption DEF Params, Priorities
  <2>2. old.class = ClassOf(old.prio) /\ new.class = ClassOf(new.prio)
    BY DEF AllSound, Sound
  <2>3. ASSUME ~moved', curr \in Tasks, sp'[curr].class = "rt",
               NEW y \in Tasks, Before(y, curr, w)
        PROVE  sp'[y].prio # sp'[curr].prio
    <3>1. /\ ~moved /\ ~(p = curr /\ new.prio < old.prio)
          /\ ~(p # curr /\ p \in on_rq /\ old.prio < new.prio)
      BY <1>1, <2>3
    <3>2. CASE old.prio = new.prio
      <4>1. Before(y, curr, queue) /\ sp[curr].class = "rt"
        BY <1>3, <1>5, <2>2, <2>3, <3>2
      <4>2. sp[y].prio # sp[curr].prio
        BY <2>3, <3>1, <4>1 DEF Turn
      <4> QED
        BY <1>3, <2>3, <3>2, <4>2
    <3>3. CASE old.prio # new.prio /\ p = curr
      <4>1. old.prio < new.prio /\ p \in on_rq
        BY <2>1, <2>3, <3>1, <3>3 DEF Places
      <4> QED
        BY <1>5, <2>3, <3>3, <4>1
    <3>4. CASE old.prio # new.prio /\ p # curr /\ y # p
      <4>1. Before(y, curr, queue) /\ sp[curr].class = "rt"
        BY <1>3, <1>5, <2>3, <3>4
      <4>2. sp[y].prio # sp[curr].prio
        BY <2>3, <3>1, <4>1 DEF Turn
      <4> QED
        BY <1>3, <2>3, <3>4, <4>2
    <3>5. CASE old.prio # new.prio /\ p # curr /\ y = p
      <4>1. In(p, w)
        BY <2>3, <3>5, BeforeIn
      <4>2. new.prio < old.prio
        BY <1>5, <2>1, <3>1, <3>5, <4>1
      <4> QED
        BY <1>5, <2>3, <3>5, <4>2
    <3> QED
      BY <3>2, <3>3, <3>4, <3>5
  <2>4. \A y \in Tasks : Before(y, curr', queue') <=> Before(y, curr, w)
    BY <1>1
  <2> QED
    BY <2>3, <2>4 DEF Turn, Before
<1> QED
  BY <1>1, <1>2, <1>4, <1>5, <1>6, <1>7
--------------------------------------------------------------------------------
(* The parameters *)

LEMMA EffectivePrio ==
    ASSUME Typing, NEW w \in Tasks \cup {Idle}, NEW n \in Priorities
    PROVE  /\ rt_effective_prio(w, n) \in Priorities /\ rt_effective_prio(w, n) <= n
           /\ w = Idle => rt_effective_prio(w, n) = n
           /\ w # Idle => rt_effective_prio(w, n) <= sp[w].prio
           /\ rt_effective_prio(w, n) = n \/ (w \in Tasks /\ rt_effective_prio(w, n) = sp[w].prio)
<1>1. \A t \in Tasks : sp[t].prio \in Priorities
  BY DEF Typing, Params
<1>2. \A m \in Priorities : m \in Int
  BY DEF Priorities
<1> QED
  BY <1>1, <1>2, PolicyAssumption DEF rt_effective_prio

\* The new parameters are sound, and the new priority is the normal one or the boost.
LEMMA NewParamsSound ==
    ASSUME Typing, AllSound, NEW p \in Tasks, NEW policy \in {"NORMAL", "FIFO"},
           NEW priority \in 0..(MAX_RT_PRIO - 1), NEW n \in -20..19, NEW reset \in BOOLEAN,
           policy = "FIFO" <=> priority # 0, NEW new, new = NewParams(p, policy, priority, n, reset)
    PROVE  /\ new \in Params /\ Sound(new) /\ new.policy = policy
           /\ new.prio = rt_effective_prio(top[p], new.normal_prio)
           /\ policy = "NORMAL" => new.static_prio = NICE_TO_PRIO(n)
<1> DEFINE s == [sp[p] EXCEPT !.policy = policy, !.reset = reset, !.rt_priority = priority,
                              !.static_prio = IF policy = "NORMAL" THEN NICE_TO_PRIO(n) ELSE @]
           prio == NewPrio(p, s)
<1>1. sp[p] \in Params /\ sp[p].static_prio >= MAX_RT_PRIO /\ top[p] \in Tasks \cup {Idle}
  BY DEF Typing, AllSound, Sound
<1>2. NICE_TO_PRIO(n) \in Priorities /\ NICE_TO_PRIO(n) >= MAX_RT_PRIO
  BY PolicyAssumption DEF NICE_TO_PRIO, Priorities
<1>3. /\ s \in Params /\ s.policy = policy /\ s.rt_priority = priority
      /\ s.static_prio = IF policy = "NORMAL" THEN NICE_TO_PRIO(n) ELSE sp[p].static_prio
  BY <1>1, <1>2 DEF Params
<1>4. s.static_prio \in Priorities /\ s.static_prio >= MAX_RT_PRIO
  BY <1>1, <1>2, <1>3 DEF Params
<1> HIDE DEF s
<1>5. /\ normal_prio(s) \in Priorities
      /\ policy = "NORMAL" => normal_prio(s) = s.static_prio
      /\ policy = "FIFO" => normal_prio(s) < MAX_RT_PRIO
  <2>1. MAX_RT_PRIO \in Int /\ priority \in Int
    BY PolicyAssumption
  <2> QED
    BY <1>3, <1>4, <2>1, PolicyAssumption DEF normal_prio, Priorities
<1>6. prio \in Priorities /\ prio = rt_effective_prio(top[p], normal_prio(s))
  BY <1>1, <1>5, EffectivePrio DEF NewPrio
<1> HIDE DEF prio
<1>7. new = [s EXCEPT !.normal_prio = normal_prio(s), !.prio = prio, !.class = ClassOf(prio)]
  BY DEF NewParams, s, prio
<1>8. ClassOf(prio) \in {"fair", "rt"}
  BY DEF ClassOf
<1>9. /\ new \in Params /\ new.policy = policy /\ new.rt_priority = priority
      /\ new.static_prio = s.static_prio /\ new.normal_prio = normal_prio(s)
      /\ new.prio = prio /\ new.class = ClassOf(prio)
  BY <1>3, <1>5, <1>6, <1>7, <1>8 DEF Params
<1>10. policy = "FIFO" <=> new.rt_priority > 0
  BY <1>9, PolicyAssumption
<1> QED
  BY <1>3, <1>4, <1>5, <1>6, <1>9, <1>10 DEF Sound

\* sched_fork: the child's parameters are sound, and in the kernel of cfs/ nothing
\* inherited is passed on.
LEMMA ForkSound ==
    ASSUME Typing, NEW s \in Params, Sound(s), NEW child, child = SchedFork(s)
    PROVE  /\ child \in Params /\ Sound(child)
           /\ kernel = "cfs" => child.prio = child.normal_prio
           /\ kernel = "cfs" /\ Modest(s) => Modest(child)
<1> DEFINE h == MAX_RT_PRIO \div 2
           a == IF kernel = "cfs" THEN ForkPrioCfs(s) ELSE ForkPrioFifo(s)
           b == ForkReset(a)
<1>0. MAX_RT_PRIO \in Nat /\ MAX_RT_PRIO >= 4 /\ kernel \in {"cfs", "fifo"}
  BY PolicyAssumption DEF Typing
<1>1. h \in 0..(MAX_RT_PRIO - 1) /\ h > 0 /\ h \in Priorities /\ h < MAX_RT_PRIO
  BY <1>0 DEF Priorities
<1> HIDE DEF h
<1>2. /\ a \in Params /\ a.static_prio = s.static_prio /\ a.reset = s.reset
      /\ a.policy = "FIFO" <=> a.rt_priority > 0
      /\ a.policy = "NORMAL" => a.normal_prio = a.static_prio
      /\ a.policy = "FIFO" => a.normal_prio < MAX_RT_PRIO
      /\ kernel = "cfs" => a.prio = a.normal_prio /\ a.policy = s.policy
  <2>1. CASE kernel = "cfs"
    BY <2>1 DEF ForkPrioCfs, Params, Sound
  <2>2. CASE kernel # "cfs" /\ s.policy = "FIFO"
    BY <1>0, <2>2 DEF ForkPrioFifo, Params, Sound
  <2>3. CASE kernel # "cfs" /\ s.policy # "FIFO"
    <3>1. a = [s EXCEPT !.prio = h, !.normal_prio = h, !.rt_priority = h, !.policy = "FIFO"]
      BY <1>0, <2>3 DEF ForkPrioFifo, Params, h
    <3>2. /\ a \in Params /\ a.static_prio = s.static_prio /\ a.reset = s.reset
          /\ a.policy = "FIFO" /\ a.rt_priority = h /\ a.normal_prio = h
      <4>1. "FIFO" \in {"NORMAL", "FIFO"}
        OBVIOUS
      <4> HIDE DEF a
      <4> QED
        BY <1>1, <3>1, <4>1 DEF Params
    <3> QED
      BY <1>1, <2>3, <3>2
  <2> QED
    BY <2>1, <2>2, <2>3
<1>3. s.static_prio >= MAX_RT_PRIO /\ s.static_prio \in Priorities /\ \A m \in Priorities : m \in Int
  BY DEF Sound, Params, Priorities
<1> HIDE DEF a
<1> DEFINE z == IF a.policy = "FIFO" \/ Nice(a) < 0 THEN NICE_TO_PRIO(0) ELSE a.static_prio
<1>4. z \in Priorities /\ z >= MAX_RT_PRIO /\ (Nice(a) >= 0 => z >= MAX_RT_PRIO + 20)
  BY <1>0, <1>2, <1>3 DEF Nice, NICE_TO_PRIO, Priorities
<1> HIDE DEF z
<1>5. /\ b \in Params /\ b.static_prio >= MAX_RT_PRIO
      /\ b.policy = "FIFO" <=> b.rt_priority > 0
      /\ b.policy = "NORMAL" => b.normal_prio = b.static_prio
      /\ b.policy = "FIFO" => b.normal_prio < MAX_RT_PRIO
      /\ kernel = "cfs" => b.prio = b.normal_prio
      /\ s.policy = "NORMAL" /\ kernel = "cfs" /\ s.static_prio >= MAX_RT_PRIO + 20 =>
            b.policy = "NORMAL" /\ b.static_prio >= MAX_RT_PRIO + 20
  <2>1. CASE ~a.reset
    BY <1>2, <1>3, <2>1 DEF ForkReset
  <2>2. CASE a.reset
    <3> DEFINE k == IF a.policy = "FIFO" THEN 0 ELSE a.rt_priority
    <3>0. k \in 0..(MAX_RT_PRIO - 1)
      BY <1>0, <1>2 DEF Params
    <3>1. b = [a EXCEPT !.policy = "NORMAL", !.static_prio = z, !.prio = z,
                        !.normal_prio = z, !.reset = FALSE,
                        !.rt_priority = k]
      BY <2>2 DEF ForkReset, z
    <3>2. /\ b \in Params /\ b.policy = "NORMAL" /\ b.static_prio = z /\ b.prio = z
          /\ b.normal_prio = z /\ b.rt_priority = k
      <4> HIDE DEF b, k
      <4> QED
        BY <1>2, <1>4, <3>0, <3>1 DEF Params
    <3>3. ~(b.rt_priority > 0)
      BY <1>2, <3>2 DEF Params
    <3>4. s.static_prio >= MAX_RT_PRIO + 20 => Nice(a) >= 0
      BY <1>0, <1>2, <1>3 DEF Nice
    <3> QED
      BY <1>4, <3>2, <3>3, <3>4
  <2> QED
    BY <2>1, <2>2
<1> HIDE DEF b
<1>6. child = [b EXCEPT !.class = ClassOf(b.prio)]
  BY DEF SchedFork, a, b
<1>7. ClassOf(b.prio) \in {"fair", "rt"}
  BY DEF ClassOf
<1>8. /\ child \in Params /\ child.class = ClassOf(child.prio)
      /\ child.prio = b.prio /\ child.normal_prio = b.normal_prio /\ child.policy = b.policy
      /\ child.static_prio = b.static_prio /\ child.rt_priority = b.rt_priority
  BY <1>5, <1>6, <1>7 DEF Params
<1>9. Sound(child)
  BY <1>5, <1>8 DEF Sound
<1>10. kernel = "cfs" /\ Modest(s) => Modest(child)
  <2>1. child.static_prio \in Int
    BY <1>3, <1>8 DEF Params
  <2> QED
    BY <1>0, <1>5, <1>8, <2>1 DEF Modest, rt_prio
<1> QED
  BY <1>5, <1>8, <1>9, <1>10

\* The parameters set_user_nice gives a task.
Niced(p, n) ==
    LET s == [sp[p] EXCEPT !.static_prio = NICE_TO_PRIO(n)]
    IN IF s.policy = "FIFO" THEN s
       ELSE [s EXCEPT !.normal_prio = normal_prio(s), !.prio = effective_prio(s)]

\* set_user_nice keeps a boost to a real-time priority, and otherwise follows static_prio.
LEMMA NiceSound ==
    ASSUME Typing, AllSound, NEW p \in Tasks, NEW n \in -20..19, NEW new, new = Niced(p, n)
    PROVE  /\ new \in Params /\ Sound(new) /\ new.policy = sp[p].policy
           /\ new.class = sp[p].class /\ new.static_prio = NICE_TO_PRIO(n)
           /\ rt_prio(sp[p].prio) \/ rt_prio(new.prio) => new.prio = sp[p].prio
           /\ sp[p].prio = sp[p].normal_prio => new.prio = new.normal_prio
<1>1. sp[p] \in Params /\ Sound(sp[p]) /\ MAX_RT_PRIO \in Nat
  BY PolicyAssumption DEF Typing, AllSound
<1>2. NICE_TO_PRIO(n) \in Priorities /\ NICE_TO_PRIO(n) >= MAX_RT_PRIO
  BY PolicyAssumption DEF NICE_TO_PRIO, Priorities
<1> DEFINE z == NICE_TO_PRIO(n)
           s == [sp[p] EXCEPT !.static_prio = NICE_TO_PRIO(n)]
<1>6. new = IF s.policy = "FIFO" THEN s
            ELSE [s EXCEPT !.normal_prio = normal_prio(s), !.prio = effective_prio(s)]
  BY DEF Niced
<1> HIDE DEF z
<1>3. /\ s \in Params /\ s.static_prio = z /\ s.policy = sp[p].policy
      /\ s.prio = sp[p].prio /\ s.normal_prio = sp[p].normal_prio /\ s.class = sp[p].class
      /\ s.rt_priority = sp[p].rt_priority
  BY <1>1, <1>2 DEF Params, z
<1> HIDE DEF s
<1>4. CASE s.policy = "FIFO"
  BY <1>1, <1>2, <1>3, <1>4, <1>6 DEF Sound, z
<1>5. CASE s.policy # "FIFO"
  <2>1. s.policy = "NORMAL" /\ normal_prio(s) = z
    BY <1>3, <1>5 DEF Params, normal_prio
  <2>2. effective_prio(s) = IF rt_prio(sp[p].prio) THEN sp[p].prio ELSE z
    BY <1>3, <2>1 DEF effective_prio
  <2> DEFINE e == effective_prio(s)
  <2>3. e \in Priorities /\ sp[p].prio \in Priorities
    BY <1>1, <1>2, <2>2 DEF Params, z
  <2> HIDE DEF e
  <2>4. new = [s EXCEPT !.normal_prio = z, !.prio = e]
    BY <1>5, <1>6, <2>1 DEF e
  <2>5. /\ new \in Params /\ new.policy = "NORMAL" /\ new.static_prio = z /\ new.normal_prio = z
        /\ new.prio = e /\ new.class = sp[p].class /\ new.rt_priority = s.rt_priority
    BY <1>2, <1>3, <2>1, <2>3, <2>4 DEF Params, z
  <2>6. e = IF rt_prio(sp[p].prio) THEN sp[p].prio ELSE z
    BY <2>2 DEF e
  <2>7. ~rt_prio(z)
    BY <1>1, <1>2 DEF rt_prio, z, Priorities
  <2>8. ClassOf(e) = ClassOf(sp[p].prio)
    BY <2>6, <2>7 DEF ClassOf
  <2>9. sp[p].prio = sp[p].normal_prio => ~rt_prio(sp[p].prio)
    BY <1>1, <1>3, <2>1 DEF Sound, rt_prio, Params, Priorities
  <2> QED
    BY <1>1, <1>2, <1>3, <2>1, <2>5, <2>6, <2>7, <2>8, <2>9 DEF Sound, z
<1> QED
  BY <1>4, <1>5
--------------------------------------------------------------------------------
(* Parts of the invariant an action leaves alone *)

LEMMA KeepTiming ==
    ASSUME Timing, UNCHANGED <<acc, used, since, curr, kernel>>,
           \A t \in Tasks : life'[t] = "unborn" => life[t] = "unborn"
    PROVE  Timing'
  BY DEF Timing

LEMMA KeepParams ==
    ASSUME AllSound, AllModest, Checked, UNCHANGED <<sp, call, kernel, privileged>>
    PROVE  AllSound' /\ AllModest' /\ Checked'
  BY DEF AllSound, AllModest, Checked, Sound, Modest

LEMMA KeepRunqueue ==
    ASSUME Queueing, UrgentRuns, Turn, UNCHANGED <<sp, on_rq, queue, need_resched, moved, curr>>,
           Typing, \A q \in Tasks : life'[q] = "ready" => life[q] = "ready"
    PROVE  Queueing' /\ UrgentRuns' /\ Turn'
<1>1. \A x, y : In(x, queue)' = In(x, queue) /\ Before(x, y, queue)' = Before(x, y, queue)
  BY DEF In, Before
<1>2. Queueing'
  BY <1>1 DEF Queueing, Distinct
<1>3. Turn'
  BY DEF Turn, Before
<1>4. UrgentRuns'
  BY DEF UrgentRuns, Preempts, Typing
<1> QED
  BY <1>2, <1>3, <1>4

LEMMA KeepPi ==
    ASSUME Waiting, Boosting, Unboosted, UNCHANGED <<sp, blocked, top, adjust, kernel>>,
           Typing, \A q \in Tasks : Live(q)' => Live(q),
           \A w \in Tasks : blocked[w] # Idle => life'[w] = life[w] /\ life'[blocked[w]] = "ready"
    PROVE  Waiting' /\ Boosting' /\ Unboosted'
<1>1. Waiting'
  BY DEF Waiting
<1>2. Boosting'
  BY DEF Boosting
<1>3. Unboosted'
  BY DEF Unboosted
<1> QED
  BY <1>1, <1>2, <1>3
--------------------------------------------------------------------------------
(* Priority inheritance *)

\* rt_mutex_setprio changes the priority of one task, to the one it should have.
LEMMA SetprioEffect ==
    ASSUME Typing, AllSound, Queueing, UrgentRuns, Turn, Places,
           NEW p \in Tasks, NEW w \in Tasks \cup {Idle}, RtMutexSetprio(p, w), curr' = curr,
           \A q \in Tasks : life'[q] = "ready" => life[q] = "ready"
    PROVE  /\ sp' \in [Tasks -> Params] /\ \A q \in Tasks \ {p} : sp'[q] = sp[q]
           /\ Sound(sp'[p]) /\ sp'[p].policy = sp[p].policy
           /\ sp'[p].static_prio = sp[p].static_prio /\ sp'[p].normal_prio = sp[p].normal_prio
           /\ sp'[p].prio = rt_effective_prio(w, sp[p].normal_prio)
           /\ top' = [top EXCEPT ![p] = w]
           /\ queue' \in Seq(Tasks) /\ moved' \in BOOLEAN /\ need_resched' \in BOOLEAN
           /\ on_rq' = on_rq /\ Queueing' /\ UrgentRuns' /\ Turn'
<1> DEFINE prio == rt_effective_prio(w, sp[p].normal_prio)
           new == [sp[p] EXCEPT !.prio = prio, !.class = ClassOf(prio)]
<1>1. sp[p] \in Params /\ sp[p].normal_prio \in Priorities /\ Sound(sp[p])
  BY DEF Typing, Params, AllSound
<1>2. prio \in Priorities /\ ClassOf(prio) \in {"fair", "rt"}
  BY <1>1, EffectivePrio DEF ClassOf
<1>3. top' = [top EXCEPT ![p] = w]
  BY DEF RtMutexSetprio
<1>4. CASE prio = sp[p].prio
  <2>1. UNCHANGED <<sp, on_rq, queue, need_resched, moved>>
    BY <1>4 DEF RtMutexSetprio, rq
  <2>2. Queueing' /\ UrgentRuns' /\ Turn'
    BY <2>1, KeepRunqueue
  <2> QED
    BY <1>1, <1>3, <1>4, <2>1, <2>2 DEF Typing
<1>5. CASE prio # sp[p].prio
  <2>1. Reprioritised(p, new)
    BY <1>5 DEF RtMutexSetprio
  <2> HIDE DEF prio
  <2>2. /\ new \in Params /\ new.prio = prio /\ new.class = ClassOf(prio)
        /\ new.policy = sp[p].policy /\ new.static_prio = sp[p].static_prio
        /\ new.normal_prio = sp[p].normal_prio /\ new.rt_priority = sp[p].rt_priority
    BY <1>1, <1>2 DEF Params
  <2> HIDE DEF new
  <2>3. Sound(new)
    BY <1>1, <2>2 DEF Sound
  <2>4. sp' = [sp EXCEPT ![p] = new]
    BY <2>1 DEF Reprioritised
  <2>5. sp' \in [Tasks -> Params] /\ sp'[p] = new /\ \A q \in Tasks \ {p} : sp'[q] = sp[q]
    BY <2>2, <2>4 DEF Typing
  <2>6. /\ queue' \in Seq(Tasks) /\ moved' \in BOOLEAN /\ need_resched' \in BOOLEAN
        /\ on_rq' = on_rq /\ Queueing' /\ UrgentRuns' /\ Turn'
    BY <2>1, <2>2, <2>3, ReprioritisedStep
  <2> QED
    BY <1>3, <2>2, <2>3, <2>5, <2>6 DEF prio
<1> QED
  BY <1>4, <1>5

\* The owner p gets the priority of its most urgent waiter; nobody else's waiters change.
LEMMA PiStep ==
    ASSUME Inv, NEW p \in Tasks, NEW W \in SUBSET Tasks, NEW w \in TopWaiters(W),
           RtMutexSetprio(p, w),
           blocked' \in [Tasks -> Tasks \cup {Idle}], adjust' \in SUBSET Tasks,
           life' \in [Tasks -> {"unborn", "ready", "blocked", "released", "dead"}],
           calls' \in 0..MaxCalls,
           \A v \in Tasks : blocked'[v] = p <=> v \in W,
           \A v, q \in Tasks : q # p => (blocked'[v] = q <=> blocked[v] = q),
           blocked[p] = Idle, blocked'[p] = Idle,
           \A v \in Tasks : v \in adjust /\ v \notin adjust' => blocked[v] \in {p, Idle},
           \A q \in Tasks : life'[q] = "ready" => life[q] = "ready",
           \A q \in Tasks : life[q] = "ready" /\ q # curr => life'[q] = "ready",
           \A q \in Tasks : (life'[q] = "unborn" => life[q] = "unborn") /\ (Live(q)' => Live(q)),
           curr \in Tasks => life'[curr] \notin {"unborn", "released"},
           \A v \in Tasks : blocked'[v] # Idle => life'[v] = "blocked" /\ life'[blocked'[v]] = "ready",
           UNCHANGED <<kernel, privileged, curr, acc, since, used, call>>
    PROVE  Inv'
<1> USE DEF Inv
<1>1. w \in Tasks \cup {Idle} /\ (W = {} => w = Idle)
      /\ (W # {} => w \in W /\ \A v \in W : sp[w].prio <= sp[v].prio)
  BY DEF TopWaiters
<1>2. /\ sp' \in [Tasks -> Params] /\ \A q \in Tasks \ {p} : sp'[q] = sp[q]
      /\ Sound(sp'[p]) /\ sp'[p].policy = sp[p].policy
      /\ sp'[p].static_prio = sp[p].static_prio /\ sp'[p].normal_prio = sp[p].normal_prio
      /\ sp'[p].prio = rt_effective_prio(w, sp[p].normal_prio)
      /\ top' = [top EXCEPT ![p] = w]
      /\ queue' \in Seq(Tasks) /\ moved' \in BOOLEAN /\ need_resched' \in BOOLEAN
      /\ on_rq' = on_rq /\ Queueing' /\ UrgentRuns' /\ Turn'
  BY <1>1, SetprioEffect
<1>3. top'[p] = w /\ top' \in [Tasks -> Tasks \cup {Idle}] /\ \A q \in Tasks \ {p} : top'[q] = top[q]
  BY <1>1, <1>2 DEF Typing
<1>4. sp[p].normal_prio \in Priorities /\ sp[p].prio \in Int /\ MAX_RT_PRIO \in Nat
  BY PriosAreNat, PolicyAssumption DEF Typing, Params
<1> DEFINE e == rt_effective_prio(w, sp[p].normal_prio)
<1>5. /\ e \in Priorities /\ (w = Idle => e = sp[p].normal_prio) /\ (w # Idle => e <= sp[w].prio)
      /\ e = sp[p].normal_prio \/ (w \in Tasks /\ e = sp[w].prio)
  BY <1>1, <1>4, EffectivePrio
<1> HIDE DEF e
<1>6. Typing'
  BY <1>2, <1>3 DEF Typing
<1>7. AllSound'
  <2>1. \A q \in Tasks : Sound(sp'[q])
    BY <1>2 DEF AllSound
  <2> QED
    BY <2>1 DEF AllSound, Sound
<1>8. AllModest'
  <2>1. ASSUME kernel = "cfs", ~privileged, NEW q \in Tasks PROVE Modest(sp'[q])
    <3>1. Modest(sp[q]) /\ \A t \in Tasks : Modest(sp[t])
      BY <2>1 DEF AllModest
    <3>2. CASE q = p
      <4>1. sp[p].normal_prio = sp[p].static_prio
        BY <3>1, <3>2 DEF Modest, AllSound, Sound
      <4>2. ~rt_prio(e)
        <5>1. sp[p].static_prio \in Int
          BY PriosAreNat
        <5> QED
          BY <1>4, <1>5, <3>1, <4>1, <5>1 DEF Modest, rt_prio
      <4> QED
        BY <1>2, <3>1, <3>2, <4>2 DEF Modest, e
    <3> QED
      BY <1>2, <3>1, <3>2
  <2> QED
    BY <2>1 DEF AllModest, Modest
<1>9. Checked'
  BY DEF Checked
<1>10. Places'
  BY <1>2 DEF Places, Typing
<1>11. Timing'
  BY KeepTiming
<1>12. Waiting'
  <2>1. \A q \in Tasks : top'[q] # Idle => blocked'[top'[q]] = q
    <3>1. \A q \in Tasks \ {p} : top'[q] # Idle => blocked'[top'[q]] = q
      BY <1>3 DEF Waiting, Typing
    <3>2. top'[p] # Idle => blocked'[top'[p]] = p
      BY <1>1, <1>3
    <3> QED
      BY <3>1, <3>2
  <2> QED
    BY <2>1 DEF Waiting
<1>13. Boosting'
  <2> SUFFICES ASSUME NEW q \in Tasks, NEW v \in Tasks, blocked'[v] = q, rt_prio(sp'[v].prio),
                      \A x \in Tasks : blocked'[x] = q => x \notin adjust'
               PROVE  /\ top'[q] # Idle /\ sp'[top'[q]].prio <= sp'[v].prio
                      /\ sp'[q].prio <= sp'[top'[q]].prio
    BY DEF Boosting, rt_prio
  <2>1. v # p /\ sp'[v] = sp[v]
    BY <1>2, PolicyAssumption
  <2>2. CASE q = p
    <3>1. v \in W /\ w \in W /\ w \in Tasks /\ w # p /\ w # Idle /\ sp[w].prio <= sp[v].prio
      BY <1>1, <2>2, PolicyAssumption
    <3>2. sp'[w] = sp[w]
      BY <1>2, <3>1
    <3>3. sp'[p].prio <= sp[w].prio
      BY <1>2, <1>5, <3>1 DEF e
    <3> QED
      BY <1>3, <2>1, <2>2, <3>1, <3>2, <3>3
  <2>3. CASE q # p
    <3>1. blocked[v] = q /\ rt_prio(sp[v].prio)
      BY <2>1, <2>3
    <3>2. \A x \in Tasks : blocked[x] = q => x \notin adjust
      BY <2>3, PolicyAssumption
    <3>3. top[q] # Idle /\ sp[top[q]].prio <= sp[v].prio /\ sp[q].prio <= sp[top[q]].prio
      BY <3>1, <3>2 DEF Boosting
    <3>4. top[q] \in Tasks /\ blocked[top[q]] = q
      BY <3>3 DEF Typing, Waiting
    <3>5. top[q] # p /\ sp'[top[q]] = sp[top[q]] /\ sp'[q] = sp[q] /\ top'[q] = top[q]
      BY <1>2, <1>3, <2>3, <3>4, PolicyAssumption
    <3> QED
      BY <2>1, <3>3, <3>5
  <2> QED
    BY <2>2, <2>3
<1>14. Unboosted'
  <2> SUFFICES ASSUME kernel = "cfs", NEW q \in Tasks, Live(q)', \A x \in Tasks : blocked'[x] # q
               PROVE  sp'[q].prio = sp'[q].normal_prio
    BY DEF Unboosted, Live
  <2>1. CASE q = p
    <3>1. W = {}
      BY <2>1
    <3> QED
      BY <1>1, <1>2, <1>5, <2>1, <3>1 DEF e
  <2>2. CASE q # p
    <3>1. Live(q) /\ \A x \in Tasks : blocked[x] # q
      BY <2>2
    <3> QED
      BY <1>2, <2>2, <3>1 DEF Unboosted
  <2> QED
    BY <2>1, <2>2
<1> QED
  BY <1>2, <1>6, <1>7, <1>8, <1>9, <1>10, <1>11, <1>12, <1>13, <1>14

LEMMA BlockStep ==
    ASSUME Inv, NEW t \in Tasks, NEW p \in Tasks, Block(t, p), calls' \in 0..MaxCalls
    PROVE  Inv'
<1> DEFINE W == WaitersOf(p) \cup {t}
<1>1. /\ curr = t /\ life[t] = "ready" /\ p # t /\ life[p] = "ready" /\ WaitersOf(t) = {}
      /\ blocked' = [blocked EXCEPT ![t] = p] /\ life' = [life EXCEPT ![t] = "blocked"]
      /\ \E w \in TopWaiters(W) : RtMutexSetprio(p, w)
      /\ UNCHANGED <<kernel, privileged, curr, acc, since, used, call, adjust>>
  BY DEF Block, Runs, machine, time
<1>2. /\ blocked'[t] = p /\ \A v \in Tasks \ {t} : blocked'[v] = blocked[v]
      /\ blocked' \in [Tasks -> Tasks \cup {Idle}]
      /\ life'[t] = "blocked" /\ \A v \in Tasks \ {t} : life'[v] = life[v]
      /\ life' \in [Tasks -> {"unborn", "ready", "blocked", "released", "dead"}]
      /\ adjust' \in SUBSET Tasks
  BY <1>1 DEF Inv, Typing
<1>3. blocked[t] = Idle /\ blocked[p] = Idle
  BY <1>1 DEF Inv, Waiting
<1>4. W \in SUBSET Tasks /\ \A v \in Tasks : v \in W <=> blocked[v] = p \/ v = t
  BY DEF WaitersOf
<1>5. \A v \in Tasks : blocked[v] # t
  BY <1>1 DEF WaitersOf
<1> HIDE DEF W
<1>6. PICK w \in TopWaiters(W) : RtMutexSetprio(p, w)
  BY <1>1
<1>7. \A v \in Tasks : blocked'[v] # Idle => life'[v] = "blocked" /\ life'[blocked'[v]] = "ready"
  <2>1. \A v \in Tasks \ {t} : blocked'[v] # Idle =>
            life'[v] = "blocked" /\ life'[blocked'[v]] = "ready"
    BY <1>2, <1>5 DEF Inv, Waiting, Typing
  <2> QED
    BY <1>1, <1>2, <2>1
<1>8. /\ \A q \in Tasks : life'[q] = "ready" => life[q] = "ready"
      /\ \A q \in Tasks : life[q] = "ready" /\ q # curr => life'[q] = "ready"
      /\ \A q \in Tasks : (life'[q] = "unborn" => life[q] = "unborn") /\ (Live(q)' => Live(q))
      /\ curr \in Tasks => life'[curr] \notin {"unborn", "released"}
  BY <1>1, <1>2 DEF Live
<1>9. /\ \A v \in Tasks : blocked'[v] = p <=> v \in W
      /\ \A v, q \in Tasks : q # p => (blocked'[v] = q <=> blocked[v] = q)
      /\ blocked'[p] = Idle
      /\ \A v \in Tasks : v \in adjust /\ v \notin adjust' => blocked[v] \in {p, Idle}
  BY <1>1, <1>2, <1>3, <1>4, PolicyAssumption
<1> QED
  BY <1>1, <1>2, <1>3, <1>4, <1>6, <1>7, <1>8, <1>9, PiStep

LEMMA UnlockStep ==
    ASSUME Inv, NEW t \in Tasks, NEW u \in Tasks, Unlock(t, u), calls' \in 0..MaxCalls
    PROVE  Inv'
<1> DEFINE W == WaitersOf(t) \ {u}
<1>1. /\ curr = t /\ life[t] = "ready" /\ blocked[u] = t
      /\ blocked' = [blocked EXCEPT ![u] = Idle] /\ life' = [life EXCEPT ![u] = "released"]
      /\ \E w \in TopWaiters(W) : RtMutexSetprio(t, w)
      /\ UNCHANGED <<kernel, privileged, curr, acc, since, used, call, adjust>>
  BY DEF Unlock, Runs, machine, time
<1>2. /\ blocked'[u] = Idle /\ \A v \in Tasks \ {u} : blocked'[v] = blocked[v]
      /\ blocked' \in [Tasks -> Tasks \cup {Idle}]
      /\ life'[u] = "released" /\ \A v \in Tasks \ {u} : life'[v] = life[v]
      /\ life' \in [Tasks -> {"unborn", "ready", "blocked", "released", "dead"}]
      /\ adjust' \in SUBSET Tasks
  BY <1>1 DEF Inv, Typing
<1>3. t # Idle /\ life[u] = "blocked" /\ u # t /\ blocked[t] = Idle
  BY <1>1, PolicyAssumption DEF Inv, Waiting
<1>4. W \in SUBSET Tasks /\ \A v \in Tasks : v \in W <=> blocked[v] = t /\ v # u
  BY DEF WaitersOf
<1> HIDE DEF W
<1>6. PICK w \in TopWaiters(W) : RtMutexSetprio(t, w)
  BY <1>1
<1>7. \A v \in Tasks : blocked'[v] # Idle => life'[v] = "blocked" /\ life'[blocked'[v]] = "ready"
  <2>1. \A v \in Tasks : blocked[v] # Idle =>
            blocked[v] \in Tasks /\ life[v] = "blocked" /\ life[blocked[v]] = "ready"
    BY DEF Inv, Waiting, Typing
  <2>2. \A v \in Tasks : blocked[v] # Idle => blocked[v] # u
    BY <1>3, <2>1
  <2> QED
    BY <1>2, <2>1, <2>2
<1>8. /\ \A q \in Tasks : life'[q] = "ready" => life[q] = "ready"
      /\ \A q \in Tasks : life[q] = "ready" /\ q # curr => life'[q] = "ready"
      /\ \A q \in Tasks : (life'[q] = "unborn" => life[q] = "unborn") /\ (Live(q)' => Live(q))
      /\ curr \in Tasks => life'[curr] \notin {"unborn", "released"}
  BY <1>1, <1>2, <1>3 DEF Live
<1>9. /\ \A v \in Tasks : blocked'[v] = t <=> v \in W
      /\ \A v, q \in Tasks : q # t => (blocked'[v] = q <=> blocked[v] = q)
      /\ blocked'[t] = Idle
      /\ \A v \in Tasks : v \in adjust /\ v \notin adjust' => blocked[v] \in {t, Idle}
  BY <1>1, <1>2, <1>3, <1>4, PolicyAssumption
<1> QED
  BY <1>1, <1>2, <1>3, <1>4, <1>6, <1>7, <1>8, <1>9, PiStep

LEMMA AdjustPiStep ==
    ASSUME Inv, NEW p \in Tasks, AdjustPi(p), calls' \in 0..MaxCalls
    PROVE  Inv'
<1> DEFINE q == blocked[p]
           W == WaitersOf(q)
<1>1. /\ p \in adjust /\ adjust' = adjust \ {p}
      /\ UNCHANGED <<kernel, privileged, life, blocked, curr, acc, since, used, call>>
      /\ \/ q = Idle /\ UNCHANGED <<sp, top, on_rq, queue, need_resched, moved>>
         \/ q # Idle /\ \E w \in TopWaiters(W) : RtMutexSetprio(q, w)
  BY DEF AdjustPi, machine, time, rq
<1>2. CASE q = Idle /\ UNCHANGED <<sp, top, on_rq, queue, need_resched, moved>>
  <2>1. Typing'
    BY <1>1, <1>2 DEF Inv, Typing
  <2>2. Queueing' /\ UrgentRuns' /\ Turn'
    BY <1>1, <1>2, KeepRunqueue DEF Inv
  <2>3. AllSound' /\ AllModest' /\ Checked'
    BY <1>1, <1>2, KeepParams DEF Inv
  <2>4. Places' /\ Timing' /\ Waiting' /\ Unboosted'
    BY <1>1, <1>2 DEF Inv, Places, Timing, Waiting, Unboosted, Live
  <2>5. Boosting'
    <3>1. \A x, y \in Tasks : blocked[x] = y /\ x \notin adjust' => x \notin adjust
      BY <1>1, <1>2, PolicyAssumption
    <3> QED
      BY <1>1, <1>2, <3>1 DEF Inv, Boosting
  <2> QED
    BY <2>1, <2>2, <2>3, <2>4, <2>5 DEF Inv
<1>3. CASE q # Idle /\ \E w \in TopWaiters(W) : RtMutexSetprio(q, w)
  <2>1. q \in Tasks /\ life[q] = "ready" /\ blocked[q] = Idle
    BY <1>3 DEF Inv, Waiting, Typing
  <2>2. W \in SUBSET Tasks /\ \A v \in Tasks : v \in W <=> blocked[v] = q
    BY DEF WaitersOf
  <2>3. /\ blocked' \in [Tasks -> Tasks \cup {Idle}] /\ adjust' \in SUBSET Tasks
        /\ life' \in [Tasks -> {"unborn", "ready", "blocked", "released", "dead"}]
    BY <1>1 DEF Inv, Typing
  <2>4. /\ \A v \in Tasks : v \in adjust /\ v \notin adjust' => blocked[v] \in {q, Idle}
        /\ \A v \in Tasks : blocked[v] # Idle => life[v] = "blocked" /\ life[blocked[v]] = "ready"
        /\ curr \in Tasks => life[curr] \notin {"unborn", "released"}
        /\ \A v \in Tasks : Live(v)' => Live(v)
    BY <1>1 DEF Inv, Waiting, Places, Live
  <2> HIDE DEF W, q
  <2>5. PICK w \in TopWaiters(W) : RtMutexSetprio(q, w)
    BY <1>3
  <2> QED
    BY <1>1, <2>1, <2>2, <2>3, <2>4, <2>5, PiStep
<1> QED
  BY <1>1, <1>2, <1>3
--------------------------------------------------------------------------------
(* __sched_setscheduler and set_user_nice *)

\* Under the locks: the new parameters agree with each other, and the task keeps the boost
\* its top waiter gives it; its own waiters are rt_mutex_adjust_pi's to look after.
LEMMA LockedStep ==
    ASSUME Inv, NEW p \in Tasks, NEW policy \in {"NORMAL", "FIFO"},
           NEW priority \in 0..(MAX_RT_PRIO - 1), NEW n \in -20..19, NEW reset \in BOOLEAN,
           policy = "FIFO" <=> priority # 0,
           kernel = "cfs" /\ ~privileged => policy = "NORMAL" /\ n >= 0,
           Locked(p, policy, priority, n, reset), call' \in {call, NoCall}, calls' \in 0..MaxCalls,
           UNCHANGED <<kernel, privileged, life, blocked, top, curr, acc, since, used>>
    PROVE  Inv'
<1> USE DEF Inv
<1>1. Places'
  <2>1. on_rq' = on_rq
    BY DEF Locked, rq, Reprioritised
  <2> QED
    BY <2>1 DEF Places
<1>2. Timing' /\ Waiting'
  BY DEF Timing, Waiting
<1>3. Checked'
  BY DEF Checked
<1>4. call' # NoCall => call' = call
  OBVIOUS
<1>5. CASE SameParams(sp[p], policy, priority, n)
  <2>1. sp' = [sp EXCEPT ![p].reset = reset] /\ UNCHANGED <<on_rq, queue, need_resched, moved, adjust>>
    BY <1>5 DEF Locked, rq
  <2>2. sp' \in [Tasks -> Params]
    <3>1. sp[p] \in Params /\ sp \in [Tasks -> Params]
      BY DEF Typing
    <3>2. [sp[p] EXCEPT !.reset = reset] \in Params
      BY <3>1 DEF Params
    <3> HIDE DEF Inv
    <3> QED
      BY <2>1, <3>1, <3>2
  <2>3. \A q \in Tasks :
            /\ sp'[q].prio = sp[q].prio /\ sp'[q].class = sp[q].class /\ sp'[q].policy = sp[q].policy
            /\ sp'[q].static_prio = sp[q].static_prio /\ sp'[q].normal_prio = sp[q].normal_prio
            /\ sp'[q].rt_priority = sp[q].rt_priority
    <3>1. sp \in [Tasks -> Params]
      BY DEF Typing
    <3> HIDE DEF Inv
    <3> QED
      BY <2>1, <3>1 DEF Params
  <2>4. Typing'
    BY <2>1, <2>2 DEF Typing
  <2>5. AllSound' /\ AllModest'
    BY <1>4, <2>3 DEF AllSound, Sound, AllModest, Modest
  <2>6. Queueing'
    BY <2>1, <2>3 DEF Queueing, Distinct, In
  <2>7. Turn'
    <3>1. \A y \in Tasks : Before(y, curr, queue)' <=> Before(y, curr, queue)
      BY <2>1 DEF Before
    <3> QED
      BY <2>1, <2>3, <3>1 DEF Turn
  <2>8. UrgentRuns'
    BY <2>1, <2>3 DEF UrgentRuns, Preempts, Typing
  <2>9. Boosting'
    <3>1. \A x \in Tasks : top[x] # Idle => top[x] \in Tasks
      BY DEF Typing
    <3> QED
      BY <2>1, <2>3, <3>1 DEF Boosting
  <2>10. Unboosted'
    BY <2>3 DEF Unboosted, Live
  <2> QED
    BY <1>1, <1>2, <1>3, <2>4, <2>5, <2>6, <2>7, <2>8, <2>9, <2>10
<1>6. CASE ~SameParams(sp[p], policy, priority, n)
  <2> DEFINE new == NewParams(p, policy, priority, n, reset)
  <2>1. Reprioritised(p, new) /\ adjust = {} /\ adjust' = {p}
    BY <1>6 DEF Locked
  <2> HIDE DEF new
  <2>2. /\ new \in Params /\ Sound(new) /\ new.policy = policy
        /\ new.prio = rt_effective_prio(top[p], new.normal_prio)
        /\ policy = "NORMAL" => new.static_prio = NICE_TO_PRIO(n)
    BY NewParamsSound DEF new
  <2>3. sp' \in [Tasks -> Params] /\ sp'[p] = new /\ \A q \in Tasks \ {p} : sp'[q] = sp[q]
    BY <2>1, <2>2 DEF Reprioritised, Typing
  <2>4. /\ queue' \in Seq(Tasks) /\ moved' \in BOOLEAN /\ need_resched' \in BOOLEAN
        /\ on_rq' = on_rq /\ Queueing' /\ UrgentRuns' /\ Turn'
    BY <2>1, <2>2, ReprioritisedStep
  <2>5. top[p] \in Tasks \cup {Idle} /\ new.normal_prio \in Priorities
    BY <2>2 DEF Typing, Params
  <2>6. /\ top[p] = Idle => new.prio = new.normal_prio
        /\ top[p] # Idle => new.prio <= sp[top[p]].prio
        /\ new.prio = new.normal_prio \/ (top[p] \in Tasks /\ new.prio = sp[top[p]].prio)
    BY <2>2, <2>5, EffectivePrio
  <2>7. Typing'
    BY <2>1, <2>3, <2>4 DEF Typing
  <2>8. AllSound'
    <3>1. \A q \in Tasks : Sound(sp'[q])
      BY <2>2, <2>3 DEF AllSound
    <3> QED
      BY <3>1 DEF AllSound, Sound
  <2>9. AllModest'
    <3>1. ASSUME kernel = "cfs", ~privileged, NEW q \in Tasks PROVE Modest(sp'[q])
      <4>1. Modest(sp[q]) /\ \A t \in Tasks : Modest(sp[t])
        BY <3>1 DEF AllModest
      <4>2. policy = "NORMAL" /\ new.static_prio >= MAX_RT_PRIO + 20
        BY <2>2, <3>1, PolicyAssumption DEF NICE_TO_PRIO
      <4>3. ~rt_prio(new.prio)
        <5>1. new.normal_prio = new.static_prio /\ new.static_prio \in Int
          BY <2>2, <4>2 DEF Sound, Params, Priorities
        <5> QED
          BY <2>6, <4>1, <4>2, <5>1, PolicyAssumption DEF Modest, rt_prio
      <4> QED
        BY <2>2, <2>3, <4>1, <4>2, <4>3 DEF Modest
    <3> QED
      BY <1>4, <3>1 DEF AllModest, Modest
  <2>10. Boosting'
    <3> SUFFICES ASSUME NEW q \in Tasks, NEW v \in Tasks, blocked[v] = q, rt_prio(sp'[v].prio),
                        \A x \in Tasks : blocked[x] = q => x # p
                 PROVE  /\ top[q] # Idle /\ sp'[top[q]].prio <= sp'[v].prio
                        /\ sp'[q].prio <= sp'[top[q]].prio
      BY <2>1 DEF Boosting, rt_prio
    <3>1. sp'[v] = sp[v]
      BY <2>3
    <3>2. top[q] # Idle /\ sp[top[q]].prio <= sp[v].prio /\ sp[q].prio <= sp[top[q]].prio
      BY <2>1, <3>1 DEF Boosting
    <3>3. top[q] \in Tasks /\ blocked[top[q]] = q
      BY <3>2 DEF Typing, Waiting
    <3>4. sp'[top[q]] = sp[top[q]]
      BY <2>3, <3>3
    <3>5. sp'[q].prio <= sp[top[q]].prio
      <4>1. CASE q = p
        BY <2>3, <2>6, <3>2, <4>1
      <4>2. CASE q # p
        BY <2>3, <3>2, <4>2
      <4> QED
        BY <4>1, <4>2
    <3> QED
      BY <3>1, <3>2, <3>4, <3>5
  <2>11. Unboosted'
    <3> SUFFICES ASSUME kernel = "cfs", NEW q \in Tasks, Live(q), \A x \in Tasks : blocked[x] # q
                 PROVE  sp'[q].prio = sp'[q].normal_prio
      BY DEF Unboosted, Live
    <3>1. CASE q = p
      <4>1. top[p] = Idle
        BY <2>5, <3>1 DEF Waiting
      <4> QED
        BY <2>3, <2>6, <3>1, <4>1
    <3>2. CASE q # p
      BY <2>3, <3>2 DEF Unboosted
    <3> QED
      BY <3>1, <3>2
  <2> QED
    BY <1>1, <1>2, <1>3, <2>4, <2>7, <2>8, <2>9, <2>10, <2>11
<1> QED
  BY <1>5, <1>6

LEMMA NiceRange ==
    ASSUME Inv, NEW p \in Tasks
    PROVE  /\ Nice(sp[p]) \in -20..19
           /\ kernel = "cfs" /\ ~privileged => sp[p].policy = "NORMAL" /\ Nice(sp[p]) >= 0
<1>1. /\ sp[p].static_prio \in 0..(MAX_RT_PRIO + 39) /\ sp[p].static_prio >= MAX_RT_PRIO
      /\ MAX_RT_PRIO \in Nat
  BY PolicyAssumption DEF Inv, Typing, Params, Priorities, AllSound, Sound
<1>2. kernel = "cfs" /\ ~privileged =>
        sp[p].policy = "NORMAL" /\ sp[p].static_prio >= MAX_RT_PRIO + 20
  BY DEF Inv, AllModest, Modest
<1> QED
  BY <1>1, <1>2 DEF Nice

LEMMA SysSetschedulerStep ==
    ASSUME Inv, NEW p \in Tasks, NEW policy \in {"NORMAL", "FIFO"},
           NEW priority \in RtPriorities \cup {0}, NEW reset \in BOOLEAN,
           SysSetscheduler(p, policy, priority, reset), calls' \in 0..MaxCalls
    PROVE  Inv'
<1> DEFINE fifo == kernel = "fifo" /\ policy = "NORMAL" /\ ~reset
           newPolicy == IF fifo THEN "FIFO" ELSE policy
           newPriority == IF fifo THEN MAX_RT_PRIO \div 2 ELSE priority
           n == Nice(sp[p])
<1>1. /\ Allowed(sp[p], newPolicy, newPriority, n, reset) /\ Locked(p, newPolicy, newPriority, n, reset)
      /\ UNCHANGED <<kernel, privileged, life, blocked, top, curr, acc, since, used, call>>
  BY DEF SysSetscheduler, machine, time
<1>2. newPolicy \in {"NORMAL", "FIFO"} /\ newPriority \in 0..(MAX_RT_PRIO - 1)
  BY PolicyAssumption
<1>3. /\ n \in -20..19
      /\ kernel = "cfs" /\ ~privileged => sp[p].policy = "NORMAL" /\ n >= 0
  BY NiceRange
<1> HIDE DEF newPolicy, newPriority, n
<1>4. newPolicy = "FIFO" <=> newPriority # 0
  BY <1>1 DEF Allowed
<1>5. kernel = "cfs" /\ ~privileged => newPolicy = "NORMAL" /\ n >= 0
  BY <1>1, <1>2, <1>3 DEF Allowed
<1> QED
  BY <1>1, <1>2, <1>3, <1>4, <1>5, LockedStep

LEMMA SysSetattrStep ==
    ASSUME Inv, NEW p \in Tasks, NEW n \in Nices, SysSetattr(p, n), calls' \in 0..MaxCalls
    PROVE  Inv'
<1>1. /\ Allowed(sp[p], "NORMAL", 0, n, FALSE) /\ Locked(p, "NORMAL", 0, n, FALSE)
      /\ UNCHANGED <<kernel, privileged, life, blocked, top, curr, acc, since, used, call>>
  BY DEF SysSetattr, machine, time
<1>2. n \in -20..19 /\ 0 \in 0..(MAX_RT_PRIO - 1)
  BY PolicyAssumption
<1>3. /\ Nice(sp[p]) \in -20..19
      /\ kernel = "cfs" /\ ~privileged => sp[p].policy = "NORMAL" /\ Nice(sp[p]) >= 0
  BY NiceRange
<1>4. ~privileged => n >= Nice(sp[p])
  BY <1>1 DEF Allowed
<1>5. kernel = "cfs" /\ ~privileged => n >= 0
  BY <1>2, <1>3, <1>4
<1> QED
  BY <1>1, <1>2, <1>5, LockedStep

LEMMA SysSetparamStep ==
    ASSUME Inv, NEW p \in Tasks, NEW priority \in RtPriorities \cup {0},
           SysSetparam(p, priority), calls' \in 0..MaxCalls
    PROVE  Inv'
<1> USE DEF Inv
<1>1. /\ Allowed(sp[p], sp[p].policy, priority, Nice(sp[p]), sp[p].reset)
      /\ call' = [p |-> p, priority |-> priority, oldpolicy |-> sp[p].policy,
                  nice |-> Nice(sp[p]), reset |-> sp[p].reset]
      /\ UNCHANGED <<kernel, privileged, sp, life, blocked, top, on_rq, queue, need_resched, moved,
                     curr, acc, since, used, adjust>>
  BY DEF SysSetparam, machine, time, rq
<1>2. /\ Nice(sp[p]) \in -20..19
      /\ kernel = "cfs" /\ ~privileged => sp[p].policy = "NORMAL" /\ Nice(sp[p]) >= 0
  BY NiceRange
<1>3. priority \in 0..(MAX_RT_PRIO - 1) /\ sp[p].policy \in {"NORMAL", "FIFO"} /\ sp[p].reset \in BOOLEAN
  BY PolicyAssumption DEF Typing, Params
<1>4. /\ call' \in Calls /\ call'.oldpolicy = sp[p].policy /\ call'.nice = Nice(sp[p])
      /\ call'.priority = priority
  <2> HIDE DEF Inv
  <2> QED
    BY <1>1, <1>2, <1>3 DEF Calls
<1>5. Typing'
  BY <1>1, <1>4 DEF Typing
<1>6. AllSound' /\ AllModest' /\ Checked'
  <2>1. sp[p].policy = "FIFO" <=> priority # 0
    BY <1>1 DEF Allowed
  <2> QED
    BY <1>1, <1>2, <1>4, <2>1 DEF AllSound, Sound, AllModest, Modest, Checked
<1>7. Queueing' /\ UrgentRuns' /\ Turn'
  BY <1>1, KeepRunqueue
<1>8. Places' /\ Timing' /\ Waiting' /\ Boosting' /\ Unboosted'
  BY <1>1 DEF Places, Timing, Waiting, Boosting, Unboosted, Live
<1> QED
  BY <1>5, <1>6, <1>7, <1>8

LEMMA SetparamLockedStep ==
    ASSUME Inv, SetparamLocked, calls' \in 0..MaxCalls
    PROVE  Inv'
<1>1. /\ call # NoCall
      /\ UNCHANGED <<kernel, privileged, life, blocked, top, curr, acc, since, used>>
  BY DEF SetparamLocked, machine, time
<1>2. call \in Calls
  BY <1>1 DEF Inv, Typing
<1> DEFINE p == call.p
<1>3. /\ p \in Tasks /\ call.priority \in 0..(MAX_RT_PRIO - 1) /\ call.nice \in -20..19
      /\ call.oldpolicy \in {"NORMAL", "FIFO"} /\ call.reset \in BOOLEAN
  BY <1>2 DEF Calls
<1>4. CASE PolicyStale
  <2>1. /\ call' = IF Recheck(sp[p])
                   THEN [call EXCEPT !.oldpolicy = sp[p].policy, !.reset = sp[p].reset] ELSE NoCall
        /\ UNCHANGED <<sp, on_rq, queue, need_resched, moved, adjust>>
    BY <1>4 DEF SetparamLocked, rq
  <2>2. sp[p].policy \in {"NORMAL", "FIFO"} /\ sp[p].reset \in BOOLEAN
    BY <1>3 DEF Inv, Typing, Params
  <2>3. \/ call' = NoCall
        \/ /\ call' \in Calls /\ call'.oldpolicy = sp[p].policy /\ call'.nice = call.nice
           /\ call'.priority = call.priority
           /\ sp[p].policy = "FIFO" <=> call.priority # 0
    <3>1. Recheck(sp[p]) => (sp[p].policy = "FIFO" <=> call.priority # 0)
      BY DEF Recheck, Allowed
    <3> QED
      BY <1>2, <2>1, <2>2, <3>1 DEF Calls
  <2>4. Typing'
    BY <1>1, <2>1, <2>3 DEF Inv, Typing
  <2>5. AllSound' /\ AllModest' /\ Checked'
    <3>1. AllSound'
      BY <2>1 DEF Inv, AllSound, Sound
    <3>2. Checked'
      BY <2>3 DEF Checked
    <3>3. AllModest'
      BY <1>1, <1>3, <2>1, <2>3 DEF Inv, AllModest, Modest
    <3> QED
      BY <3>1, <3>2, <3>3
  <2>6. Queueing' /\ UrgentRuns' /\ Turn'
    BY <1>1, <2>1, KeepRunqueue DEF Inv
  <2>7. Places' /\ Timing' /\ Waiting' /\ Boosting' /\ Unboosted'
    BY <1>1, <2>1 DEF Inv, Places, Timing, Waiting, Boosting, Unboosted, Live
  <2> QED
    BY <2>4, <2>5, <2>6, <2>7 DEF Inv
<1>5. CASE ~PolicyStale
  <2>1. Locked(p, call.oldpolicy, call.priority, call.nice, call.reset) /\ call' = NoCall
    BY <1>5 DEF SetparamLocked
  <2>2. /\ call.oldpolicy = "FIFO" <=> call.priority # 0
        /\ kernel = "cfs" /\ ~privileged => call.oldpolicy = "NORMAL" /\ call.nice >= 0
    BY <1>1 DEF Inv, Checked, AllModest
  <2> HIDE DEF p
  <2> QED
    BY <1>1, <1>3, <2>1, <2>2, LockedStep
<1> QED
  BY <1>4, <1>5

LEMMA SetUserNiceStep ==
    ASSUME Inv, NEW p \in Tasks, NEW n \in Nices, SetUserNice(p, n), calls' \in 0..MaxCalls
    PROVE  Inv'
<1> DEFINE new == Niced(p, n)
<1> USE DEF Inv
<1>1. /\ sp' = [sp EXCEPT ![p] = new] /\ ClassChanged(p, sp[p], new)
      /\ (n < Nice(sp[p]) => privileged)
      /\ UNCHANGED <<kernel, privileged, life, blocked, top, on_rq, queue, moved, curr,
                     acc, since, used, call, adjust>>
  BY DEF SetUserNice, machine, time, Niced
<1>2. n \in -20..19
  BY PolicyAssumption
<1>3. /\ new \in Params /\ Sound(new) /\ new.policy = sp[p].policy
      /\ new.class = sp[p].class /\ new.static_prio = NICE_TO_PRIO(n)
      /\ rt_prio(sp[p].prio) \/ rt_prio(new.prio) => new.prio = sp[p].prio
      /\ sp[p].prio = sp[p].normal_prio => new.prio = new.normal_prio
  BY <1>2, NiceSound
<1> HIDE DEF new
<1>4. sp' \in [Tasks -> Params] /\ sp'[p] = new /\ \A q \in Tasks \ {p} : sp'[q] = sp[q]
  BY <1>1, <1>3 DEF Typing
<1>5. UrgentRuns' /\ need_resched' \in BOOLEAN
  BY <1>1, <1>3, UrgentAfter
<1>6. Typing'
  BY <1>1, <1>4, <1>5 DEF Typing
<1>7. AllSound'
  <2>1. \A q \in Tasks : Sound(sp'[q])
    BY <1>3, <1>4 DEF AllSound
  <2> QED
    BY <2>1 DEF AllSound, Sound
<1>8. AllModest'
  <2>1. ASSUME kernel = "cfs", ~privileged, NEW q \in Tasks PROVE Modest(sp'[q])
    <3>1. Modest(sp[q]) /\ Modest(sp[p])
      BY <2>1 DEF AllModest
    <3>2. Nice(sp[p]) >= 0 /\ Nice(sp[p]) \in -20..19
      BY <2>1, NiceRange
    <3>3. n >= 0
      BY <1>1, <1>2, <2>1, <3>2
    <3>4. NICE_TO_PRIO(n) >= MAX_RT_PRIO + 20
      BY <1>2, <3>3, PolicyAssumption DEF NICE_TO_PRIO
    <3>5. ~rt_prio(new.prio)
      BY <1>3, <3>1 DEF Modest
    <3> QED
      BY <1>3, <1>4, <3>1, <3>4, <3>5 DEF Modest
  <2> QED
    BY <1>1, <2>1 DEF AllModest, Modest
<1>9. Checked' /\ Places' /\ Timing' /\ Waiting'
  BY <1>1 DEF Checked, Places, Timing, Waiting
<1>10. Queueing'
  <2>1. \A q \in Tasks : sp'[q].class = sp[q].class
    BY <1>3, <1>4
  <2> QED
    BY <1>1, <2>1 DEF Queueing, Distinct, In
<1>11. \A q \in Tasks : rt_prio(sp[q].prio) \/ rt_prio(sp'[q].prio) => sp'[q].prio = sp[q].prio
  BY <1>3, <1>4
<1>12. Turn'
  <2>1. ASSUME ~moved, curr \in Tasks, sp'[curr].class = "rt",
               NEW y \in Tasks, Before(y, curr, queue)
        PROVE  sp'[y].prio # sp'[curr].prio
    <3>1. sp[curr].class = "rt"
      BY <1>3, <1>4, <2>1
    <3>2. sp[y].prio # sp[curr].prio
      BY <2>1, <3>1 DEF Turn
    <3>3. In(y, queue)
      BY <2>1, BeforeIn
    <3>4. sp[y].class = "rt"
      BY <3>3 DEF Queueing
    <3>5. \A q \in Tasks : sp[q].class = "rt" => rt_prio(sp[q].prio)
      BY DEF AllSound, Sound, ClassOf
    <3> QED
      BY <1>11, <2>1, <3>1, <3>2, <3>4, <3>5
  <2>2. \A y \in Tasks : Before(y, curr, queue)' <=> Before(y, curr, queue)
    BY <1>1 DEF Before
  <2> QED
    BY <1>1, <2>1, <2>2 DEF Turn
<1>13. Boosting'
  <2> SUFFICES ASSUME NEW q \in Tasks, NEW v \in Tasks, blocked[v] = q, rt_prio(sp'[v].prio),
                      \A x \in Tasks : blocked[x] = q => x \notin adjust
               PROVE  /\ top[q] # Idle /\ sp'[top[q]].prio <= sp'[v].prio
                      /\ sp'[q].prio <= sp'[top[q]].prio
    BY <1>1 DEF Boosting, rt_prio
  <2>1. sp'[v].prio = sp[v].prio
    BY <1>11
  <2>2. top[q] # Idle /\ sp[top[q]].prio <= sp[v].prio /\ sp[q].prio <= sp[top[q]].prio
    BY <2>1 DEF Boosting
  <2>3. top[q] \in Tasks
    BY <2>2 DEF Typing
  <2>4. sp[q].prio \in Int /\ sp[v].prio \in Int /\ sp[top[q]].prio \in Int /\ MAX_RT_PRIO \in Int
    BY <2>3, PriosAreNat, PolicyAssumption
  <2>5. rt_prio(sp[top[q]].prio) /\ rt_prio(sp[q].prio)
    BY <2>1, <2>2, <2>4 DEF rt_prio
  <2> QED
    BY <1>11, <2>1, <2>2, <2>3, <2>5
<1>14. Unboosted'
  BY <1>1, <1>3, <1>4 DEF Unboosted, Live
<1> QED
  BY <1>5, <1>6, <1>7, <1>8, <1>9, <1>10, <1>12, <1>13, <1>14
--------------------------------------------------------------------------------
(* fork, exit, wait, sched_yield and wakeups *)

\* enqueue_task of a task that was not on the runqueue.
LEMMA EnqueueEffect ==
    ASSUME Typing, Queueing, UrgentRuns, Turn, NEW p \in Tasks, p \notin on_rq, p # curr,
           NEW s \in Params, Enqueue(p, s), curr' = curr,
           sp'[p] = s, \A q \in Tasks \ {p} : sp'[q] = sp[q] /\ life'[q] = life[q]
    PROVE  /\ queue' \in Seq(Tasks) /\ need_resched' \in BOOLEAN /\ moved' = moved
           /\ on_rq' = on_rq \cup {p} /\ Queueing' /\ UrgentRuns' /\ Turn'
<1>1. /\ on_rq' = on_rq \cup {p} /\ moved' = moved
      /\ queue' = IF s.class = "rt" THEN Append(queue, p) ELSE queue
      /\ ReschedCurr(Preempts(s), MayPreempt(s))
  BY DEF Enqueue
<1>2. Preempts(s) \in BOOLEAN /\ MayPreempt(s) \in BOOLEAN
  BY Zenon DEF Preempts, MayPreempt
<1>3. need_resched' \in BOOLEAN /\ (need_resched => need_resched') /\ (Preempts(s) => need_resched')
  BY <1>1, <1>2, ReschedEffect
<1>4. queue \in Seq(Tasks) /\ Distinct(queue) /\ ~In(p, queue)
  BY DEF Typing, Queueing
<1>5. /\ queue' \in Seq(Tasks) /\ Distinct(queue')
      /\ \A x \in Tasks \ {p} : In(x, queue') <=> In(x, queue)
      /\ In(p, queue') <=> s.class = "rt"
      /\ \A x, y \in Tasks : Before(x, y, queue') => Before(x, y, queue) \/ y = p
  <2>1. CASE s.class = "rt"
    <3>1. queue' = Append(queue, p)
      BY <1>1, <2>1
    <3> QED
      BY <1>4, <2>1, <3>1, Appended
  <2>2. CASE s.class # "rt"
    BY <1>1, <1>4, <2>2
  <2> QED
    BY <2>1, <2>2
<1>6. Queueing'
  <2>1. \A x \in Tasks : In(x, queue') <=> x \in on_rq' /\ sp'[x].class = "rt"
    BY <1>1, <1>5 DEF Queueing
  <2> QED
    BY <1>5, <2>1 DEF Queueing, Distinct, In
<1>7. on_rq \in SUBSET Tasks /\ curr \in Tasks \cup {Idle}
  BY DEF Typing
<1>8. Turn'
  <2>1. ASSUME ~moved', curr \in Tasks, sp'[curr].class = "rt", NEW y \in Tasks,
               Before(y, curr, queue')
        PROVE  sp'[y].prio # sp'[curr].prio
    <3>1. Before(y, curr, queue) /\ y # p
      BY <1>4, <1>5, <2>1, BeforeIn
    <3>2. sp[y].prio # sp[curr].prio
      BY <1>1, <2>1, <3>1 DEF Turn
    <3> QED
      BY <2>1, <3>1, <3>2
  <2>2. \A y \in Tasks : Before(y, curr, queue)' <=> Before(y, curr, queue')
    BY DEF Before
  <2> QED
    BY <2>1, <2>2 DEF Turn
<1>9. UrgentRuns'
  <2> SUFFICES ASSUME NEW x \in on_rq', x # curr, life'[x] = "ready", ~need_resched',
                      Preempts(sp[x])', curr # Idle => life'[curr] = "ready"
               PROVE  FALSE
    BY <1>3 DEF UrgentRuns
  <2>1. CASE x = p
    BY <1>3, <1>7, <2>1 DEF Preempts
  <2>2. CASE x # p
    <3>1. x \in on_rq /\ x \in Tasks /\ sp'[x] = sp[x] /\ life[x] = "ready"
      BY <1>1, <1>7, <2>2
    <3>2. curr # Idle => life[curr] = "ready" /\ sp'[curr] = sp[curr]
      BY <1>7
    <3>3. Preempts(sp[x])
      BY <1>7, <3>1, <3>2 DEF Preempts
    <3> QED
      BY <1>3, <3>1, <3>2, <3>3 DEF UrgentRuns
  <2> QED
    BY <2>1, <2>2
<1> QED
  BY <1>1, <1>3, <1>5, <1>6, <1>8, <1>9

\* A task that is not there has nothing to do with mutexes: what happens to its parameters
\* is nobody's business.
LEMMA StrangerStep ==
    ASSUME Inv, NEW p \in Tasks, life[p] \in {"unborn", "dead"}, NEW s \in Params, Sound(s),
           kernel = "cfs" /\ ~privileged => Modest(s),
           kernel = "cfs" /\ Live(p)' => s.prio = s.normal_prio,
           sp' = [sp EXCEPT ![p] = s], \A q \in Tasks \ {p} : life'[q] = life[q],
           UNCHANGED <<kernel, privileged, blocked, top, call, adjust>>
    PROVE  /\ sp' \in [Tasks -> Params] /\ sp'[p] = s /\ \A q \in Tasks \ {p} : sp'[q] = sp[q]
           /\ AllSound' /\ AllModest' /\ Checked' /\ Waiting' /\ Boosting' /\ Unboosted'
<1> USE DEF Inv
<1>1. sp' \in [Tasks -> Params] /\ sp'[p] = s /\ \A q \in Tasks \ {p} : sp'[q] = sp[q]
  BY DEF Typing
<1>2. /\ blocked[p] = Idle /\ \A v \in Tasks : blocked[v] # p
      /\ \A q \in Tasks : top[q] # p
  <2>1. blocked[p] = Idle
    BY DEF Waiting
  <2>2. \A v \in Tasks : blocked[v] # p
    BY PolicyAssumption DEF Waiting
  <2> QED
    BY <2>1, <2>2, PolicyAssumption DEF Waiting
<1>3. AllSound'
  <2>1. \A q \in Tasks : Sound(sp'[q])
    BY <1>1 DEF AllSound
  <2> QED
    BY <2>1 DEF AllSound, Sound
<1>4. AllModest' /\ Checked'
  <2>1. kernel = "cfs" /\ ~privileged => \A q \in Tasks : Modest(sp'[q])
    BY <1>1 DEF AllModest
  <2> QED
    BY <2>1 DEF AllModest, Modest, Checked
<1>5. Waiting'
  <2>1. \A v \in Tasks : blocked[v] # Idle => v # p /\ blocked[v] # p /\ blocked[v] \in Tasks
    BY <1>2 DEF Typing
  <2> QED
    BY <2>1 DEF Waiting
<1>6. Boosting'
  <2> SUFFICES ASSUME NEW q \in Tasks, NEW v \in Tasks, blocked[v] = q, rt_prio(sp'[v].prio),
                      \A x \in Tasks : blocked[x] = q => x \notin adjust
               PROVE  /\ top[q] # Idle /\ sp'[top[q]].prio <= sp'[v].prio
                      /\ sp'[q].prio <= sp'[top[q]].prio
    BY DEF Boosting, rt_prio
  <2>1. v # p /\ q # p /\ sp'[v] = sp[v] /\ sp'[q] = sp[q]
    BY <1>1, <1>2, PolicyAssumption
  <2>2. top[q] # Idle /\ sp[top[q]].prio <= sp[v].prio /\ sp[q].prio <= sp[top[q]].prio
    BY <2>1 DEF Boosting
  <2>3. top[q] \in Tasks /\ sp'[top[q]] = sp[top[q]]
    BY <1>1, <1>2, <2>2 DEF Typing
  <2> QED
    BY <2>1, <2>2, <2>3
<1>7. Unboosted'
  <2> SUFFICES ASSUME kernel = "cfs", NEW q \in Tasks, Live(q)', \A x \in Tasks : blocked[x] # q
               PROVE  sp'[q].prio = sp'[q].normal_prio
    BY DEF Unboosted, Live
  <2>1. CASE q = p
    BY <1>1, <2>1
  <2>2. CASE q # p
    BY <1>1, <2>2 DEF Unboosted, Live
  <2> QED
    BY <2>1, <2>2
<1> QED
  BY <1>1, <1>3, <1>4, <1>5, <1>6, <1>7

LEMMA ForkStep ==
    ASSUME Inv, NEW t \in Tasks, NEW p \in Tasks, Fork(t, p), calls' \in 0..MaxCalls
    PROVE  Inv'
<1> DEFINE s == SchedFork(sp[t])
<1> USE DEF Inv
<1>1. /\ curr = t /\ life[t] = "ready" /\ life[p] = "unborn"
      /\ sp' = [sp EXCEPT ![p] = s] /\ acc' = [acc EXCEPT ![p] = ForkTime(t)]
      /\ life' = [life EXCEPT ![p] = "ready"] /\ Enqueue(p, s)
      /\ UNCHANGED <<kernel, privileged, blocked, top, curr, since, used, call, adjust>>
  BY DEF Fork, Runs, machine
<1> HIDE DEF s
<1>2. /\ s \in Params /\ Sound(s) /\ (kernel = "cfs" => s.prio = s.normal_prio)
      /\ kernel = "cfs" /\ Modest(sp[t]) => Modest(s)
  <2>1. sp[t] \in Params /\ Sound(sp[t])
    BY DEF Typing, AllSound
  <2> QED
    BY <2>1, ForkSound DEF s
<1>3. /\ life'[p] = "ready" /\ \A q \in Tasks \ {p} : life'[q] = life[q]
      /\ life' \in [Tasks -> {"unborn", "ready", "blocked", "released", "dead"}]
  BY <1>1 DEF Typing
<1>4. kernel = "cfs" /\ ~privileged => Modest(s)
  BY <1>2 DEF AllModest
<1>5. /\ sp' \in [Tasks -> Params] /\ sp'[p] = s /\ \A q \in Tasks \ {p} : sp'[q] = sp[q]
      /\ AllSound' /\ AllModest' /\ Checked' /\ Waiting' /\ Boosting' /\ Unboosted'
  BY <1>1, <1>2, <1>3, <1>4, StrangerStep
<1>6. p # curr /\ p \notin on_rq
  BY <1>1 DEF Places
<1>7. /\ queue' \in Seq(Tasks) /\ need_resched' \in BOOLEAN /\ moved' = moved
      /\ on_rq' = on_rq \cup {p} /\ Queueing' /\ UrgentRuns' /\ Turn'
  BY <1>1, <1>2, <1>3, <1>5, <1>6, EnqueueEffect
<1>8. /\ used[p] = 0 /\ ForkTime(t) = 0
  <2>1. kernel = "fifo" => used[t] = 0 /\ used[t] = acc[t] + since
    BY <1>1 DEF Timing
  <2>2. acc[t] \in Nat /\ since \in Nat
    BY DEF Typing
  <2>3. kernel = "fifo" => acc[t] = 0
    BY <2>1, <2>2
  <2>4. used[p] = 0
    BY <1>1 DEF Timing
  <2> QED
    BY <2>3, <2>4 DEF ForkTime, Typing
<1>9. acc' \in [Tasks -> Nat] /\ acc'[p] = 0 /\ \A q \in Tasks \ {p} : acc'[q] = acc[q]
  BY <1>1, <1>8 DEF Typing
<1>10. Typing'
  BY <1>1, <1>3, <1>5, <1>7, <1>9 DEF Typing
<1>11. Timing'
  <2>1. \A x \in Tasks : life'[x] = "unborn" => life[x] = "unborn"
    BY <1>3
  <2> QED
    BY <1>1, <1>6, <1>8, <1>9, <2>1 DEF Timing
<1>12. Places'
  BY <1>1, <1>3, <1>6, <1>7 DEF Places, Typing
<1> QED
  BY <1>5, <1>7, <1>10, <1>11, <1>12

LEMMA ExitStep ==
    ASSUME Inv, NEW t \in Tasks, Exit(t), calls' \in 0..MaxCalls
    PROVE  Inv'
<1> USE DEF Inv
<1>1. /\ curr = t /\ life[t] = "ready" /\ \A w \in Tasks : blocked[w] # t
      /\ life' = [life EXCEPT ![t] = "dead"]
      /\ UNCHANGED <<kernel, privileged, sp, blocked, top, on_rq, queue, need_resched, moved, curr,
                     acc, since, used, call, adjust>>
  BY DEF Exit, Runs, machine, time, rq
<1>2. /\ life'[t] = "dead" /\ \A q \in Tasks \ {t} : life'[q] = life[q]
      /\ life' \in [Tasks -> {"unborn", "ready", "blocked", "released", "dead"}]
  BY <1>1 DEF Typing
<1>3. Typing'
  BY <1>1, <1>2 DEF Typing
<1>4. /\ \A q \in Tasks : life'[q] = "ready" => life[q] = "ready"
      /\ \A q \in Tasks : life'[q] = "unborn" => life[q] = "unborn"
      /\ \A q \in Tasks : Live(q)' => Live(q)
  BY <1>2 DEF Live
<1>5. Queueing' /\ UrgentRuns' /\ Turn'
  BY <1>1, <1>4, KeepRunqueue
<1>6. AllSound' /\ AllModest' /\ Checked'
  BY <1>1, KeepParams
<1>7. Timing'
  BY <1>1, <1>4, KeepTiming
<1>8. Waiting' /\ Boosting' /\ Unboosted'
  <2>1. \A w \in Tasks : blocked[w] # Idle => life'[w] = life[w] /\ life'[blocked[w]] = "ready"
    BY <1>1, <1>2 DEF Waiting, Typing
  <2> QED
    BY <1>1, <1>4, <2>1, KeepPi
<1>9. Places'
  BY <1>1, <1>2 DEF Places, Typing
<1> QED
  BY <1>3, <1>5, <1>6, <1>7, <1>8, <1>9

LEMMA WaitStep ==
    ASSUME Inv, NEW t \in Tasks, NEW p \in Tasks, Wait(t, p), calls' \in 0..MaxCalls
    PROVE  Inv'
<1> USE DEF Inv
<1>1. /\ life[p] = "dead" /\ curr # p
      /\ life' = [life EXCEPT ![p] = "unborn"] /\ sp' = [sp EXCEPT ![p] = NormalTask]
      /\ acc' = [acc EXCEPT ![p] = 0] /\ used' = [used EXCEPT ![p] = 0]
      /\ UNCHANGED <<kernel, privileged, blocked, top, on_rq, queue, need_resched, moved, curr,
                     since, call, adjust>>
  BY DEF Wait, machine, rq
<1>2. /\ life'[p] = "unborn" /\ \A q \in Tasks \ {p} : life'[q] = life[q]
      /\ life' \in [Tasks -> {"unborn", "ready", "blocked", "released", "dead"}]
  BY <1>1 DEF Typing
<1>3. NormalTask \in Params /\ Sound(NormalTask) /\ Modest(NormalTask)
      /\ NormalTask.prio = NormalTask.normal_prio
  <2>1. NICE_TO_PRIO(0) \in Priorities /\ NICE_TO_PRIO(0) = MAX_RT_PRIO + 20
        /\ MAX_RT_PRIO \in Nat /\ MAX_RT_PRIO >= 4
    BY PolicyAssumption DEF NICE_TO_PRIO, Priorities
  <2> QED
    BY <2>1 DEF NormalTask, Params, Sound, Modest, ClassOf, rt_prio
<1>4. /\ sp' \in [Tasks -> Params] /\ sp'[p] = NormalTask /\ \A q \in Tasks \ {p} : sp'[q] = sp[q]
      /\ AllSound' /\ AllModest' /\ Checked' /\ Waiting' /\ Boosting' /\ Unboosted'
  BY <1>1, <1>2, <1>3, StrangerStep
<1>5. p \notin on_rq
  BY <1>1 DEF Places
<1>6. /\ acc' \in [Tasks -> Nat] /\ used' \in [Tasks -> Nat] /\ acc'[p] = 0 /\ used'[p] = 0
      /\ \A q \in Tasks \ {p} : acc'[q] = acc[q] /\ used'[q] = used[q]
  BY <1>1 DEF Typing
<1>7. Typing'
  BY <1>1, <1>2, <1>4, <1>6 DEF Typing
<1>8. Timing'
  BY <1>1, <1>2, <1>6, PolicyAssumption DEF Timing
<1>9. Places'
  BY <1>1, <1>2, <1>5 DEF Places, Typing
<1>10. \A q \in on_rq : q \in Tasks /\ sp'[q] = sp[q] /\ life'[q] = life[q]
  BY <1>2, <1>4, <1>5 DEF Typing
<1>11. Queueing'
  <2>1. \A x \in Tasks : In(x, queue) <=> x \in on_rq /\ sp'[x].class = "rt"
    BY <1>4, <1>5, <1>10 DEF Queueing
  <2> QED
    BY <1>1, <2>1 DEF Queueing, Distinct, In
<1>12. curr # Idle => sp'[curr] = sp[curr] /\ life'[curr] = life[curr]
  BY <1>1, <1>2, <1>4 DEF Typing
<1>13. UrgentRuns'
  BY <1>1, <1>10, <1>12 DEF UrgentRuns, Preempts
<1>14. Turn'
  <2>1. \A y \in Tasks : Before(y, curr, queue) => y \in on_rq
    BY BeforeIn DEF Queueing
  <2>2. \A y \in Tasks : Before(y, curr, queue)' <=> Before(y, curr, queue)
    BY <1>1 DEF Before
  <2> QED
    BY <1>1, <1>10, <1>12, <2>1, <2>2, PolicyAssumption DEF Turn
<1> QED
  BY <1>4, <1>7, <1>8, <1>9, <1>11, <1>13, <1>14

LEMMA YieldStep ==
    ASSUME Inv, NEW t \in Tasks, Yield(t), calls' \in 0..MaxCalls
    PROVE  Inv'
<1> USE DEF Inv
<1>1. /\ curr = t /\ need_resched' = TRUE /\ moved' = TRUE
      /\ queue' = IF sp[t].class = "rt" THEN Append(Without(t), t) ELSE queue
      /\ UNCHANGED <<kernel, privileged, sp, life, blocked, top, on_rq, curr, acc, since, used,
                     call, adjust>>
  BY DEF Yield, Runs, machine, time
<1>2. queue \in Seq(Tasks) /\ Distinct(queue) /\ t \in on_rq
  BY <1>1 DEF Typing, Queueing, Places
<1>3. /\ queue' \in Seq(Tasks) /\ Distinct(queue')
      /\ \A x \in Tasks : In(x, queue') <=> x \in on_rq /\ sp[x].class = "rt"
  <2>1. CASE sp[t].class = "rt"
    <3> DEFINE r == Without(t)
    <3>1. /\ r \in Seq(Tasks) /\ Distinct(r)
          /\ \A x \in Tasks : In(x, r) <=> In(x, queue) /\ x # t
      BY <1>2, Removed DEF Without
    <3>2. queue' = Append(r, t)
      BY <1>1, <2>1
    <3> HIDE DEF r
    <3>3. /\ queue' \in Seq(Tasks) /\ Distinct(queue')
          /\ \A x \in Tasks : In(x, queue') <=> In(x, r) \/ x = t
      BY <3>1, <3>2, Appended
    <3> QED
      BY <1>2, <2>1, <3>1, <3>3 DEF Queueing
  <2>2. CASE sp[t].class # "rt"
    BY <1>1, <1>2, <2>2 DEF Queueing
  <2> QED
    BY <2>1, <2>2
<1>4. Queueing'
  BY <1>1, <1>3 DEF Queueing, Distinct, In
<1>5. UrgentRuns' /\ Turn'
  BY <1>1 DEF UrgentRuns, Turn
<1>6. Typing'
  BY <1>1, <1>3 DEF Typing
<1>7. AllSound' /\ AllModest' /\ Checked'
  BY <1>1, KeepParams
<1>8. Places' /\ Timing' /\ Waiting' /\ Boosting' /\ Unboosted'
  BY <1>1 DEF Places, Timing, Waiting, Boosting, Unboosted, Live
<1> QED
  BY <1>4, <1>5, <1>6, <1>7, <1>8

LEMMA WakeStep ==
    ASSUME Inv, NEW w \in Tasks, Wake(w), calls' \in 0..MaxCalls
    PROVE  Inv'
<1> USE DEF Inv
<1>1. /\ life[w] = "released" /\ life' = [life EXCEPT ![w] = "ready"]
      /\ w \notin on_rq => Enqueue(w, sp[w])
      /\ UNCHANGED <<kernel, privileged, sp, blocked, top, curr, acc, since, used, call, adjust>>
  BY DEF Wake, machine, time
<1>2. w # curr /\ w \notin on_rq
  BY <1>1 DEF Places
<1>3. /\ life'[w] = "ready" /\ \A q \in Tasks \ {w} : life'[q] = life[q]
      /\ life' \in [Tasks -> {"unborn", "ready", "blocked", "released", "dead"}]
  BY <1>1 DEF Typing
<1>4. /\ queue' \in Seq(Tasks) /\ need_resched' \in BOOLEAN /\ moved' = moved
      /\ on_rq' = on_rq \cup {w} /\ Queueing' /\ UrgentRuns' /\ Turn'
  <2>1. sp[w] \in Params /\ sp' = sp
    BY <1>1 DEF Typing
  <2> QED
    BY <1>1, <1>2, <1>3, <2>1, EnqueueEffect
<1>5. Typing'
  BY <1>1, <1>3, <1>4 DEF Typing
<1>6. AllSound' /\ AllModest' /\ Checked'
  BY <1>1, KeepParams
<1>7. Timing'
  BY <1>1, <1>3, KeepTiming
<1>8. Waiting' /\ Boosting' /\ Unboosted'
  <2>1. \A q \in Tasks : Live(q)' => Live(q)
    BY <1>1, <1>3 DEF Live
  <2>2. \A v \in Tasks : blocked[v] # Idle => life'[v] = life[v] /\ life'[blocked[v]] = "ready"
    BY <1>1, <1>3 DEF Waiting, Typing
  <2> QED
    BY <1>1, <2>1, <2>2, KeepPi
<1>9. Places'
  BY <1>1, <1>2, <1>3, <1>4 DEF Places, Typing
<1> QED
  BY <1>4, <1>5, <1>6, <1>7, <1>8, <1>9
--------------------------------------------------------------------------------
(* __schedule and scheduler_tick *)

\* pick_next_task: the task is on the runqueue if anyone is, the others are less urgent or
\* behind it, and those before it less urgent.
LEMMA Picked ==
    ASSUME Typing, NEW q \in Seq(Tasks), Distinct(q), NEW R \in SUBSET Tasks,
           \A x \in Tasks : In(x, q) => x \in R,
           NEW next \in PickNextTask(R, q)
    PROVE  /\ next \in R \/ (next = Idle /\ R = {})
           /\ \A x \in Tasks : In(x, q) /\ x # next =>
                /\ next \in Tasks
                /\ \/ sp[next].prio < sp[x].prio
                   \/ sp[next].prio = sp[x].prio /\ Before(next, x, q)
           /\ \A y \in Tasks : Before(y, next, q) => sp[next].prio < sp[y].prio
<1>1. CASE q = <<>>
  <2>1. Len(q) = 0 /\ \A x, y : ~In(x, q) /\ ~Before(y, x, q)
    BY <1>1 DEF In, Before
  <2>2. next \in R \/ (next = Idle /\ R = {})
    BY <1>1 DEF PickNextTask
  <2> QED
    BY <2>1, <2>2
<1>2. CASE q # <<>>
  <2>1. PICK i \in 1..Len(q) :
            /\ next = q[i]
            /\ \A j \in 1..Len(q) : sp[q[i]].prio < sp[q[j]].prio + (IF i <= j THEN 1 ELSE 0)
    BY <1>2 DEF PickNextTask
  <2>2. next \in Tasks /\ In(next, q)
    BY <2>1 DEF In
  <2>3. \A j \in 1..Len(q) : q[j] \in Tasks /\ sp[q[j]].prio \in Nat
    BY PriosAreNat
  <2>4. ASSUME NEW x \in Tasks, In(x, q), x # next
        PROVE  \/ sp[next].prio < sp[x].prio
               \/ sp[next].prio = sp[x].prio /\ Before(next, x, q)
    <3>1. PICK j \in 1..Len(q) : q[j] = x
      BY <2>4 DEF In
    <3>2. CASE i < j
      <4>1. Before(next, x, q)
        BY <2>1, <3>1, <3>2 DEF Before
      <4>2. sp[q[i]].prio < sp[q[j]].prio + 1
        BY <2>1, <3>2
      <4> QED
        BY <2>1, <2>3, <3>1, <4>1, <4>2
    <3>3. CASE j < i
      <4>1. sp[q[i]].prio < sp[q[j]].prio + 0
        BY <2>1, <3>3
      <4> QED
        BY <2>1, <2>3, <3>1, <4>1
    <3>4. i # j
      BY <2>1, <2>4, <3>1
    <3> QED
      BY <3>2, <3>3, <3>4
  <2>5. ASSUME NEW y \in Tasks, Before(y, next, q) PROVE sp[next].prio < sp[y].prio
    <3>1. PICK j, k \in 1..Len(q) : j < k /\ q[j] = y /\ q[k] = next
      BY <2>5 DEF Before
    <3>2. k = i
      BY <2>1, <3>1 DEF Distinct
    <3>3. sp[q[i]].prio < sp[q[j]].prio + 0
      BY <2>1, <3>1, <3>2
    <3> QED
      BY <2>1, <2>3, <3>1, <3>3
  <2> QED
    BY <2>2, <2>4, <2>5
<1> QED
  BY <1>1, <1>2

\* What __schedule does: current leaves the runqueue if it is not ready, the most urgent
\* task follows.
LEMMA ScheduleEffect ==
    ASSUME Inv, Schedule
    PROVE  /\ queue' \in Seq(Tasks) /\ Distinct(queue')
           /\ on_rq' \in SUBSET Tasks /\ on_rq' \subseteq on_rq
           /\ \A x \in Tasks : x \in on_rq' <=> x \in on_rq /\ (x = curr => life[x] = "ready")
           /\ \A x \in Tasks : In(x, queue') <=> x \in on_rq' /\ sp[x].class = "rt"
           /\ \A x, y \in Tasks : Before(x, y, queue') => Before(x, y, queue)
           /\ curr' \in on_rq' \/ (curr' = Idle /\ on_rq' = {})
           /\ \A x \in Tasks : In(x, queue') /\ x # curr' =>
                /\ curr' \in Tasks
                /\ \/ sp[curr'].prio < sp[x].prio
                   \/ sp[curr'].prio = sp[x].prio /\ Before(curr', x, queue')
           /\ \A y \in Tasks : Before(y, curr', queue') => sp[curr'].prio < sp[y].prio
           /\ SchedInfoSwitch(curr, curr') /\ ~need_resched' /\ ~moved'
           /\ need_resched' = FALSE /\ moved' = FALSE
           /\ UNCHANGED <<kernel, privileged, sp, life, blocked, top, used, call, adjust>>
<1> DEFINE off == curr # Idle /\ life[curr] # "ready"
<1> USE DEF Inv
<1>1. /\ queue' = IF off THEN Without(curr) ELSE queue
      /\ on_rq' = IF off THEN on_rq \ {curr} ELSE on_rq
      /\ \E next \in PickNextTask(on_rq', queue') : curr' = next /\ SchedInfoSwitch(curr, next)
      /\ need_resched' = FALSE /\ moved' = FALSE
      /\ UNCHANGED <<kernel, privileged, sp, life, blocked, top, used, call, adjust>>
  BY DEF Schedule, machine
<1>2. curr' \in PickNextTask(on_rq', queue') /\ SchedInfoSwitch(curr, curr')
  BY <1>1
<1>3. queue \in Seq(Tasks) /\ Distinct(queue) /\ on_rq \in SUBSET Tasks /\ curr \in Tasks \cup {Idle}
  BY DEF Typing, Queueing
<1>4. /\ queue' \in Seq(Tasks) /\ Distinct(queue') /\ on_rq' \in SUBSET Tasks
      /\ on_rq' \subseteq on_rq
      /\ \A x \in Tasks : x \in on_rq' <=> x \in on_rq /\ (x = curr => life[x] = "ready")
      /\ \A x \in Tasks : In(x, queue') <=> x \in on_rq' /\ sp[x].class = "rt"
      /\ \A x, y \in Tasks : Before(x, y, queue') => Before(x, y, queue)
  <2>1. CASE off
    <3>1. curr \in Tasks /\ queue' = RemoveFirst(queue, curr)
      BY <1>1, <1>3, <2>1 DEF Without
    <3>2. /\ queue' \in Seq(Tasks) /\ Distinct(queue')
          /\ \A x \in Tasks : In(x, queue') <=> In(x, queue) /\ x # curr
          /\ \A x, y \in Tasks : Before(x, y, queue') => Before(x, y, queue)
      BY <1>3, <3>1, Removed
    <3>3. on_rq' = on_rq \ {curr}
      BY <1>1, <2>1
    <3> QED
      BY <1>3, <2>1, <3>2, <3>3 DEF Queueing
  <2>2. CASE ~off
    <3>1. queue' = queue /\ on_rq' = on_rq
      BY <1>1, <2>2
    <3>2. \A x \in Tasks : x = curr => life[x] = "ready"
      BY <2>2, PolicyAssumption
    <3>3. \A x \in Tasks : In(x, queue) <=> x \in on_rq /\ sp[x].class = "rt"
      BY DEF Queueing
    <3> HIDE DEF Inv, off
    <3> QED
      BY <1>3, <3>1, <3>2, <3>3
  <2> QED
    BY <2>1, <2>2
<1> HIDE DEF Inv
<1>5. /\ curr' \in on_rq' \/ (curr' = Idle /\ on_rq' = {})
      /\ \A x \in Tasks : In(x, queue') /\ x # curr' =>
                /\ curr' \in Tasks
                /\ \/ sp[curr'].prio < sp[x].prio
                   \/ sp[curr'].prio = sp[x].prio /\ Before(curr', x, queue')
      /\ \A y \in Tasks : Before(y, curr', queue') => sp[curr'].prio < sp[y].prio
  <2>1. Typing /\ \A x \in Tasks : In(x, queue') => x \in on_rq'
    BY <1>4 DEF Inv
  <2> QED
    BY <1>2, <1>4, <2>1, Picked
<1> QED
  BY <1>1, <1>2, <1>4, <1>5

LEMMA ScheduleStep ==
    ASSUME Inv, Schedule, calls' \in 0..MaxCalls
    PROVE  Inv'
<1>1. /\ queue' \in Seq(Tasks) /\ Distinct(queue')
      /\ on_rq' \in SUBSET Tasks /\ on_rq' \subseteq on_rq
      /\ \A x \in Tasks : x \in on_rq' <=> x \in on_rq /\ (x = curr => life[x] = "ready")
      /\ \A x \in Tasks : In(x, queue') <=> x \in on_rq' /\ sp[x].class = "rt"
  BY ScheduleEffect
<1>2. /\ curr' \in on_rq' \/ (curr' = Idle /\ on_rq' = {})
      /\ \A x \in Tasks : In(x, queue') /\ x # curr' =>
                /\ curr' \in Tasks
                /\ \/ sp[curr'].prio < sp[x].prio
                   \/ sp[curr'].prio = sp[x].prio /\ Before(curr', x, queue')
      /\ \A y \in Tasks : Before(y, curr', queue') => sp[curr'].prio < sp[y].prio
  BY ScheduleEffect
<1>3. /\ SchedInfoSwitch(curr, curr') /\ need_resched' = FALSE /\ moved' = FALSE
      /\ UNCHANGED <<kernel, privileged, sp, life, blocked, top, used, call, adjust>>
  BY ScheduleEffect
<1> USE DEF Inv
<1>4. curr' \in Tasks \cup {Idle} /\ curr \in Tasks \cup {Idle}
  BY <1>1, <1>2 DEF Typing
<1>5. /\ acc' \in [Tasks -> Nat] /\ since' \in Nat /\ (curr' = Idle => since' = 0)
      /\ \A t \in Tasks : used[t] = acc'[t] + (IF t = curr' THEN since' ELSE 0)
  <2>1. /\ \A t \in Tasks : used[t] = acc[t] + (IF t = curr THEN since ELSE 0)
        /\ curr = Idle => since = 0
        /\ acc \in [Tasks -> Nat] /\ since \in Nat
    BY DEF Timing, Typing
  <2>2. CASE curr = curr'
    BY <1>3, <2>1, <2>2 DEF SchedInfoSwitch
  <2>3. CASE curr # curr'
    <3>1. /\ acc' = [t \in Tasks |-> IF t = curr THEN acc[t] + since ELSE acc[t]]
          /\ since' = 0
      BY <1>3, <2>3 DEF SchedInfoSwitch
    <3> HIDE DEF Inv
    <3> QED
      BY <2>1, <3>1
  <2> QED
    BY <2>2, <2>3
<1>6. Typing'
  BY <1>1, <1>3, <1>4, <1>5 DEF Typing
<1>7. Timing'
  <2>1. \A t \in Tasks : used[t] <= MaxTime /\ (life[t] = "unborn" \/ kernel = "fifo" => used[t] = 0)
    BY DEF Timing
  <2> HIDE DEF Inv
  <2> QED
    BY <1>3, <1>5, <2>1 DEF Timing
<1>8. AllSound' /\ AllModest' /\ Checked'
  BY <1>3, KeepParams
<1>9. Waiting' /\ Boosting' /\ Unboosted'
  BY <1>3 DEF Waiting, Boosting, Unboosted, Live
<1>10. Queueing'
  BY <1>1, <1>3 DEF Queueing, Distinct, In
<1>11. Places'
  <2>1. \A p \in on_rq' : life[p] = "ready"
    BY <1>1 DEF Places
  <2> QED
    BY <1>2, <1>3, <2>1, PolicyAssumption DEF Places
<1>12. Turn'
  <2>1. \A y \in Tasks : Before(y, curr, queue)' <=> Before(y, curr', queue')
    BY DEF Before
  <2>2. \A y \in Tasks : Before(y, curr', queue') /\ curr' \in Tasks =>
            sp[y].prio \in Nat /\ sp[curr'].prio \in Nat
    BY PriosAreNat
  <2> QED
    BY <1>2, <1>3, <2>1, <2>2 DEF Turn
<1>13. UrgentRuns'
  <2> SUFFICES ASSUME NEW x \in on_rq', x # curr', Preempts(sp[x])' PROVE FALSE
    BY DEF UrgentRuns
  <2>1. x \in Tasks /\ curr' \in Tasks /\ curr' # Idle
    BY <1>1, <1>2, PolicyAssumption
  <2>2. sp[x].class = "rt" /\ sp[x].prio < sp[curr'].prio
    BY <1>3, <2>1 DEF Preempts
  <2>3. In(x, queue')
    BY <1>1, <2>1, <2>2
  <2>4. sp[x].prio \in Nat /\ sp[curr'].prio \in Nat
    BY <2>1, PriosAreNat
  <2> QED
    BY <1>2, <2>1, <2>2, <2>3, <2>4
<1> QED
  BY <1>6, <1>7, <1>8, <1>9, <1>10, <1>11, <1>12, <1>13

LEMMA TickStep ==
    ASSUME Inv, Tick, calls' \in 0..MaxCalls
    PROVE  Inv'
<1> DEFINE may == sp[curr].class = "fair" /\ on_rq # {curr}
<1> USE DEF Inv
<1>1. /\ curr # Idle
      /\ \/ /\ kernel = "cfs" /\ acc[curr] + since < MaxTime
            /\ since' = since + 1 /\ used' = [used EXCEPT ![curr] = @ + 1]
         \/ kernel = "fifo" /\ UNCHANGED <<since, used>>
      /\ ReschedCurr(FALSE, may)
      /\ UNCHANGED <<kernel, privileged, sp, life, blocked, top, on_rq, queue, moved, curr, acc,
                     call, adjust>>
  BY DEF Tick, machine
<1>2. may \in BOOLEAN
  BY Zenon
<1> HIDE DEF may
<1>3. need_resched' \in BOOLEAN /\ (need_resched => need_resched')
  BY <1>1, <1>2, ReschedEffect
<1>4. curr \in Tasks /\ life[curr] # "unborn"
  BY <1>1 DEF Typing, Places
<1>5. since' \in Nat /\ used' \in [Tasks -> Nat] /\ Timing'
  <2>1. CASE kernel = "cfs"
    <3>1. acc[curr] + since < MaxTime /\ since' = since + 1 /\ used' = [used EXCEPT ![curr] = @ + 1]
      BY <1>1, <2>1
    <3>2. /\ acc \in [Tasks -> Nat] /\ used \in [Tasks -> Nat] /\ since \in Nat /\ MaxTime \in Nat
          /\ used[curr] = acc[curr] + since
      BY <1>4, PolicyAssumption DEF Typing, Timing
    <3>3. /\ used' \in [Tasks -> Nat] /\ used'[curr] = used[curr] + 1
          /\ \A t \in Tasks \ {curr} : used'[t] = used[t]
      BY <1>4, <3>1, <3>2
    <3>4. used'[curr] = acc[curr] + since' /\ used'[curr] <= MaxTime
      BY <1>4, <3>1, <3>2, <3>3
    <3>5. /\ \A t \in Tasks \ {curr} : /\ used[t] = acc[t] + 0 /\ used[t] <= MaxTime
                                       /\ life[t] = "unborn" => used[t] = 0
      BY DEF Timing
    <3> HIDE DEF Inv
    <3>6. Timing'
      BY <1>1, <1>4, <2>1, <3>3, <3>4, <3>5 DEF Timing
    <3> QED
      BY <3>1, <3>2, <3>3, <3>6
  <2>2. CASE kernel # "cfs"
    BY <1>1, <2>2 DEF Typing, Timing
  <2> QED
    BY <2>1, <2>2
<1>6. Typing'
  BY <1>1, <1>3, <1>5 DEF Typing
<1>7. AllSound' /\ AllModest' /\ Checked'
  BY <1>1, KeepParams
<1>8. Waiting' /\ Boosting' /\ Unboosted'
  BY <1>1 DEF Waiting, Boosting, Unboosted, Live
<1>9. Queueing' /\ Places' /\ Turn'
  BY <1>1 DEF Queueing, Distinct, In, Places, Turn, Before
<1>10. UrgentRuns'
  BY <1>1, <1>3 DEF UrgentRuns, Preempts
<1> QED
  BY <1>5, <1>6, <1>7, <1>8, <1>9, <1>10
--------------------------------------------------------------------------------
(* Every step *)

LEMMA InitHolds == Init => Inv
<1> SUFFICES ASSUME Init PROVE Inv
  OBVIOUS
<1>1. /\ kernel \in Kernels /\ privileged \in BOOLEAN
      /\ sp = [t \in Tasks |-> NormalTask]
      /\ life = [t \in Tasks |-> IF t = InitTask THEN "ready" ELSE "unborn"]
      /\ blocked = [t \in Tasks |-> Idle] /\ top = [t \in Tasks |-> Idle]
      /\ on_rq = {InitTask} /\ queue = <<>> /\ curr = InitTask
      /\ need_resched = FALSE /\ moved = FALSE
      /\ acc = [t \in Tasks |-> 0] /\ used = [t \in Tasks |-> 0] /\ since = 0
      /\ call = NoCall /\ adjust = {} /\ calls = 0
  BY DEF Init
<1>2. NormalTask \in Params /\ Sound(NormalTask) /\ Modest(NormalTask) /\ NormalTask.class = "fair"
      /\ NormalTask.prio = NormalTask.normal_prio
  <2>1. NICE_TO_PRIO(0) \in Priorities /\ NICE_TO_PRIO(0) = MAX_RT_PRIO + 20
        /\ MAX_RT_PRIO \in Nat /\ MAX_RT_PRIO >= 4
    BY PolicyAssumption DEF NICE_TO_PRIO, Priorities
  <2> QED
    BY <2>1 DEF NormalTask, Params, Sound, Modest, ClassOf, rt_prio
<1>3. \A t \in Tasks : sp[t] = NormalTask
  BY <1>1
<1>4. \A t \in Tasks : /\ blocked[t] = Idle /\ top[t] = Idle
                       /\ life[t] = IF t = InitTask THEN "ready" ELSE "unborn"
                       /\ acc[t] = 0 /\ used[t] = 0
  BY <1>1
<1>5. Typing
  <2>1. sp \in [Tasks -> Params]
    BY <1>1, <1>2
  <2>2. life \in [Tasks -> {"unborn", "ready", "blocked", "released", "dead"}]
    BY <1>1
  <2>3. /\ blocked \in [Tasks -> Tasks \cup {Idle}] /\ top \in [Tasks -> Tasks \cup {Idle}]
        /\ acc \in [Tasks -> Nat] /\ used \in [Tasks -> Nat] /\ since \in Nat
    BY <1>1
  <2>4. /\ kernel \in {"cfs", "fifo"} /\ on_rq \in SUBSET Tasks /\ queue \in Seq(Tasks)
        /\ curr \in Tasks \cup {Idle} /\ adjust \in SUBSET Tasks /\ calls \in 0..MaxCalls
    BY <1>1, PolicyAssumption
  <2> QED
    BY <1>1, <2>1, <2>2, <2>3, <2>4 DEF Typing
<1>6. AllSound /\ AllModest /\ Checked
  BY <1>1, <1>2, <1>3 DEF AllSound, AllModest, Checked
<1>7. Queueing /\ Turn
  <2>1. Len(queue) = 0 /\ \A x, y : ~In(x, queue) /\ ~Before(y, x, queue)
    BY <1>1 DEF In, Before
  <2>2. Distinct(queue)
    BY <2>1 DEF Distinct
  <2> QED
    BY <1>2, <1>3, <2>1, <2>2 DEF Queueing, Turn
<1>8. Places /\ UrgentRuns
  BY <1>1, <1>4, PolicyAssumption DEF Places, UrgentRuns
<1>9. Timing
  BY <1>1, <1>4, PolicyAssumption DEF Timing
<1>10. Waiting /\ Boosting /\ Unboosted
  BY <1>2, <1>3, <1>4, PolicyAssumption DEF Waiting, Boosting, Unboosted
<1> QED
  BY <1>5, <1>6, <1>7, <1>8, <1>9, <1>10 DEF Inv

LEMMA Stutters == Inv /\ UNCHANGED vars => Inv'
<1> SUFFICES ASSUME Inv, UNCHANGED vars PROVE Inv'
  OBVIOUS
<1> USE DEF Inv
<1>1. UNCHANGED <<kernel, privileged, sp, life, blocked, top, on_rq, queue, need_resched, moved, curr,
                  acc, since, used, call, adjust, calls>>
  BY DEF vars, machine, rq, time
<1>2. Typing'
  BY <1>1 DEF Typing
<1>3. AllSound' /\ AllModest' /\ Checked'
  BY <1>1, KeepParams
<1>4. Queueing' /\ UrgentRuns' /\ Turn'
  BY <1>1, KeepRunqueue
<1>5. Places' /\ Timing' /\ Waiting' /\ Boosting' /\ Unboosted'
  BY <1>1 DEF Places, Timing, Waiting, Boosting, Unboosted, Live
<1> QED
  BY <1>2, <1>3, <1>4, <1>5

LEMMA StepKeeps == Inv /\ [Next]_vars => Inv'
<1> SUFFICES ASSUME Inv, [Next]_vars PROVE Inv'
  OBVIOUS
<1>1. CASE CallStep
  <2>1. calls' \in 0..MaxCalls
    BY <1>1, PolicyAssumption DEF CallStep, Inv, Typing
  <2>2. PICK p \in Tasks :
        \/ \E policy \in {"NORMAL", "FIFO"}, priority \in RtPriorities \cup {0} :
            \E reset \in BOOLEAN : SysSetscheduler(p, policy, priority, reset)
        \/ \E n \in Nices : SysSetattr(p, n) \/ SetUserNice(p, n)
        \/ \E priority \in RtPriorities \cup {0} : SysSetparam(p, priority)
    BY <1>1 DEF CallStep
  <2>3. CASE \E policy \in {"NORMAL", "FIFO"}, priority \in RtPriorities \cup {0} :
                \E reset \in BOOLEAN : SysSetscheduler(p, policy, priority, reset)
    BY <2>1, <2>3, SysSetschedulerStep
  <2>4. CASE \E n \in Nices : SysSetattr(p, n) \/ SetUserNice(p, n)
    BY <2>1, <2>4, SysSetattrStep, SetUserNiceStep
  <2>5. CASE \E priority \in RtPriorities \cup {0} : SysSetparam(p, priority)
    BY <2>1, <2>5, SysSetparamStep
  <2> QED
    BY <2>2, <2>3, <2>4, <2>5
<1>2. CASE (Schedule \/ Tick \/ TaskStep \/ SetparamLocked) /\ UNCHANGED calls
  <2>1. calls' \in 0..MaxCalls
    BY <1>2 DEF Inv, Typing
  <2>2. CASE Schedule
    BY <2>1, <2>2, ScheduleStep
  <2>3. CASE Tick
    BY <2>1, <2>3, TickStep
  <2>4. CASE SetparamLocked
    BY <2>1, <2>4, SetparamLockedStep
  <2>5. CASE TaskStep
    <3>1. PICK t \in Tasks :
            \/ \E p \in Tasks : Fork(t, p) \/ Wait(t, p) \/ Block(t, p) \/ Unlock(t, p)
            \/ Exit(t) \/ Yield(t) \/ Wake(t) \/ AdjustPi(t)
      BY <2>5 DEF TaskStep
    <3>2. CASE \E p \in Tasks : Fork(t, p) \/ Wait(t, p) \/ Block(t, p) \/ Unlock(t, p)
      BY <2>1, <3>2, ForkStep, WaitStep, BlockStep, UnlockStep
    <3>3. CASE Exit(t) \/ Yield(t) \/ Wake(t) \/ AdjustPi(t)
      BY <2>1, <3>3, ExitStep, YieldStep, WakeStep, AdjustPiStep
    <3> QED
      BY <3>1, <3>2, <3>3
  <2> QED
    BY <1>2, <2>2, <2>3, <2>4, <2>5
<1> QED
  BY <1>1, <1>2, Stutters DEF Next

\* The invariant holds in every state of both kernels, however many tasks there are and
\* whatever they call.
THEOREM PolicyInvariant == Spec => []Inv
  BY InitHolds, StepKeeps, PTL DEF Spec
--------------------------------------------------------------------------------
(* The properties of SchedPolicy *)

\* Everything has its type, the class a task is queued in is the one of its priority,
\* SCHED_FIFO goes with a priority of 1 or more, and no call of sched_setscheduler,
\* sched_setparam, sched_setattr or nice has raised a priority without the capability.
THEOREM ParamsConsistentCorrect == Spec => []ParamsConsistent
<1>1. Inv => ParamsConsistent
  <2> SUFFICES ASSUME Inv PROVE ParamsConsistent
    OBVIOUS
  <2> USE DEF Inv
  <2>1. IsInjective(queue) /\ ToSet(queue) = {t \in on_rq : sp[t].class = "rt"}
    <3>1. queue \in Seq(Tasks) /\ DOMAIN queue = 1..Len(queue) /\ on_rq \in SUBSET Tasks
      BY DEF Typing
    <3>2. IsInjective(queue)
      BY <3>1 DEF IsInjective, Queueing, Distinct
    <3>3. \A x \in ToSet(queue) : x \in Tasks /\ In(x, queue)
      BY <3>1 DEF ToSet, In
    <3>4. \A x : In(x, queue) => x \in ToSet(queue)
      BY <3>1 DEF ToSet, In
    <3> QED
      BY <3>1, <3>2, <3>3, <3>4 DEF Queueing
  <2>2. /\ acc \in [Tasks -> 0..MaxTime] /\ used \in [Tasks -> 0..MaxTime] /\ since \in 0..MaxTime
    <3>1. /\ acc \in [Tasks -> Nat] /\ used \in [Tasks -> Nat] /\ since \in Nat /\ MaxTime \in Nat
          /\ curr \in Tasks \cup {Idle}
      BY PolicyAssumption DEF Typing
    <3>2. \A t \in Tasks : used[t] = acc[t] + (IF t = curr THEN since ELSE 0) /\ used[t] <= MaxTime
      BY DEF Timing
    <3>3. \A t \in Tasks : acc[t] \in 0..MaxTime /\ used[t] \in 0..MaxTime
      BY <3>1, <3>2
    <3>4. since \in 0..MaxTime
      <4>1. CASE curr = Idle
        BY <3>1, <4>1 DEF Timing
      <4>2. CASE curr # Idle
        BY <3>1, <3>2, <4>2
      <4> QED
        BY <4>1, <4>2
    <3> QED
      BY <3>1, <3>3, <3>4
  <2>3. TypeOK
    <3>1. {blocked, top} \subseteq [Tasks -> Tasks \cup {Idle}]
          /\ {acc, used} \subseteq [Tasks -> 0..MaxTime]
      BY <2>2 DEF Typing
    <3> QED
      BY <2>1, <2>2, <3>1 DEF TypeOK, Typing, Calls
  <2>4. Unprivileged
    <3> SUFFICES ASSUME kernel = "cfs", ~privileged, NEW p \in Tasks
                 PROVE  sp[p].policy = "NORMAL" /\ Nice(sp[p]) >= 0 /\ ~rt_prio(sp[p].prio)
      BY DEF Unprivileged
    <3>1. Modest(sp[p])
      BY DEF AllModest
    <3>2. sp[p].static_prio \in Nat
      BY PriosAreNat
    <3> QED
      BY <3>1, <3>2, PolicyAssumption DEF Modest, Nice
  <2>5. ASSUME NEW p \in Tasks
        PROVE  /\ sp[p].class = ClassOf(sp[p].prio)
               /\ (sp[p].policy = "FIFO") = (sp[p].rt_priority > 0)
    BY DEF AllSound, Sound
  <2> QED
    BY <2>3, <2>4, <2>5 DEF ParamsConsistent
<1> QED
  BY <1>1, PolicyInvariant, PTL

\* A task that holds a mutex is as urgent as the real-time tasks that wait for it once
\* rt_mutex_adjust_pi is through, and in the kernel of cfs/ a task nobody waits for has its
\* own priority: neither rt_mutex_unlock nor sched_fork lets a boost live on.
THEOREM BoostExactCorrect == Spec => []BoostExact
<1>1. Inv => BoostExact
  <2> SUFFICES ASSUME Inv PROVE BoostExact
    OBVIOUS
  <2> USE DEF Inv
  <2>1. BoostKept
    <3> SUFFICES ASSUME NEW w \in Tasks, blocked[w] # Idle, rt_prio(sp[w].prio),
                        WaitersOf(blocked[w]) \cap adjust = {}
                 PROVE  sp[blocked[w]].prio <= sp[w].prio
      BY DEF BoostKept
    <3> DEFINE p == blocked[w]
    <3>1. p \in Tasks
      BY DEF Typing
    <3>2. \A v \in Tasks : blocked[v] = p => v \notin adjust
      BY DEF WaitersOf
    <3>3. top[p] # Idle /\ sp[top[p]].prio <= sp[w].prio /\ sp[p].prio <= sp[top[p]].prio
      BY <3>1, <3>2 DEF Boosting
    <3>4. top[p] \in Tasks
      BY <3>1, <3>3 DEF Typing
    <3>5. sp[p].prio \in Nat /\ sp[w].prio \in Nat /\ sp[top[p]].prio \in Nat
      BY <3>1, <3>4, PriosAreNat
    <3> QED
      BY <3>3, <3>5
  <2>2. kernel = "cfs" => NoBoostLeak
    BY DEF Unboosted, NoBoostLeak, WaitersOf
  <2> QED
    BY <2>1, <2>2 DEF BoostExact
<1> QED
  BY <1>1, PolicyInvariant, PTL

\* No task more urgent than current waits on the runqueue without a reschedule under way:
\* check_class_changed and check_preempt_curr miss no change of a priority.
THEOREM UrgentRunsCorrect == Spec => []UrgentRuns
<1>1. Inv => UrgentRuns
  BY DEF Inv
<1> QED
  BY <1>1, PolicyInvariant, PTL

\* The time do_exit prints in the kernel of cfs/ is the time the task has run: fork clears
\* it and every switch adds to it once.
THEOREM BurstTimeExactCorrect == Spec => []BurstTimeExact
<1>1. Inv => BurstTimeExact
  <2> SUFFICES ASSUME Inv, NEW p \in Tasks, curr # p PROVE acc[p] = used[p]
    BY DEF BurstTimeExact
  <2>1. used[p] = acc[p] + 0 /\ acc[p] \in Nat
    BY DEF Inv, Timing, Typing
  <2> QED
    BY <2>1
<1> QED
  BY <1>1, PolicyInvariant, PTL

\* sched_setparam changes no policy: when another call has changed it after the checks,
\* __sched_setscheduler notices under the lock and checks again.
THEOREM SetparamKeepsPolicyCorrect == Spec => SetparamKeepsPolicy
<1>1. ASSUME Inv, [Next]_vars, call # NoCall, call' = NoCall, NEW q \in Tasks
      PROVE  sp'[q].policy = sp[q].policy
  <2>1. SetparamLocked
    <3>1. call' # call
      BY <1>1
    <3>2. Next
      BY <1>1, <3>1 DEF vars
    <3>3. ~CallStep
      <4>1. ~\E p \in Tasks, priority \in RtPriorities \cup {0} : SysSetparam(p, priority)
        BY <1>1 DEF SysSetparam
      <4> QED
        BY ZenonT(30), <3>1, <4>1 DEF CallStep, SysSetscheduler, SysSetattr, SetUserNice
    <3>4. ~Schedule /\ ~Tick
      BY <3>1 DEF Schedule, Tick
    <3>5. ~TaskStep
      BY <3>1 DEF TaskStep, Fork, Wait, Block, Unlock, Exit, Yield, Wake, AdjustPi
    <3> QED
      BY <3>2, <3>3, <3>4, <3>5 DEF Next
  <2> DEFINE p == call.p
  <2>2. call \in Calls /\ p \in Tasks /\ sp \in [Tasks -> Params]
    BY <1>1 DEF Inv, Typing, Calls
  <2>3. CASE PolicyStale
    BY <2>1, <2>3 DEF SetparamLocked
  <2>4. CASE ~PolicyStale
    <3>1. /\ Locked(p, call.oldpolicy, call.priority, call.nice, call.reset)
          /\ call.oldpolicy = sp[p].policy
      BY <2>1, <2>4 DEF SetparamLocked, PolicyStale
    <3> DEFINE new == NewParams(p, call.oldpolicy, call.priority, call.nice, call.reset)
    <3>2. new.policy = call.oldpolicy
      <4>1. sp[p] \in Params
        BY <2>2
      <4> QED
        BY <4>1 DEF NewParams, Params
    <3>3. \/ sp' = [sp EXCEPT ![p].reset = call.reset]
          \/ sp' = [sp EXCEPT ![p] = new]
      BY <3>1 DEF Locked, Reprioritised
    <3> HIDE DEF new
    <3>4. CASE sp' = [sp EXCEPT ![p] = new]
      BY <2>2, <3>1, <3>2, <3>4
    <3>5. CASE sp' = [sp EXCEPT ![p].reset = call.reset]
      <4>1. sp'[q] = IF q = p THEN [sp[p] EXCEPT !.reset = call.reset] ELSE sp[q]
        BY <2>2, <3>5
      <4>2. sp[p] \in Params
        BY <2>2
      <4>3. [sp[p] EXCEPT !.reset = call.reset].policy = sp[p].policy
        BY <4>2 DEF Params
      <4> QED
        BY <4>1, <4>3
    <3> QED
      BY <3>3, <3>4, <3>5
  <2> QED
    BY <2>3, <2>4
<1>2. Inv /\ [Next]_vars =>
        [(call # NoCall /\ call' = NoCall) => \A p \in Tasks : sp'[p].policy = sp[p].policy]_vars
  BY <1>1
<1> QED
  BY <1>2, PolicyInvariant, PTL DEF Spec, SetparamKeepsPolicy

\* A SCHED_FIFO task that is ready keeps the CPU until it yields or a more urgent one comes:
\* pick_next_task takes the first of its list, and a task whose boost ends goes to the head
\* of the list it falls back to.
THEOREM FifoKeepsTurnCorrect == Spec => FifoKeepsTurn
<1>1. ASSUME Inv, [Next]_vars, curr \in Tasks, sp[curr].class = "rt", life[curr] = "ready", ~moved,
             curr' # curr
      PROVE  sp[curr'].prio < sp[curr].prio
  <2>1. Schedule
    <3>2. Next
      BY <1>1 DEF vars
    <3>3. ~CallStep
      BY ZenonT(30), <1>1 DEF CallStep, SysSetscheduler, SysSetattr, SetUserNice, SysSetparam
    <3>4. ~Tick /\ ~SetparamLocked
      BY <1>1 DEF Tick, SetparamLocked
    <3>5. ~TaskStep
      BY <1>1 DEF TaskStep, Fork, Wait, Block, Unlock, Exit, Yield, Wake, AdjustPi
    <3> QED
      BY <3>2, <3>3, <3>4, <3>5 DEF Next
  <2>2. /\ \A x \in Tasks : x \in on_rq' <=> x \in on_rq /\ (x = curr => life[x] = "ready")
        /\ \A x \in Tasks : In(x, queue') <=> x \in on_rq' /\ sp[x].class = "rt"
        /\ \A x, y \in Tasks : Before(x, y, queue') => Before(x, y, queue)
        /\ \A x \in Tasks : In(x, queue') /\ x # curr' =>
                /\ curr' \in Tasks
                /\ \/ sp[curr'].prio < sp[x].prio
                   \/ sp[curr'].prio = sp[x].prio /\ Before(curr', x, queue')
    BY <1>1, <2>1, ScheduleEffect
  <2>3. In(curr, queue')
    BY <1>1, <2>2 DEF Inv, Places
  <2>4. \A y \in Tasks : Before(y, curr, queue) => sp[y].prio # sp[curr].prio
    BY <1>1 DEF Inv, Turn
  <2> QED
    BY <1>1, <2>2, <2>3, <2>4
<1>2. Inv /\ [Next]_vars =>
        [(curr \in Tasks /\ sp[curr].class = "rt" /\ life[curr] = "ready" /\ ~moved /\ curr' # curr)
            => sp[curr'].prio < sp[curr].prio]_vars
  BY <1>1
<1> QED
  BY <1>2, PolicyInvariant, PTL DEF Spec, FifoKeepsTurn
================================================================================
