----------------------------- MODULE Intersection -----------------------------
(***************************************************************************)
(* Assignment_6/program.c: six threads move vehicles over a crossing.       *)
(*                                                                          *)
(* main draws the list of vehicles, creates the threads and signals the     *)
(* first vehicle's thread.  job0 is the dispatcher: once a tick it picks    *)
(* which vehicle enters and which one leaves, signals its thread and waits  *)
(* for the answer.  job1..job4 move the vehicles of P1..P4: a first wakeup  *)
(* lets one enter, the next one lets it leave.                              *)
(*                                                                          *)
(* One action stands for the code between two calls that may block.  Every  *)
(* mutex<k> is locked by thread k alone, so locking never blocks and        *)
(* excludes nobody: the mutexes are not modelled.  A condition variable     *)
(* cond<k> is waited on by thread k alone; a signal sent while k is not in  *)
(* pthread_cond_wait is forgotten, as POSIX says.  sleep(1) is a delay and  *)
(* orders nothing.                                                          *)
(***************************************************************************)
EXTENDS Integers, FiniteSets, Sequences

CONSTANTS
    ListSize,       \* length of start_point_list (20 in the code)
    WaitSize,       \* length of waiting_list (20 in the code)
    VehicleCounts,  \* the numbers the user may type (README.md: 10..15)
    RandomPoints,   \* the values of rand() % 4 + 1
    Garbage         \* what a read past the end of start_point_list returns

Points == 1..4
Job0 == 0                       \* the dispatcher thread
Main == 5                       \* the main thread
Threads == 0..5

ASSUME SizeAssumption == ListSize \in Nat \ {0} /\ WaitSize \in Nat \ {0}
ASSUME VehicleAssumption == VehicleCounts \subseteq 1..ListSize
ASSUME PointAssumption == RandomPoints \subseteq Points
ASSUME GarbageAssumption == Garbage \subseteq Int

\* Mutant: the lanes are paired with their neighbours.
OppositeAdjacent(p) == CASE p = 1 -> 2 [] p = 2 -> 1 [] p = 3 -> 4 [] p = 4 -> 3

\* The pairs of the condition that lets a second vehicle in.
Opposite(p) == CASE p = 1 -> 3 [] p = 2 -> 4 [] p = 3 -> 1 [] p = 4 -> 2

VARIABLES
    pc,                 \* where each thread is
    blocked,            \* the threads inside pthread_cond_wait, not signalled
    lost,               \* history: threads a signal did not reach
    start_point_list, list_index,
    waiting_list, waiting_index,
    passed_list,        \* passed_list[0..passed_index-1]
    pCount,             \* vehicles of each start point
    count,              \* job1_count..job4_count
    process,            \* 0: no vehicle of the point inside, 1: one inside
    finish,
    tick,
    where, where_temp,  \* the start point whose vehicle holds the crossing
    temp,               \* job0: where_temp is to be restored
    lane                \* job0: the "case" of switch (where) being executed

shared == <<start_point_list, list_index, waiting_list, waiting_index,
            passed_list, pCount, count, process, finish, tick, where,
            where_temp, temp, lane>>
vars == <<pc, blocked, lost, shared>>

Job0Labels == {"unborn", "lock", "initwait", "sleep", "mid", "midwait",
               "end", "endwait", "done"}
JobLabels == {"unborn", "start", "block", "wait", "done"}
MainLabels == {"list", "create", "signal", "join", "done", "failed", "undefined"}

ThreadsOK ==
    /\ pc \in [Threads -> Job0Labels \cup JobLabels \cup MainLabels]
    /\ pc[Job0] \in Job0Labels
    /\ \A k \in Points : pc[k] \in JobLabels
    /\ pc[Main] \in MainLabels
    /\ blocked \subseteq {Job0} \cup Points
    /\ lost \subseteq {Job0} \cup Points

DataOK ==
    /\ start_point_list \in [0..(ListSize - 1) -> {0} \cup Points]
    /\ list_index \in Nat
    /\ waiting_list \in [0..(WaitSize - 1) -> Int]
    /\ waiting_index \in Nat
    /\ passed_list \in Seq(Points)
    /\ pCount \in [Points -> Nat]
    /\ count \in [Points -> Nat]
    /\ process \in [Points -> {0, 1}]
    /\ finish \in [Points -> BOOLEAN]
    /\ tick \in Nat
    /\ where \in {0} \cup Points
    /\ where_temp \in {0} \cup Points
    /\ temp \in BOOLEAN
    /\ lane \in {0} \cup Points

TypeOK == ThreadsOK /\ DataOK

Init ==
    /\ pc = [t \in Threads |-> IF t = Main THEN "list" ELSE "unborn"]
    /\ blocked = {}
    /\ lost = {}
    /\ start_point_list = [i \in 0..(ListSize - 1) |-> 0]
    /\ list_index = 0
    /\ waiting_list = [i \in 0..(WaitSize - 1) |-> 0]
    /\ waiting_index = 0
    /\ passed_list = <<>>
    /\ pCount = [p \in Points |-> 0]
    /\ count = [p \in Points |-> 0]
    /\ process = [p \in Points |-> 0]
    /\ finish = [p \in Points |-> FALSE]
    /\ tick = 1
    /\ where = 0
    /\ where_temp = 0
    /\ temp = FALSE
    /\ lane = 0

\* exit(1) ends every thread, and nothing is said of the program after a write
\* outside its arrays.
Alive == pc[Main] \notin {"failed", "undefined"}

\* pthread_cond_signal(&cond<k>): wakes k if it waits, is forgotten otherwise.
Signal(k) ==
    /\ blocked' = blocked \ {k}
    /\ lost' = IF k \in blocked THEN lost ELSE lost \cup {k}

\* switch (v): signals the thread of start point v, if v is one.
SignalPoint(v) ==
    IF v \in Points THEN Signal(v) ELSE UNCHANGED <<blocked, lost>>

\* pthread_cond_wait(&cond<k>, &mutex<k>), up to the moment k is asleep.
Block(k, label) ==
    /\ pc' = [pc EXCEPT ![k] = label]
    /\ blocked' = blocked \cup {k}
    /\ UNCHANGED lost

\* What start_point_list[i] reads: past the end, some other variable's bytes.
ReadStart(i) == IF i < ListSize THEN {start_point_list[i]} ELSE Garbage
-------------------------------------------------------------------------------
(***************************************************************************)
(* main                                                                     *)
(***************************************************************************)
create_random_list ==
    /\ pc[Main] = "list"
    /\ \E vehicles \in VehicleCounts :
       \E drawn \in [0..(vehicles - 1) -> RandomPoints] :
          /\ start_point_list' = [i \in DOMAIN start_point_list |->
                                    IF i < vehicles THEN drawn[i] ELSE 0]
          /\ pCount' = [p \in Points |-> Cardinality({i \in DOMAIN drawn : drawn[i] = p})]
    /\ pc' = [pc EXCEPT ![Main] = "create"]
    /\ UNCHANGED <<blocked, lost, list_index, waiting_list, waiting_index,
                   passed_list, count, process, finish, tick, where,
                   where_temp, temp, lane>>

\* The five pthread_create calls, in order; a new thread may run at once.
create_thread ==
    /\ pc[Main] = "create"
    /\ \E k \in {Job0} \cup Points :
          /\ pc[k] = "unborn"
          /\ \A j \in 0..(k - 1) : pc[j] # "unborn"
          /\ pc' = [pc EXCEPT ![k] = IF k = Job0 THEN "lock" ELSE "start",
                              ![Main] = IF k = 4 THEN "signal" ELSE "create"]
    /\ UNCHANGED <<blocked, lost, shared>>

create_thread_fails ==
    /\ pc[Main] = "create"
    /\ pc' = [pc EXCEPT ![Main] = "failed"]
    /\ UNCHANGED <<blocked, lost, shared>>

\* main takes the first vehicle of the list and wakes its thread.
SignalFirst ==
    /\ pc[Main] = "signal"
    /\ \E start \in ReadStart(list_index) : SignalPoint(start)
    /\ list_index' = list_index + 1
    /\ pc' = [pc EXCEPT ![Main] = "join"]
    /\ UNCHANGED <<start_point_list, waiting_list, waiting_index, passed_list,
                   pCount, count, process, finish, tick, where, where_temp,
                   temp, lane>>

\* The five joins, then print_result.
Join ==
    /\ pc[Main] = "join"
    /\ \A k \in {Job0} \cup Points : pc[k] = "done"
    /\ pc' = [pc EXCEPT ![Main] = "done"]
    /\ UNCHANGED <<blocked, lost, shared>>
-------------------------------------------------------------------------------
(***************************************************************************)
(* job0, the dispatcher                                                     *)
(***************************************************************************)
Job0Start ==
    /\ Alive /\ pc[Job0] = "lock"
    /\ Block(Job0, "initwait")
    /\ UNCHANGED shared

\* Woken at the top of the loop: print_progress, then sleep(1).
print_progress ==
    /\ Alive /\ pc[Job0] \in {"initwait", "endwait"}
    /\ Job0 \notin blocked
    /\ tick' = tick + 1
    /\ pc' = [pc EXCEPT ![Job0] = "sleep"]
    /\ UNCHANGED <<blocked, lost, start_point_list, list_index, waiting_list,
                   waiting_index, passed_list, pCount, count, process, finish,
                   where, where_temp, temp, lane>>

\* Mutant: where_temp is never restored.
RestoredWhereForgets == where

\* where, after the restore of lines 199-202.
RestoredWhere == IF temp THEN where_temp ELSE where

\* waiting_list once the vehicle read from the list has joined it.
Joined(start) ==
    IF start > 0 THEN [waiting_list EXCEPT ![waiting_index] = start] ELSE waiting_list

\* The first index of list w that holds a value of S; empty when there is none.
FirstIndex(w, S) ==
    {i \in DOMAIN w : w[i] \in S /\ \A j \in 0..(i - 1) : w[j] \notin S}

\* The index job0 picks: the first vehicle facing the one inside, otherwise the
\* first one waiting; empty when nobody waits.
Picked(w, at) ==
    LET facing == IF at \in Points THEN FirstIndex(w, {Opposite(at)}) ELSE {}
    IN  IF facing # {} THEN facing ELSE FirstIndex(w, Nat \ {0})

\* Mutant: a vehicle that may not enter is not put back.
PutBackForgets(w, taken, key) == taken

\* case 1..4 of switch (key): a vehicle that may not enter yet is put back.
PutBack(w, taken, key) == IF key \in Points THEN w ELSE taken

\* The program leaves its memory: waiting_list[waiting_index++] past the end.
OverflowWaiting ==
    /\ Alive /\ pc[Job0] = "sleep"
    /\ waiting_index >= WaitSize
    /\ \E start \in ReadStart(list_index) : start > 0
    /\ pc' = [pc EXCEPT ![Main] = "undefined"]
    /\ UNCHANGED <<blocked, lost, shared>>

\* After sleep(1): forget who passed, take the next vehicle of the list, choose
\* a vehicle, and hand the crossing to a thread (or end).
Dispatch ==
    /\ Alive /\ pc[Job0] = "sleep"
    /\ \E start \in ReadStart(list_index) :
         LET w == Joined(start)
             picked == Picked(w, RestoredWhere)
             key == IF picked = {} THEN 0 ELSE w[CHOOSE i \in picked : TRUE]
             taken == [i \in DOMAIN w |-> IF i \in picked THEN 0 ELSE w[i]]
             facing == RestoredWhere \in Points /\ key = Opposite(RestoredWhere)
         IN  /\ start > 0 => waiting_index < WaitSize
             /\ waiting_index' = IF start > 0 THEN waiting_index + 1 ELSE waiting_index
             /\ \/ \* all threads are through: the loop ends
                   /\ \A p \in Points : finish[p]
                   /\ waiting_list' = taken
                   /\ pc' = [pc EXCEPT ![Job0] = "done"]
                   /\ UNCHANGED <<blocked, lost, lane>>
                \/ \* the crossing is free: the chosen vehicle enters
                   /\ ~ \A p \in Points : finish[p]
                   /\ RestoredWhere = 0
                   /\ waiting_list' = taken
                   /\ SignalPoint(key)
                   /\ pc' = [pc EXCEPT ![Job0] = "end"]
                   /\ UNCHANGED lane
                \/ \* the facing vehicle enters before the one inside leaves
                   /\ ~ \A p \in Points : finish[p]
                   /\ facing
                   /\ waiting_list' = taken
                   /\ Signal(key)
                   /\ lane' = RestoredWhere
                   /\ pc' = [pc EXCEPT ![Job0] = "mid"]
                \/ \* nobody may enter: the chosen one is put back
                   /\ ~ \A p \in Points : finish[p]
                   /\ RestoredWhere \in Points /\ ~facing
                   /\ waiting_list' = PutBack(w, taken, key)
                   /\ Signal(RestoredWhere)
                   /\ pc' = [pc EXCEPT ![Job0] = "end"]
                   /\ UNCHANGED lane
    /\ list_index' = list_index + 1
    /\ passed_list' = <<>>
    /\ where' = RestoredWhere
    /\ temp' = FALSE
    /\ UNCHANGED <<start_point_list, pCount, count, process, finish, tick, where_temp>>

\* job0 falls asleep on cond0 after its signal.
Job0Block ==
    /\ Alive /\ pc[Job0] \in {"mid", "end"}
    /\ Block(Job0, IF pc[Job0] = "mid" THEN "midwait" ELSE "endwait")
    /\ UNCHANGED shared

\* Mutant: temp is not set, so where_temp is not restored.
LeaveFirstKeepsTemp ==
    /\ Alive /\ pc[Job0] = "midwait"
    /\ Job0 \notin blocked
    /\ where_temp' = where
    /\ temp' = FALSE
    /\ Signal(lane)
    /\ pc' = [pc EXCEPT ![Job0] = "end"]
    /\ UNCHANGED <<start_point_list, list_index, waiting_list, waiting_index,
                   passed_list, pCount, count, process, finish, tick, where, lane>>

\* The facing vehicle has entered: note who holds the crossing now, and let the
\* first vehicle leave.
LeaveFirst ==
    /\ Alive /\ pc[Job0] = "midwait"
    /\ Job0 \notin blocked
    /\ where_temp' = where
    /\ temp' = TRUE
    /\ Signal(lane)
    /\ pc' = [pc EXCEPT ![Job0] = "end"]
    /\ UNCHANGED <<start_point_list, list_index, waiting_list, waiting_index,
                   passed_list, pCount, count, process, finish, tick, where, lane>>
-------------------------------------------------------------------------------
(***************************************************************************)
(* job1..job4: the thread of start point k                                  *)
(***************************************************************************)
\* Mutant: the first pthread_cond_wait is skipped.
JobStartNoWait(k) ==
    /\ Alive /\ pc[k] = "start"
    /\ IF pCount[k] = 0
       THEN /\ finish' = [finish EXCEPT ![k] = TRUE]
            /\ pc' = [pc EXCEPT ![k] = "done"]
            /\ UNCHANGED <<blocked, lost>>
       ELSE /\ pc' = [pc EXCEPT ![k] = "wait"]
            /\ UNCHANGED <<blocked, lost>>
            /\ UNCHANGED finish
    /\ UNCHANGED <<start_point_list, list_index, waiting_list, waiting_index,
                   passed_list, pCount, count, process, tick, where,
                   where_temp, temp, lane>>

\* A thread without vehicles ends at once; the others wait for their first turn.
JobStart(k) ==
    /\ Alive /\ pc[k] = "start"
    /\ IF pCount[k] = 0
       THEN /\ finish' = [finish EXCEPT ![k] = TRUE]
            /\ pc' = [pc EXCEPT ![k] = "done"]
            /\ UNCHANGED <<blocked, lost>>
       ELSE /\ Block(k, "wait")
            /\ UNCHANGED finish
    /\ UNCHANGED <<start_point_list, list_index, waiting_list, waiting_index,
                   passed_list, pCount, count, process, tick, where,
                   where_temp, temp, lane>>

\* The vehicle enters (process 0 -> 1) or leaves (1 -> 2 -> 0).
Move(k) ==
    IF process[k] = 0
    THEN /\ process' = [process EXCEPT ![k] = 1]
         /\ where' = k
         /\ UNCHANGED <<passed_list, count>>
    ELSE /\ process' = [process EXCEPT ![k] = 0]
         /\ where' = 0
         /\ passed_list' = Append(passed_list, k)
         /\ count' = [count EXCEPT ![k] = @ + 1]

LastPassed(k) == count'[k] = pCount[k]

\* Mutant: the thread that ends does not tell job0.
ReportSilent(k) ==
    IF LastPassed(k)
    THEN /\ finish' = [finish EXCEPT ![k] = TRUE]
         /\ pc' = [pc EXCEPT ![k] = "done"]
         /\ UNCHANGED <<blocked, lost>>
    ELSE /\ pc' = [pc EXCEPT ![k] = "block"]
         /\ Signal(Job0)
         /\ UNCHANGED finish

\* The thread ends with its last vehicle, or goes on to wait; job0 is told.
Report(k) ==
    /\ IF LastPassed(k)
       THEN /\ finish' = [finish EXCEPT ![k] = TRUE]
            /\ pc' = [pc EXCEPT ![k] = "done"]
       ELSE /\ pc' = [pc EXCEPT ![k] = "block"]
            /\ UNCHANGED finish
    /\ Signal(Job0)

\* Woken: one pass of the loop of job<k>, up to the next pthread_cond_wait.
Job(k) ==
    /\ Alive /\ pc[k] = "wait"
    /\ k \notin blocked
    /\ Move(k)
    /\ Report(k)
    /\ UNCHANGED <<start_point_list, list_index, waiting_list, waiting_index,
                   pCount, tick, where_temp, temp, lane>>

JobBlock(k) ==
    /\ Alive /\ pc[k] = "block"
    /\ Block(k, "wait")
    /\ UNCHANGED shared
-------------------------------------------------------------------------------
MainNext == create_random_list \/ create_thread \/ create_thread_fails
            \/ SignalFirst \/ Join
Job0Next == Job0Start \/ print_progress \/ OverflowWaiting \/ Dispatch
            \/ Job0Block \/ LeaveFirst
JobNext(k) == JobStart(k) \/ Job(k) \/ JobBlock(k)

Next == MainNext \/ Job0Next \/ \E k \in Points : JobNext(k)

Spec == Init /\ [][Next]_vars

\* Every thread keeps running while it can: the scheduler starves nobody.
Fairness ==
    /\ WF_vars(create_random_list \/ create_thread \/ SignalFirst \/ Join)
    /\ WF_vars(Job0Next)
    /\ \A k \in Points : WF_vars(JobNext(k))

FairSpec == Spec /\ Fairness
-------------------------------------------------------------------------------
(***************************************************************************)
(* Properties                                                               *)
(***************************************************************************)
Inside == {p \in Points : process[p] = 1}

\* Thread k has been let out of pthread_cond_wait and has not come back to it.
Woken(k) == pc[k] \in {"initwait", "midwait", "endwait", "wait"} /\ k \notin blocked

\* Thread k is in code that reads or writes the shared variables.
Running(k) == Woken(k) \/ pc[k] \in {"sleep", "list", "create", "signal"}

\* The shared variables are protected by the signalling protocol alone (each
\* mutex has one user): whatever the interleaving, and even when a signal is
\* forgotten, no two threads are between a wakeup and their next wait.
OneBaton == \A s, t \in Threads : Running(s) /\ Running(t) => s = t

\* README.md:16-18: vehicles of crossing roads are never inside together; only
\* the facing start point may be used at the same time.
RoadSafe == \A p, q \in Inside : q \in {p, Opposite(p)}

\* When job0 comes back from its tick, where (or where_temp, when it is to be
\* restored) names exactly the vehicle that is inside: the choice of the next
\* vehicle never rests on a stale value left by a thread that ran later.
WhereIsRight ==
    pc[Job0] = "sleep" => Inside = {RestoredWhere} \cap Points

\* The thread of p has been woken to let a vehicle enter and has not run yet.
Entering(p) == Woken(p) /\ process[p] = 0

Accounted(p) ==
    count[p] + process[p] + (IF Entering(p) THEN 1 ELSE 0)
    + Cardinality({i \in DOMAIN waiting_list : waiting_list[i] = p})
    + Cardinality({i \in DOMAIN start_point_list :
                      i >= list_index /\ start_point_list[i] = p})

\* README.md:10,13: the vehicles are those of the drawn list.  Unless a signal was
\* forgotten, each one is still in the list, waits, is inside or has passed: taking
\* it out of waiting_list and putting it back drops and invents none, and when main
\* prints its result, which shows pCount, all have passed and none waits.  Reading
\* behind the end of the list may add vehicles but loses none.
NoVehicleLostOrInvented ==
    /\ lost = {} /\ Alive =>
         \A p \in Points : Accounted(p) >= pCount[p]
                            /\ (list_index <= ListSize => Accounted(p) = pCount[p])
    /\ pc[Main] = "done" =>
         /\ count = pCount
         /\ Inside = {}
         /\ list_index <= ListSize => \A i \in DOMAIN waiting_list : waiting_list[i] = 0

\* A thread without vehicles sets finish only once it runs: here it has not run
\* yet when job0, with all vehicles through, has looked at finish.
LateFinish ==
    pc[Job0] = "end" /\ count = pCount /\ \E k \in Points : pc[k] = "start"

\* The protocol gets stuck in two ways only: a signal was forgotten (nothing orders
\* a signal after the wait it is meant for) or job0 read finish too early.  Nothing is
\* said once job0 has read behind start_point_list or written behind waiting_list.
EndsUnlessSignalLost ==
    <>(\/ pc[Main] \in {"done", "failed", "undefined"}
       \/ lost # {} \/ LateFinish \/ list_index > ListSize)

\* README.md:22-24: at the end the counts and the total time are printed.
Termination == <>(pc[Main] \in {"done", "failed"})
-------------------------------------------------------------------------------
(***************************************************************************)
(* The threads implement the crossing.                                      *)
(***************************************************************************)
X == INSTANCE Crossroad WITH
        MaxVehicles <- ListSize,
        todo <- [p \in Points |-> pCount[p] - count[p] - process[p]],
        road <- Inside,
        gone <- count

\* Whatever the interleaving, each vehicle thread's steps are steps of Crossroad.
ImplementsCrossroad == X!Spec
===============================================================================
