--------------------------- MODULE IntersectionProofs ---------------------------
(***************************************************************************)
(* Proofs about Intersection, for lists and arrays of every size, every     *)
(* number of vehicles and every value read past the end of the list.        *)
(***************************************************************************)
EXTENDS Intersection, FiniteSetTheorems, TLAPS

\* Only a thread inside pthread_cond_wait is blocked.
BlockedWait ==
    \A k \in blocked : pc[k] \in {"initwait", "midwait", "endwait", "wait"}

\* Until main sends the first signal nothing has moved.
Startup ==
    pc[Main] \in {"list", "create", "signal"} =>
        /\ process = [p \in Points |-> 0]
        /\ where = 0
        /\ temp = FALSE
        /\ pc[Job0] \in {"unborn", "lock", "initwait"}

\* What job0 may rely on when it is woken.
DispatcherTurn ==
    /\ pc[Job0] = "sleep" \/ (Woken(Job0) /\ pc[Job0] # "midwait") =>
           Inside = {RestoredWhere} \cap Points
    /\ Woken(Job0) /\ pc[Job0] = "midwait" =>
           /\ lane \in Points
           /\ where = Opposite(lane)
           /\ Inside = {lane, Opposite(lane)}

\* What the thread of k may rely on when it is woken.
VehicleTurn ==
    \A k \in Points : Woken(k) =>
        IF pc[Job0] \in {"mid", "midwait"}
        THEN /\ lane \in Points
             /\ k = Opposite(lane)
             /\ Inside = {lane}
             /\ where = lane
             /\ temp = FALSE
        ELSE \/ temp = FALSE /\ Inside = {} /\ where = 0
             \/ temp = FALSE /\ Inside = {k} /\ where = k
             \/ temp = TRUE /\ where_temp = Opposite(k) /\ Inside = {k, Opposite(k)}

\* A thread that still waits has vehicles left; nothing is counted before the
\* list is drawn.
VehiclesLeft ==
    /\ \A k \in Points :
          /\ pc[k] \in {"wait", "block"} => count[k] < pCount[k]
          /\ pc[k] \in {"unborn", "start"} => count[k] = 0 /\ process[k] = 0
    /\ pc[Main] = "list" => /\ \A k \in Points : pc[k] = "unborn" 
                            /\ pCount = [p \in Points |-> 0]

IInv ==
    /\ TypeOK
    /\ OneBaton
    /\ RoadSafe
    /\ BlockedWait
    /\ Startup
    /\ DispatcherTurn
    /\ VehicleTurn
    /\ VehiclesLeft

\* The drawn vehicles of one start point are at most the vehicles of the list.
LEMMA DrawnCount ==
    ASSUME NEW n \in Nat, NEW drawn \in [0..(n - 1) -> Points], NEW p
    PROVE  Cardinality({i \in DOMAIN drawn : drawn[i] = p}) \in 0..n
<1>1. IsFiniteSet(0..(n - 1)) /\ Cardinality(0..(n - 1)) = n
  BY FS_Interval
<1>2. {i \in DOMAIN drawn : drawn[i] = p} \subseteq 0..(n - 1)
  OBVIOUS
<1>3. /\ IsFiniteSet({i \in DOMAIN drawn : drawn[i] = p})
      /\ Cardinality({i \in DOMAIN drawn : drawn[i] = p}) <= n
  BY <1>1, <1>2, FS_Subset
<1> QED
  BY <1>3, FS_CardinalityType

\* What create_random_list draws: a list of start points and their numbers.
LEMMA DrawnList ==
    ASSUME TypeOK, create_random_list
    PROVE  /\ start_point_list' \in [0..(ListSize - 1) -> {0} \cup Points]
           /\ pCount' \in [Points -> 0..ListSize]
<1>1. PICK vehicles \in VehicleCounts :
        \E drawn \in [0..(vehicles - 1) -> RandomPoints] :
          /\ start_point_list' = [i \in DOMAIN start_point_list |->
                                    IF i < vehicles THEN drawn[i] ELSE 0]
          /\ pCount' = [p \in Points |-> Cardinality({i \in DOMAIN drawn : drawn[i] = p})]
  BY DEF create_random_list
<1>2. PICK drawn \in [0..(vehicles - 1) -> RandomPoints] :
          /\ start_point_list' = [i \in DOMAIN start_point_list |->
                                    IF i < vehicles THEN drawn[i] ELSE 0]
          /\ pCount' = [p \in Points |-> Cardinality({i \in DOMAIN drawn : drawn[i] = p})]
  BY <1>1
<1>3. vehicles \in 1..ListSize /\ ListSize \in Nat
  BY VehicleAssumption, SizeAssumption
<1>4. drawn \in [0..(vehicles - 1) -> Points]
  BY PointAssumption
<1>5. start_point_list' \in [0..(ListSize - 1) -> {0} \cup Points]
  BY <1>2, <1>3, <1>4 DEF TypeOK, DataOK
<1>6. \A p \in Points : Cardinality({i \in DOMAIN drawn : drawn[i] = p}) \in 0..vehicles
  <2> TAKE p \in Points
  <2> vehicles \in Nat
    BY <1>3
  <2> QED
    BY <1>4, DrawnCount
<1>7. \A p \in Points : Cardinality({i \in DOMAIN drawn : drawn[i] = p}) \in 0..ListSize
  BY <1>3, <1>6
<1> QED
  BY <1>2, <1>5, <1>7


\* The four ways Dispatch hands the crossing on.
LEMMA DispatchCases ==
    ASSUME DataOK, Dispatch
    PROVE  \/ pc' = [pc EXCEPT ![Job0] = "done"] /\ UNCHANGED <<blocked, lost, lane>>
           \/ /\ RestoredWhere = 0
              /\ \E key : SignalPoint(key)
              /\ pc' = [pc EXCEPT ![Job0] = "end"]
              /\ UNCHANGED lane
           \/ /\ RestoredWhere \in Points
              /\ Signal(Opposite(RestoredWhere))
              /\ lane' = RestoredWhere
              /\ pc' = [pc EXCEPT ![Job0] = "mid"]
           \/ /\ RestoredWhere \in Points
              /\ Signal(RestoredWhere)
              /\ pc' = [pc EXCEPT ![Job0] = "end"]
              /\ UNCHANGED lane
  BY Zenon DEF Dispatch

LEMMA OppositePoint == \A p \in Points : Opposite(p) \in Points \ {p} /\ Opposite(Opposite(p)) = p
  BY DEF Opposite, Points

\* The threads' part of the type invariant, one step per action.
LEMMA ThreadsStep == TypeOK /\ [Next]_vars => ThreadsOK'
<1> SUFFICES ASSUME ThreadsOK, DataOK, [Next]_vars PROVE ThreadsOK'
  BY DEF TypeOK
<1> USE DEF Threads, Points, Job0, Main, ThreadsOK, Job0Labels, JobLabels, MainLabels
<1>1. CASE create_random_list
  BY <1>1 DEF create_random_list
<1>2. CASE create_thread
  <2> PICK k \in {Job0} \cup Points :
        pc' = [pc EXCEPT ![k] = IF k = Job0 THEN "lock" ELSE "start",
                         ![Main] = IF k = 4 THEN "signal" ELSE "create"]
    BY <1>2 DEF create_thread
  <2> QED
    BY <1>2 DEF create_thread
<1>3. CASE create_thread_fails
  BY <1>3 DEF create_thread_fails
<1>4. CASE SignalFirst
  <2> PICK start : SignalPoint(start)
    BY <1>4 DEF SignalFirst
  <2>1. pc' = [pc EXCEPT ![Main] = "join"]
    BY <1>4 DEF SignalFirst
  <2>2. blocked' \subseteq {Job0} \cup Points /\ lost' \subseteq {Job0} \cup Points
    BY DEF SignalPoint, Signal
  <2> QED
    BY <2>1, <2>2
<1>5. CASE Join
  BY <1>5 DEF Join
<1>6. CASE Job0Start
  BY <1>6 DEF Job0Start, Block
<1>7. CASE print_progress
  BY <1>7 DEF print_progress
<1>8. CASE OverflowWaiting
  BY <1>8 DEF OverflowWaiting
<1>9. CASE Dispatch
  <2>1. \/ pc' = [pc EXCEPT ![Job0] = "done"]
        \/ pc' = [pc EXCEPT ![Job0] = "end"]
        \/ pc' = [pc EXCEPT ![Job0] = "mid"]
    BY <1>9, DispatchCases
  <2>2. blocked' \subseteq {Job0} \cup Points /\ lost' \subseteq {Job0} \cup Points
    BY ZenonT(30), <1>9, DispatchCases, OppositePoint DEF SignalPoint, Signal
  <2> QED
    BY <2>1, <2>2
<1>10. CASE Job0Block
  BY <1>10 DEF Job0Block, Block
<1>11. CASE LeaveFirst
  BY SMTT(30), <1>11 DEF LeaveFirst, Signal, DataOK
<1>12. ASSUME NEW k \in Points, JobStart(k) PROVE ThreadsOK'
  <2>1. \/ pc' = [pc EXCEPT ![k] = "done"] /\ UNCHANGED <<blocked, lost>>
        \/ Block(k, "wait")
    BY <1>12 DEF JobStart
  <2>2. CASE pc' = [pc EXCEPT ![k] = "done"] /\ UNCHANGED <<blocked, lost>>
    BY <2>2
  <2>3. CASE Block(k, "wait")
    BY <2>3 DEF Block
  <2> QED
    BY <2>1, <2>2, <2>3
<1>13. ASSUME NEW k \in Points, Job(k) PROVE ThreadsOK'
  <2>1. pc' = [pc EXCEPT ![k] = "done"] \/ pc' = [pc EXCEPT ![k] = "block"]
    BY <1>13 DEF Job, Report
  <2>2. blocked' \subseteq {Job0} \cup Points /\ lost' \subseteq {Job0} \cup Points
    BY <1>13 DEF Job, Report, Signal
  <2> QED
    BY <2>1, <2>2
<1>14. ASSUME NEW k \in Points, JobBlock(k) PROVE ThreadsOK'
  BY <1>14 DEF JobBlock, Block
<1>15. CASE UNCHANGED vars
  BY <1>15 DEF vars
<1> QED
  BY <1>1, <1>2, <1>3, <1>4, <1>5, <1>6, <1>7, <1>8, <1>9, <1>10, <1>11,
     <1>12, <1>13, <1>14, <1>15
     DEF Next, MainNext, Job0Next, JobNext

\* What Dispatch does to the waiting list keeps it a list of numbers.
LEMMA DispatchData ==
    ASSUME DataOK, Dispatch
    PROVE  /\ waiting_list' \in [0..(WaitSize - 1) -> Int]
           /\ waiting_index' \in Nat
<1>1. PICK start \in ReadStart(list_index) :
        /\ waiting_index' = IF start > 0 THEN waiting_index + 1 ELSE waiting_index
        /\ \E picked : waiting_list' \in
             {Joined(start),
              [i \in DOMAIN Joined(start) |-> IF i \in picked THEN 0 ELSE Joined(start)[i]]}
  BY Zenon DEF Dispatch, PutBack
<1>2. ReadStart(list_index) \subseteq Int
  <2>1. CASE list_index < ListSize
    <3>1. list_index \in 0..(ListSize - 1)
      BY <2>1, SizeAssumption DEF DataOK
    <3>2. start_point_list[list_index] \in Int
      BY SMTT(30), <3>1 DEF DataOK, Points
    <3> QED
      BY <2>1, <3>2 DEF ReadStart
  <2>2. CASE ~(list_index < ListSize)
    BY <2>2, GarbageAssumption DEF ReadStart
  <2> QED
    BY <2>1, <2>2
<1>3. Joined(start) \in [0..(WaitSize - 1) -> Int]
  BY <1>1, <1>2 DEF Joined, DataOK
<1> QED
  BY <1>1, <1>3 DEF DataOK

\* The data's part of the type invariant, one step per action.
LEMMA DataStep == TypeOK /\ [Next]_vars => DataOK'
<1> SUFFICES ASSUME ThreadsOK, DataOK, [Next]_vars PROVE DataOK'
  BY DEF TypeOK
<1> USE DEF DataOK
<1>1. CASE create_random_list
  <2>1. /\ start_point_list' \in [0..(ListSize - 1) -> {0} \cup Points]
        /\ pCount' \in [Points -> Nat]
    BY <1>1, DrawnList, SizeAssumption DEF TypeOK
  <2> QED
    BY <1>1, <2>1 DEF create_random_list
<1>2. CASE create_thread
  BY <1>2 DEF create_thread, shared
<1>3. CASE create_thread_fails
  BY <1>3 DEF create_thread_fails, shared
<1>4. CASE SignalFirst
  BY <1>4 DEF SignalFirst
<1>5. CASE Join
  BY <1>5 DEF Join, shared
<1>6. CASE Job0Start
  BY <1>6 DEF Job0Start, shared
<1>7. CASE print_progress
  BY <1>7 DEF print_progress
<1>8. CASE OverflowWaiting
  BY <1>8 DEF OverflowWaiting, shared
<1>9. CASE Dispatch
  <2>1. RestoredWhere \in {0} \cup Points
    BY DEF RestoredWhere
  <2>2. lane' \in {0} \cup Points
    BY <1>9, <2>1, DispatchCases
  <2>3. /\ list_index' = list_index + 1
        /\ passed_list' = <<>>
        /\ where' = RestoredWhere
        /\ temp' = FALSE
        /\ UNCHANGED <<start_point_list, pCount, count, process, finish, tick, where_temp>>
    BY <1>9 DEF Dispatch
  <2>4. waiting_list' \in [0..(WaitSize - 1) -> Int] /\ waiting_index' \in Nat
    BY <1>9, DispatchData
  <2>5. passed_list' \in Seq(Points)
    BY <2>3
  <2>6. list_index' \in Nat
    BY <2>3
  <2> QED
    BY <2>1, <2>2, <2>3, <2>4, <2>5, <2>6
<1>10. CASE Job0Block
  BY <1>10 DEF Job0Block, shared
<1>11. CASE LeaveFirst
  BY <1>11 DEF LeaveFirst
<1>12. ASSUME NEW k \in Points, JobStart(k) PROVE DataOK'
  <2>1. finish' \in [Points -> BOOLEAN]
    BY <1>12 DEF JobStart
  <2> QED
    BY <1>12, <2>1 DEF JobStart
<1>13. ASSUME NEW k \in Points, Job(k) PROVE DataOK'
  <2>1. finish' \in [Points -> BOOLEAN]
    BY <1>13 DEF Job, Report
  <2>2. /\ process' \in [Points -> {0, 1}]
        /\ where' \in {0} \cup Points
        /\ count' \in [Points -> Nat]
    <3>1. Move(k)
      BY <1>13 DEF Job
    <3>2. CASE process[k] = 0
      BY <3>1, <3>2 DEF Move
    <3>3. CASE process[k] # 0
      <4>1. /\ process' = [process EXCEPT ![k] = 0]
            /\ where' = 0
            /\ count' = [count EXCEPT ![k] = @ + 1]
        BY <3>1, <3>3 DEF Move
      <4> QED
        BY <4>1
    <3> QED
      BY <3>2, <3>3
  <2>3. passed_list' \in Seq(Points)
    <3>1. passed_list' = passed_list \/ passed_list' = Append(passed_list, k)
      BY <1>13 DEF Job, Move
    <3>2. Append(passed_list, k) \in Seq(Points)
      OBVIOUS
    <3> QED
      BY <3>1, <3>2
  <2> QED
    BY <1>13, <2>1, <2>2, <2>3 DEF Job
<1>14. ASSUME NEW k \in Points, JobBlock(k) PROVE DataOK'
  BY <1>14 DEF JobBlock, shared
<1>15. CASE UNCHANGED vars
  BY <1>15 DEF vars, shared
<1> QED
  BY <1>1, <1>2, <1>3, <1>4, <1>5, <1>6, <1>7, <1>8, <1>9, <1>10, <1>11,
     <1>12, <1>13, <1>14, <1>15
     DEF Next, MainNext, Job0Next, JobNext

LEMMA TypeInit == Init => TypeOK
<1> SUFFICES ASSUME Init PROVE TypeOK
  OBVIOUS
<1>1. ThreadsOK
  BY DEF Init, ThreadsOK, Threads, Points, Job0, Main, Job0Labels, JobLabels, MainLabels
<1>2. passed_list \in Seq(Points)
  BY DEF Init
<1>3. /\ start_point_list \in [0..(ListSize - 1) -> {0} \cup Points]
      /\ waiting_list \in [0..(WaitSize - 1) -> Int]
      /\ process \in [Points -> {0, 1}]
  BY DEF Init
<1>4. /\ pCount \in [Points -> Nat]
      /\ count \in [Points -> Nat]
      /\ finish \in [Points -> BOOLEAN]
  BY DEF Init
<1>5. DataOK
  BY <1>2, <1>3, <1>4 DEF Init, DataOK
<1> QED
  BY <1>1, <1>5 DEF TypeOK

\* Every variable of program.c keeps its range, whatever the sizes of the arrays
\* and whatever is read past the end of start_point_list.
THEOREM TypeCorrect == Spec => []TypeOK
<1>1. TypeOK /\ [Next]_vars => TypeOK'
  BY ThreadsStep, DataStep DEF TypeOK
<1> QED
  BY <1>1, TypeInit, PTL DEF Spec

\* Each action hands the crossing on as the invariant says.
LEMMA BatonStep == IInv /\ [Next]_vars => IInv'
<1> SUFFICES ASSUME IInv, [Next]_vars PROVE IInv'
  OBVIOUS
<1>0. TypeOK'
  BY ThreadsStep, DataStep DEF IInv, TypeOK
<1> USE DEF IInv, TypeOK
<1>1. CASE create_random_list
  <2>1. OneBaton'
    BY <1>1 DEF create_random_list, OneBaton, Running, Woken, ThreadsOK, Threads, Points, Job0, Main, Job0Labels, JobLabels, MainLabels
  <2>2. RoadSafe'
    BY <1>1 DEF create_random_list, RoadSafe, Inside
  <2>3. BlockedWait'
    BY <1>1 DEF create_random_list, BlockedWait, ThreadsOK, Threads, Points, Job0, Main
  <2>4. Startup'
    BY <1>1 DEF create_random_list, Startup, ThreadsOK, Threads, Points, Job0, Main
  <2>5. DispatcherTurn'
    BY <1>1 DEF create_random_list, DispatcherTurn, Woken, Inside, RestoredWhere, ThreadsOK, Threads, Points, Job0, Main
  <2>6. VehicleTurn'
    BY <1>1 DEF create_random_list, VehicleTurn, Woken, Inside, ThreadsOK, Threads, Points, Job0, Main
  <2>7. VehiclesLeft'
    BY <1>1 DEF create_random_list, VehiclesLeft, ThreadsOK, Threads, Points, Job0, Main
  <2> QED
    BY <1>0, <2>1, <2>2, <2>3, <2>4, <2>5, <2>6, <2>7
<1>2. CASE create_thread
  <2>1. PICK k \in {Job0} \cup Points :
          /\ pc[k] = "unborn"
          /\ pc' = [pc EXCEPT ![k] = IF k = Job0 THEN "lock" ELSE "start",
                              ![Main] = IF k = 4 THEN "signal" ELSE "create"]
    BY <1>2 DEF create_thread
  <2>2. pc[Main] = "create" /\ UNCHANGED <<blocked, lost, shared>>
    BY <1>2 DEF create_thread
  <2>3. /\ pc'[k] \in {"lock", "start"}
        /\ k = Job0 => pc'[k] = "lock"
        /\ pc'[Main] \in {"create", "signal"}
        /\ \A t \in Threads \ {k, Main} : pc'[t] = pc[t]
    BY <2>1 DEF ThreadsOK, Threads, Points, Job0, Main
  <2>4. \A t \in Threads : Running(t)' => Running(t)
    BY <2>1, <2>2, <2>3 DEF Running, Woken, Threads, Points, Job0, Main
  <2>5. OneBaton'
    BY <2>4 DEF OneBaton
  <2>6. RoadSafe'
    BY <2>2 DEF RoadSafe, Inside, shared
  <2>7. BlockedWait'
    BY <2>1, <2>2, <2>3 DEF BlockedWait, ThreadsOK, Threads, Points, Job0, Main
  <2>8. Startup'
    <3>1. pc'[Job0] \in {"unborn", "lock", "initwait"}
      BY <2>2, <2>3 DEF Startup, Threads, Points, Job0, Main
    <3> QED
      BY <2>2, <3>1 DEF Startup, shared
  <2>9. \A t \in {Job0} \cup Points : ~Running(t)
    BY <2>2 DEF OneBaton, Running, Threads, Points, Job0, Main
  <2>10. DispatcherTurn' /\ VehicleTurn'
    BY <2>4, <2>9 DEF DispatcherTurn, VehicleTurn, Running, Threads, Points, Job0
  <2>11. VehiclesLeft'
    <3>1. \A j \in Points : /\ pc'[j] \in {"wait", "block"} => pc[j] \in {"wait", "block"}
                            /\ pc'[j] \in {"unborn", "start"} => pc[j] \in {"unborn", "start"}
      <4> TAKE j \in Points
      <4>1. CASE j = k
        BY <2>1, <2>3, <4>1
      <4>2. CASE j # k
        BY <2>3, <4>2 DEF Threads, Points, Main
      <4> QED
        BY <4>1, <4>2
    <3> QED
      BY <2>2, <2>3, <3>1 DEF VehiclesLeft, shared
  <2> QED
    BY <1>0, <2>5, <2>6, <2>7, <2>8, <2>10, <2>11
<1>3. CASE create_thread_fails
  <2>1. OneBaton'
    BY <1>3 DEF create_thread_fails, shared, OneBaton, Running, Woken, ThreadsOK, Threads, Points, Job0, Main, Job0Labels, JobLabels, MainLabels
  <2>2. RoadSafe'
    BY <1>3 DEF create_thread_fails, shared, RoadSafe, Inside
  <2>3. BlockedWait'
    BY <1>3 DEF create_thread_fails, shared, BlockedWait, ThreadsOK, Threads, Points, Job0, Main
  <2>4. Startup'
    BY <1>3 DEF create_thread_fails, shared, Startup, ThreadsOK, Threads, Points, Job0, Main
  <2>5. DispatcherTurn'
    BY <1>3 DEF create_thread_fails, shared, DispatcherTurn, Woken, Inside, RestoredWhere, ThreadsOK, Threads, Points, Job0, Main
  <2>6. VehicleTurn'
    BY <1>3 DEF create_thread_fails, shared, VehicleTurn, Woken, Inside, ThreadsOK, Threads, Points, Job0, Main
  <2>7. VehiclesLeft'
    BY <1>3 DEF create_thread_fails, shared, VehiclesLeft, ThreadsOK, Threads, Points, Job0, Main
  <2> QED
    BY <1>0, <2>1, <2>2, <2>3, <2>4, <2>5, <2>6, <2>7
<1>4. CASE SignalFirst
  <2>1. PICK start : SignalPoint(start)
    BY <1>4 DEF SignalFirst
  <2>2. /\ pc[Main] = "signal"
        /\ pc' = [pc EXCEPT ![Main] = "join"]
        /\ UNCHANGED <<pCount, count, process, where, where_temp, temp, lane>>
    BY <1>4 DEF SignalFirst
  <2>3. /\ pc'[Main] = "join"
        /\ \A t \in {Job0} \cup Points : pc'[t] = pc[t]
    BY <2>2 DEF ThreadsOK, Threads, Points, Job0, Main
  <2>4. \/ blocked' = blocked
        \/ start \in Points /\ blocked' = blocked \ {start}
    BY <2>1 DEF SignalPoint, Signal
  <2>5. \A t \in {Job0} \cup Points : ~Running(t)
    BY <2>2 DEF OneBaton, Running, Threads, Points, Job0, Main
  <2>6. ~Running(Main)'
    BY <2>3 DEF Running, Woken
  <2>7. \A t \in {Job0} \cup Points : Running(t)' => t = start /\ start \in Points
    BY <2>3, <2>4, <2>5 DEF Running, Woken
  <2>8. OneBaton'
    BY <2>6, <2>7 DEF OneBaton, Threads, Points, Job0, Main
  <2>9. RoadSafe'
    BY <2>2 DEF RoadSafe, Inside
  <2>10. BlockedWait'
    BY <2>3, <2>4 DEF BlockedWait, ThreadsOK
  <2>11. Startup'
    BY <2>3 DEF Startup
  <2>12. DispatcherTurn'
    BY <2>7 DEF DispatcherTurn, Running, Points, Job0
  <2>13. VehicleTurn'
    <3>1. Inside' = {} /\ where' = 0 /\ temp' = FALSE
      BY <2>2 DEF Startup, Inside, Points
    <3>2. pc'[Job0] \notin {"mid", "midwait"}
      BY <2>2, <2>3 DEF Startup
    <3> QED
      BY <3>1, <3>2 DEF VehicleTurn
  <2>14. VehiclesLeft'
    BY <2>2, <2>3 DEF VehiclesLeft
  <2> QED
    BY <1>0, <2>8, <2>9, <2>10, <2>11, <2>12, <2>13, <2>14
<1>5. CASE Join
  <2>1. OneBaton'
    BY <1>5 DEF Join, shared, OneBaton, Running, Woken, ThreadsOK, Threads, Points, Job0, Main, Job0Labels, JobLabels, MainLabels
  <2>2. RoadSafe'
    BY <1>5 DEF Join, shared, RoadSafe, Inside
  <2>3. BlockedWait'
    BY <1>5 DEF Join, shared, BlockedWait, ThreadsOK, Threads, Points, Job0, Main
  <2>4. Startup'
    BY <1>5 DEF Join, shared, Startup, ThreadsOK, Threads, Points, Job0, Main
  <2>5. DispatcherTurn'
    BY <1>5 DEF Join, shared, DispatcherTurn, Woken, Inside, RestoredWhere, ThreadsOK, Threads, Points, Job0, Main
  <2>6. VehicleTurn'
    BY <1>5 DEF Join, shared, VehicleTurn, Woken, Inside, ThreadsOK, Threads, Points, Job0, Main
  <2>7. VehiclesLeft'
    BY <1>5 DEF Join, shared, VehiclesLeft, ThreadsOK, Threads, Points, Job0, Main
  <2> QED
    BY <1>0, <2>1, <2>2, <2>3, <2>4, <2>5, <2>6, <2>7
<1>6. CASE Job0Start
  <2>1. OneBaton'
    BY <1>6 DEF Job0Start, Block, shared, OneBaton, Running, Woken, ThreadsOK, Threads, Points, Job0, Main, Job0Labels, JobLabels, MainLabels
  <2>2. RoadSafe'
    BY <1>6 DEF Job0Start, Block, shared, RoadSafe, Inside
  <2>3. BlockedWait'
    BY <1>6 DEF Job0Start, Block, shared, BlockedWait, ThreadsOK, Threads, Points, Job0, Main
  <2>4. Startup'
    BY <1>6 DEF Job0Start, Block, shared, Startup, ThreadsOK, Threads, Points, Job0, Main
  <2>5. DispatcherTurn'
    BY <1>6 DEF Job0Start, Block, shared, DispatcherTurn, Woken, Inside, RestoredWhere, ThreadsOK, Threads, Points, Job0, Main
  <2>6. VehicleTurn'
    BY <1>6 DEF Job0Start, Block, shared, VehicleTurn, Woken, Inside, ThreadsOK, Threads, Points, Job0, Main
  <2>7. VehiclesLeft'
    BY <1>6 DEF Job0Start, Block, shared, VehiclesLeft, ThreadsOK, Threads, Points, Job0, Main
  <2> QED
    BY <1>0, <2>1, <2>2, <2>3, <2>4, <2>5, <2>6, <2>7
<1>7. CASE print_progress
  <2>1. OneBaton'
    BY <1>7 DEF print_progress, OneBaton, Running, Woken, ThreadsOK, Threads, Points, Job0, Main, Job0Labels, JobLabels, MainLabels
  <2>2. RoadSafe'
    BY <1>7 DEF print_progress, RoadSafe, Inside
  <2>3. BlockedWait'
    BY <1>7 DEF print_progress, BlockedWait, ThreadsOK, Threads, Points, Job0, Main
  <2>4. Startup'
    BY <1>7 DEF print_progress, Startup, OneBaton, Running, Woken, ThreadsOK, Threads, Points, Job0, Main
  <2>5. DispatcherTurn'
    BY <1>7 DEF print_progress, DispatcherTurn, Woken, Inside, RestoredWhere, ThreadsOK, Threads, Points, Job0, Main
  <2>6. VehicleTurn'
    BY <1>7 DEF print_progress, VehicleTurn, Woken, Inside, ThreadsOK, Threads, Points, Job0, Main
  <2>7. VehiclesLeft'
    BY <1>7 DEF print_progress, VehiclesLeft, ThreadsOK, Threads, Points, Job0, Main
  <2> QED
    BY <1>0, <2>1, <2>2, <2>3, <2>4, <2>5, <2>6, <2>7
<1>8. CASE OverflowWaiting
  <2>1. OneBaton'
    BY <1>8 DEF OverflowWaiting, shared, OneBaton, Running, Woken, ThreadsOK, Threads, Points, Job0, Main, Job0Labels, JobLabels, MainLabels
  <2>2. RoadSafe'
    BY <1>8 DEF OverflowWaiting, shared, RoadSafe, Inside
  <2>3. BlockedWait'
    BY <1>8 DEF OverflowWaiting, shared, BlockedWait, ThreadsOK, Threads, Points, Job0, Main
  <2>4. Startup'
    BY <1>8 DEF OverflowWaiting, shared, Startup, ThreadsOK, Threads, Points, Job0, Main
  <2>5. DispatcherTurn'
    BY <1>8 DEF OverflowWaiting, shared, DispatcherTurn, Woken, Inside, RestoredWhere, ThreadsOK, Threads, Points, Job0, Main
  <2>6. VehicleTurn'
    BY <1>8 DEF OverflowWaiting, shared, VehicleTurn, Woken, Inside, ThreadsOK, Threads, Points, Job0, Main
  <2>7. VehiclesLeft'
    BY <1>8 DEF OverflowWaiting, shared, VehiclesLeft, ThreadsOK, Threads, Points, Job0, Main
  <2> QED
    BY <1>0, <2>1, <2>2, <2>3, <2>4, <2>5, <2>6, <2>7
<1>9. CASE Dispatch
  <2>1. /\ pc[Job0] = "sleep"
        /\ where' = RestoredWhere
        /\ temp' = FALSE
        /\ UNCHANGED <<process, pCount, count>>
    BY <1>9 DEF Dispatch
  <2>2. /\ pc' \in {[pc EXCEPT ![Job0] = "done"], [pc EXCEPT ![Job0] = "end"],
                    [pc EXCEPT ![Job0] = "mid"]}
        /\ blocked' \subseteq blocked
    BY <1>9, DispatchCases DEF SignalPoint, Signal
  <2>3. /\ \A t \in Threads \ {Job0} : pc'[t] = pc[t]
        /\ pc'[Job0] \in {"done", "end", "mid"}
    BY <2>2 DEF ThreadsOK, Threads, Job0
  <2>4. \A t \in Threads : Running(t) => t = Job0
    BY <2>1 DEF OneBaton, Running, Threads, Job0
  <2>5. \A k \in Points : Woken(k)' => k \in blocked \ blocked'
    BY <2>2, <2>3, <2>4 DEF Woken, Running, Threads, Points, Job0
  <2>6. /\ pc'[Main] \notin {"list", "create", "signal"}
        /\ ~Running(Job0)' /\ ~Running(Main)'
        /\ Main \notin blocked'
    BY <2>2, <2>3, <2>4 DEF Running, Woken, Threads, Job0, Main, Points, ThreadsOK, MainLabels
  <2>7. \A k \in Points : Running(k)' => Woken(k)'
    BY <2>3 DEF Running, Points, Threads, Job0, ThreadsOK, JobLabels
  <2>8. Inside' = Inside /\ Inside = {RestoredWhere} \cap Points
    BY <2>1 DEF Inside, DispatcherTurn
  <2>9. \A j, k \in Points : Woken(j)' /\ Woken(k)' => j = k
    BY <1>9, <2>5, DispatchCases DEF SignalPoint, Signal
  <2>10. OneBaton'
    BY <2>6, <2>7, <2>9 DEF OneBaton, Threads, Points, Job0, Main
  <2>11. RoadSafe'
    BY <2>8 DEF RoadSafe
  <2>12. BlockedWait'
    BY <2>1, <2>2, <2>3 DEF BlockedWait, ThreadsOK, Threads, Points, Job0
  <2>13. Startup'
    BY <2>6 DEF Startup
  <2>14. DispatcherTurn'
    BY <2>3, <2>6 DEF DispatcherTurn, Running, Woken
  <2>15. VehicleTurn'
    <3> SUFFICES ASSUME NEW k \in Points, Woken(k)'
                 PROVE  IF pc'[Job0] \in {"mid", "midwait"}
                        THEN /\ lane' \in Points
                             /\ k = Opposite(lane')
                             /\ Inside' = {lane'}
                             /\ where' = lane'
                        ELSE (Inside' = {} /\ where' = 0) \/ (Inside' = {k} /\ where' = k)
      BY <2>1 DEF VehicleTurn
    <3>1. k \in blocked \ blocked'
      BY <2>5
    <3>2. CASE UNCHANGED blocked
      BY <3>1, <3>2
    <3>3. CASE RestoredWhere = 0 /\ pc' = [pc EXCEPT ![Job0] = "end"]
      <4>1. pc'[Job0] = "end"
        BY <3>3 DEF ThreadsOK, Threads, Job0
      <4>2. Inside' = {} /\ where' = 0
        BY <2>1, <2>8, <3>3 DEF Points
      <4> QED
        BY <4>1, <4>2
    <3>4. CASE /\ RestoredWhere \in Points
               /\ Signal(Opposite(RestoredWhere))
               /\ lane' = RestoredWhere
               /\ pc' = [pc EXCEPT ![Job0] = "mid"]
      BY <2>1, <2>8, <3>1, <3>4 DEF Signal, ThreadsOK, Threads, Job0
    <3>5. CASE /\ RestoredWhere \in Points
               /\ Signal(RestoredWhere)
               /\ pc' = [pc EXCEPT ![Job0] = "end"]
      BY <2>1, <2>8, <3>1, <3>5 DEF Signal, ThreadsOK, Threads, Job0
    <3> QED
      BY <1>9, <3>2, <3>3, <3>4, <3>5, DispatchCases
  <2>16. VehiclesLeft'
    BY <2>1, <2>3, <2>6 DEF VehiclesLeft, Threads, Points, Job0
  <2> QED
    BY <1>0, <2>10, <2>11, <2>12, <2>13, <2>14, <2>15, <2>16
<1>10. CASE Job0Block
  <2>1. OneBaton'
    BY <1>10 DEF Job0Block, Block, shared, OneBaton, Running, Woken, ThreadsOK, Threads, Points, Job0, Main, Job0Labels, JobLabels, MainLabels
  <2>2. RoadSafe'
    BY <1>10 DEF Job0Block, Block, shared, RoadSafe, Inside
  <2>3. BlockedWait'
    BY <1>10 DEF Job0Block, Block, shared, BlockedWait, ThreadsOK, Threads, Points, Job0, Main
  <2>4. Startup'
    BY <1>10 DEF Job0Block, Block, shared, Startup, ThreadsOK, Threads, Points, Job0, Main
  <2>5. DispatcherTurn'
    BY <1>10 DEF Job0Block, Block, shared, DispatcherTurn, Woken, Inside, RestoredWhere, ThreadsOK, Threads, Points, Job0, Main
  <2>6. VehicleTurn'
    BY <1>10 DEF Job0Block, Block, shared, VehicleTurn, Woken, Inside, ThreadsOK, Threads, Points, Job0, Main
  <2>7. VehiclesLeft'
    BY <1>10 DEF Job0Block, Block, shared, VehiclesLeft, ThreadsOK, Threads, Points, Job0, Main
  <2> QED
    BY <1>0, <2>1, <2>2, <2>3, <2>4, <2>5, <2>6, <2>7
<1>11. CASE LeaveFirst
  <2>1. /\ pc[Job0] = "midwait" /\ Job0 \notin blocked
        /\ where_temp' = where /\ temp' = TRUE
        /\ Signal(lane)
        /\ pc' = [pc EXCEPT ![Job0] = "end"]
        /\ UNCHANGED <<pCount, count, process, where, lane>>
    BY <1>11 DEF LeaveFirst
  <2>2. /\ pc'[Job0] = "end"
        /\ \A t \in Threads \ {Job0} : pc'[t] = pc[t]
    BY <2>1 DEF ThreadsOK, Threads, Job0
  <2>3. Woken(Job0)
    BY <2>1 DEF Woken
  <2>4. lane \in Points /\ where = Opposite(lane) /\ Inside = {lane, Opposite(lane)}
    BY <2>1, <2>3 DEF DispatcherTurn
  <2>5. \A t \in Threads \ {Job0} : ~Running(t)
    BY <2>3 DEF OneBaton, Running, Threads, Job0
  <2>6. \A t \in Threads : Running(t)' => t = lane
    BY <2>1, <2>2, <2>5 DEF Running, Woken, Signal, Threads, Job0
  <2>7. OneBaton'
    BY <2>6 DEF OneBaton
  <2>8. Inside' = Inside
    BY <2>1 DEF Inside
  <2>9. RoadSafe'
    BY <2>8 DEF RoadSafe
  <2>10. BlockedWait'
    BY <2>1, <2>2 DEF BlockedWait, Signal, ThreadsOK, Threads, Points, Job0
  <2>11. Startup'
    BY <2>2, <2>5 DEF Startup, Running, Threads, Job0, Main
  <2>12. DispatcherTurn'
    BY <2>2 DEF DispatcherTurn, Woken
  <2>13. VehicleTurn'
    BY <2>1, <2>2, <2>4, <2>6, <2>8 DEF VehicleTurn, Running, Threads, Points
  <2>14. VehiclesLeft'
    BY <2>1, <2>2 DEF VehiclesLeft, Threads, Points, Job0, Main
  <2> QED
    BY <1>0, <2>7, <2>9, <2>10, <2>11, <2>12, <2>13, <2>14
<1>12. ASSUME NEW k \in Points, JobStart(k) PROVE IInv'
  <2>1. OneBaton'
    BY <1>12 DEF JobStart, Block, OneBaton, Running, Woken, ThreadsOK, Threads, Points, Job0, Main, Job0Labels, JobLabels, MainLabels
  <2>2. RoadSafe'
    BY <1>12 DEF JobStart, Block, RoadSafe, Inside
  <2>3. BlockedWait'
    <3>1. CASE pc' = [pc EXCEPT ![k] = "done"] /\ UNCHANGED blocked
      BY <1>12, <3>1 DEF JobStart, BlockedWait, ThreadsOK, Threads, Points, Job0
    <3>2. CASE Block(k, "wait")
      BY <3>2 DEF Block, BlockedWait, ThreadsOK, Threads, Points, Job0
    <3> QED
      BY <1>12, <3>1, <3>2 DEF JobStart
  <2>4. Startup'
    BY <1>12 DEF JobStart, Block, Startup, ThreadsOK, Threads, Points, Job0, Main
  <2>5. DispatcherTurn'
    BY <1>12 DEF JobStart, Block, DispatcherTurn, Woken, Inside, RestoredWhere, ThreadsOK, Threads, Points, Job0, Main
  <2>6. VehicleTurn'
    BY <1>12 DEF JobStart, Block, VehicleTurn, Woken, Inside, ThreadsOK, Threads, Points, Job0, Main
  <2>7. VehiclesLeft'
    <3>1. count[k] = 0 /\ pc[k] = "start"
      BY <1>12 DEF JobStart, VehiclesLeft
    <3>2. \A j \in Threads \ {k} : pc'[j] = pc[j]
      BY <1>12 DEF JobStart, Block, ThreadsOK, Threads, Points
    <3>3. pc'[k] \in {"done", "wait"} /\ (pc'[k] = "wait" => pCount[k] # 0)
      BY <1>12 DEF JobStart, Block, ThreadsOK, Threads, Points
    <3>4. UNCHANGED <<pCount, count, process>>
      BY <1>12 DEF JobStart
    <3>5. pc'[k] = "wait" => count[k] < pCount[k]
      BY <3>1, <3>3 DEF DataOK
    <3>6. pc'[Main] = pc[Main] /\ k # Main
      BY <3>2 DEF Threads, Points, Main
    <3> QED
      BY <3>1, <3>2, <3>3, <3>4, <3>5, <3>6 DEF VehiclesLeft, Threads, Points
  <2> QED
    BY <1>0, <2>1, <2>2, <2>3, <2>4, <2>5, <2>6, <2>7
<1>13. ASSUME NEW k \in Points, Job(k) PROVE IInv'
  <2>1. /\ k \notin blocked /\ pc[k] = "wait"
        /\ Move(k) /\ Report(k)
        /\ UNCHANGED <<pCount, where_temp, temp, lane>>
    BY <1>13 DEF Job
  <2>2. /\ pc' \in {[pc EXCEPT ![k] = "done"], [pc EXCEPT ![k] = "block"]}
        /\ blocked' = blocked \ {Job0}
    BY <2>1 DEF Report, Signal
  <2>3. /\ \A t \in Threads \ {k} : pc'[t] = pc[t]
        /\ pc'[k] \in {"done", "block"}
    BY <2>2 DEF ThreadsOK, Threads, Points
  <2>4. Woken(k)
    BY <2>1 DEF Woken
  <2>5. \A t \in Threads : Running(t) => t = k
    BY <2>4 DEF OneBaton, Running, Threads, Points
  <2>6. \A t \in Threads \ {Job0} : ~Running(t)'
    BY <2>2, <2>3, <2>5 DEF Running, Woken, Threads, Points
  <2>7. Running(Job0)' => Job0 \in blocked /\ Woken(Job0)'
    BY <2>2, <2>3, <2>5 DEF Running, Woken, Threads, Points, Job0
  <2>8. pc'[Job0] = pc[Job0] /\ pc'[Main] = pc[Main]
    BY <2>3 DEF Threads, Points, Job0, Main
  <2>9. pc[Main] \notin {"list", "create", "signal"}
    BY <2>5 DEF Running, Threads, Points, Main
  <2>10. Inside' = IF process[k] = 0 THEN Inside \cup {k} ELSE Inside \ {k}
    BY <2>1 DEF Inside, Move, DataOK
  <2>11. where' = (IF process[k] = 0 THEN k ELSE 0) /\ (k \in Inside <=> process[k] # 0)
    BY <2>1 DEF Inside, Move, DataOK
  <2>12. OneBaton'
    BY <2>6 DEF OneBaton
  <2>13. RoadSafe'
    BY <2>4, <2>10, <2>11, OppositePoint DEF RoadSafe, VehicleTurn
  <2>14. BlockedWait'
    BY <2>1, <2>2, <2>3 DEF BlockedWait, ThreadsOK, Threads, Points, Job0
  <2>15. Startup'
    BY <2>8, <2>9 DEF Startup
  <2>16. DispatcherTurn'
    <3>1. CASE pc[Job0] = "sleep"
      BY <2>5, <3>1 DEF Running, Threads, Points, Job0
    <3>2. CASE Woken(Job0)' /\ pc[Job0] = "midwait"
      BY <2>1, <2>4, <2>8, <2>10, <2>11, <3>2, OppositePoint DEF DispatcherTurn, VehicleTurn
    <3>3. CASE Woken(Job0)' /\ pc[Job0] # "midwait"
      <4>1. pc[Job0] \notin {"mid", "midwait"}
        BY <2>8, <3>3 DEF Woken
      <4>2. Inside' = {RestoredWhere'} \cap Points
        <5>1. CASE temp = FALSE /\ Inside = {} /\ where = 0
          BY <2>1, <2>10, <2>11, <5>1 DEF RestoredWhere
        <5>2. CASE temp = FALSE /\ Inside = {k} /\ where = k
          BY <2>1, <2>10, <2>11, <5>2 DEF RestoredWhere, Points
        <5>3. CASE temp = TRUE /\ where_temp = Opposite(k) /\ Inside = {k, Opposite(k)}
          BY <2>1, <2>10, <2>11, <5>3, OppositePoint DEF RestoredWhere
        <5> QED
          BY <2>4, <4>1, <5>1, <5>2, <5>3 DEF VehicleTurn
      <4> QED
        BY <2>8, <3>3, <4>2 DEF DispatcherTurn
    <3>4. CASE pc[Job0] # "sleep" /\ ~Woken(Job0)'
      BY <2>8, <3>4 DEF DispatcherTurn
    <3> QED
      BY <3>1, <3>2, <3>3, <3>4
  <2>17. VehicleTurn'
    BY <2>6 DEF VehicleTurn, Running, Threads, Points, Job0
  <2>18. VehiclesLeft'
    <3>1. pc'[k] = "block" => count'[k] < pCount'[k]
      BY SMTT(30), <2>1, <2>3 DEF Report, LastPassed, Move, VehiclesLeft, DataOK, ThreadsOK, Threads, Points
    <3>2. \A j \in Points \ {k} : count'[j] = count[j] /\ process'[j] = process[j]
      BY <2>1 DEF Move, DataOK
    <3> QED
      BY <2>1, <2>3, <2>8, <2>9, <3>1, <3>2 DEF VehiclesLeft, Threads, Points
  <2> QED
    BY <1>0, <2>12, <2>13, <2>14, <2>15, <2>16, <2>17, <2>18
<1>14. ASSUME NEW k \in Points, JobBlock(k) PROVE IInv'
  <2>1. OneBaton'
    BY <1>14 DEF JobBlock, Block, shared, OneBaton, Running, Woken, ThreadsOK, Threads, Points, Job0, Main, Job0Labels, JobLabels, MainLabels
  <2>2. RoadSafe'
    BY <1>14 DEF JobBlock, Block, shared, RoadSafe, Inside
  <2>3. BlockedWait'
    BY <1>14 DEF JobBlock, Block, shared, BlockedWait, ThreadsOK, Threads, Points, Job0, Main
  <2>4. Startup'
    BY <1>14 DEF JobBlock, Block, shared, Startup, ThreadsOK, Threads, Points, Job0, Main
  <2>5. DispatcherTurn'
    BY <1>14 DEF JobBlock, Block, shared, DispatcherTurn, Woken, Inside, RestoredWhere, ThreadsOK, Threads, Points, Job0, Main
  <2>6. VehicleTurn'
    BY <1>14 DEF JobBlock, Block, shared, VehicleTurn, Woken, Inside, ThreadsOK, Threads, Points, Job0, Main
  <2>7. VehiclesLeft'
    BY <1>14 DEF JobBlock, Block, shared, VehiclesLeft, ThreadsOK, Threads, Points, Job0, Main
  <2> QED
    BY <1>0, <2>1, <2>2, <2>3, <2>4, <2>5, <2>6, <2>7
<1>15. CASE UNCHANGED vars
  <2>1. OneBaton'
    BY <1>15 DEF vars, shared, OneBaton, Running, Woken, ThreadsOK, Threads, Points, Job0, Main, Job0Labels, JobLabels, MainLabels
  <2>2. RoadSafe'
    BY <1>15 DEF vars, shared, RoadSafe, Inside
  <2>3. BlockedWait'
    BY <1>15 DEF vars, shared, BlockedWait, ThreadsOK, Threads, Points, Job0, Main
  <2>4. Startup'
    BY <1>15 DEF vars, shared, Startup, ThreadsOK, Threads, Points, Job0, Main
  <2>5. DispatcherTurn'
    BY <1>15 DEF vars, shared, DispatcherTurn, Woken, Inside, RestoredWhere, ThreadsOK, Threads, Points, Job0, Main
  <2>6. VehicleTurn'
    BY <1>15 DEF vars, shared, VehicleTurn, Woken, Inside, ThreadsOK, Threads, Points, Job0, Main
  <2>7. VehiclesLeft'
    BY <1>15 DEF vars, shared, VehiclesLeft, ThreadsOK, Threads, Points, Job0, Main
  <2> QED
    BY <1>0, <2>1, <2>2, <2>3, <2>4, <2>5, <2>6, <2>7
<1> QED
  BY <1>1, <1>2, <1>3, <1>4, <1>5, <1>6, <1>7, <1>8, <1>9, <1>10, <1>11, <1>12, <1>13, <1>14, <1>15 DEF Next, MainNext, Job0Next, JobNext

LEMMA BatonInit == Init => IInv
<1> SUFFICES ASSUME Init PROVE IInv
  OBVIOUS
<1>1. TypeOK
  BY TypeInit
<1>2. /\ \A t \in Threads : pc[t] = IF t = Main THEN "list" ELSE "unborn"
      /\ Inside = {} /\ blocked = {}
  BY DEF Init, Inside
<1>3. OneBaton /\ BlockedWait
  BY <1>2 DEF OneBaton, BlockedWait, Running, Woken
<1>4. RoadSafe
  BY <1>2 DEF RoadSafe
<1>5. Startup /\ VehiclesLeft
  BY <1>2 DEF Init, Startup, VehiclesLeft, Threads, Points, Job0, Main
<1>6. DispatcherTurn /\ VehicleTurn
  BY <1>2 DEF DispatcherTurn, VehicleTurn, Woken, Threads, Points, Job0, Main
<1> QED
  BY <1>1, <1>3, <1>4, <1>5, <1>6 DEF IInv

\* program.c:188-377: what each thread relies on when it is woken holds in every
\* interleaving.
THEOREM BatonInvariant == Spec => []IInv
  BY BatonInit, BatonStep, PTL DEF Spec

\* program.c:15-24: although no mutex excludes anybody, at most one thread is in
\* code that touches the shared variables, in every interleaving and with any
\* number of forgotten signals.
THEOREM OneBatonCorrect == Spec => []OneBaton
<1>1. IInv => OneBaton
  BY DEF IInv
<1> QED
  BY <1>1, BatonInvariant, PTL

\* README.md:16-18: the crossing is never used by two crossing roads.
THEOREM RoadSafeCorrect == Spec => []RoadSafe
<1>1. IInv => RoadSafe
  BY DEF IInv
<1> QED
  BY <1>1, BatonInvariant, PTL

\* program.c:199-216: job0 chooses the next vehicle knowing which one is inside.
THEOREM WhereIsRightCorrect == Spec => []WhereIsRight
<1>1. IInv => WhereIsRight
  BY DEF IInv, DispatcherTurn, WhereIsRight
<1> QED
  BY <1>1, BatonInvariant, PTL
-----------------------------------------------------------------------------
(***************************************************************************)
(* The threads implement Crossroad.                                         *)
(***************************************************************************)
Todo == [p \in Points |-> pCount[p] - count[p] - process[p]]

LEMMA RefineInit == Init => X!Init
  BY DEF Init, X!Init, X!Points, Points, Inside

\* A step that moves no vehicle is invisible.
LEMMA RefineStutter ==
    ASSUME UNCHANGED <<pCount, count, process>> PROVE UNCHANGED X!vars
  BY DEF X!vars, Inside

\* Drawing the list is the abstract Draw.
LEMMA RefineDraw == ASSUME IInv, create_random_list PROVE X!Draw
<1>1. /\ pc[Main] = "list"
      /\ UNCHANGED <<count, process>>
  BY DEF create_random_list
<1>2. \A p \in Points : pCount[p] = 0 /\ count[p] = 0 /\ process[p] = 0
  BY <1>1 DEF IInv, VehiclesLeft
<1>3. count = [p \in Points |-> 0] /\ Inside = {}
  BY <1>2 DEF IInv, TypeOK, DataOK, Inside
<1>4. X!Init
  BY <1>2, <1>3 DEF X!Init, X!Points, Points
<1>5. pCount' \in [Points -> 0..ListSize]
  BY DrawnList DEF IInv
<1>6. Todo' = pCount'
  BY <1>1, <1>2, <1>5, SizeAssumption DEF Todo
<1>7. Todo' \in [Points -> 0..ListSize]
  BY <1>5, <1>6
<1>8. Inside' = Inside
  BY <1>1 DEF Inside
<1> QED
  BY <1>1, <1>4, <1>7, <1>8 DEF X!Draw, X!Points, Points, Todo

\* A turn of the thread of k is the entry or the exit of a vehicle of k.
LEMMA RefineJob ==
    ASSUME IInv, NEW k \in Points, Job(k) PROVE X!Enter(k) \/ X!Leave(k)
<1>1. Woken(k) /\ pc[k] = "wait" /\ Move(k) /\ UNCHANGED pCount
  BY DEF Job, Woken
<1>2. count[k] < pCount[k]
  BY <1>1 DEF IInv, VehiclesLeft
<1>3. process[k] \in {0, 1} /\ count \in [Points -> Nat] /\ pCount \in [Points -> Nat]
      /\ process \in [Points -> {0, 1}]
  BY DEF IInv, TypeOK, DataOK
<1>4. CASE process[k] = 0
  <2>1. process' = [process EXCEPT ![k] = 1] /\ count' = count
    BY <1>1, <1>4 DEF Move
  <2>2. k \notin Inside /\ Inside' = Inside \cup {k}
    BY <1>3, <1>4, <2>1 DEF Inside
  <2>3. Inside \subseteq {Opposite(k)}
    BY <1>1, <2>2, OppositePoint DEF IInv, VehicleTurn
  <2>4. Todo[k] > 0 /\ Todo' = [Todo EXCEPT ![k] = @ - 1]
    <3>1. Todo[k] > 0 /\ Todo'[k] = Todo[k] - 1
      BY <1>1, <1>2, <1>3, <1>4, <2>1 DEF Todo
    <3>2. \A p \in Points \ {k} : Todo'[p] = Todo[p]
      BY <1>1, <1>3, <2>1 DEF Todo
    <3>3. Todo' = [p \in Points |-> Todo'[p]] /\ Todo = [p \in Points |-> Todo[p]]
      BY DEF Todo
    <3> QED
      BY <3>1, <3>2, <3>3
  <2>5. Opposite(k) = X!Opposite(k)
    BY DEF Opposite, X!Opposite, Points
  <2> QED
    BY <2>1, <2>2, <2>3, <2>4, <2>5 DEF X!Enter, Todo
<1>5. CASE process[k] = 1
  <2>1. process' = [process EXCEPT ![k] = 0] /\ count' = [count EXCEPT ![k] = @ + 1]
    BY <1>1, <1>5 DEF Move
  <2>2. k \in Inside /\ Inside' = Inside \ {k}
    BY <1>3, <1>5, <2>1 DEF Inside
  <2>3. Todo' = Todo
    BY <1>1, <1>3, <1>5, <2>1 DEF Todo
  <2> QED
    BY <2>1, <2>2, <2>3 DEF X!Leave, Todo
<1> QED
  BY <1>3, <1>4, <1>5

LEMMA RefineStep == IInv /\ [Next]_vars => [X!Next]_X!vars
<1> SUFFICES ASSUME IInv, [Next]_vars PROVE X!Next \/ UNCHANGED X!vars
  OBVIOUS
<1>1. CASE create_random_list
  BY <1>1, RefineDraw DEF X!Next
<1>2. ASSUME NEW k \in Points, Job(k) PROVE X!Next
  BY <1>2, RefineJob DEF X!Next, X!Points, Points
<1>3. CASE /\ ~create_random_list
           /\ \A k \in Points : ~Job(k)
  <2>1. UNCHANGED <<pCount, count, process>>
    <3>1. CASE create_thread \/ create_thread_fails \/ SignalFirst \/ Join
      BY <3>1 DEF create_thread, create_thread_fails, SignalFirst, Join, shared
    <3>2. CASE Job0Start \/ print_progress \/ OverflowWaiting
      BY <3>2 DEF Job0Start, print_progress, OverflowWaiting, shared
    <3>3. CASE Dispatch
      BY <3>3 DEF Dispatch
    <3>4. CASE Job0Block \/ LeaveFirst
      BY <3>4 DEF Job0Block, LeaveFirst, shared
    <3>5. ASSUME NEW k \in Points, JobStart(k) \/ JobBlock(k)
          PROVE  UNCHANGED <<pCount, count, process>>
      BY <3>5 DEF JobStart, JobBlock, shared
    <3>6. CASE UNCHANGED vars
      BY <3>6 DEF vars, shared
    <3> QED
      BY <1>3, <3>1, <3>2, <3>3, <3>4, <3>5, <3>6 DEF Next, MainNext, Job0Next, JobNext
  <2> QED
    BY <2>1, RefineStutter
<1> QED
  BY <1>1, <1>2, <1>3

\* README.md:13-18: seen from outside, the five threads of program.c are the crossing
\* of Crossroad: a vehicle enters only a free lane whose crossing road is empty,
\* and each vehicle of the list passes at most once.
THEOREM CrossroadImplemented == Spec => ImplementsCrossroad
  BY RefineInit, RefineStep, BatonInvariant, PTL DEF Spec, ImplementsCrossroad, X!Spec
-----------------------------------------------------------------------------
(***************************************************************************)
(* No vehicle is lost or invented.                                          *)
(***************************************************************************)
\* Where the vehicles of p are that have not been woken to enter: in waiting_list,
\* and in start_point_list from list_index on.
InLine(w, p) == {i \in DOMAIN w : w[i] = p}
ToCome(l, n, p) == {i \in DOMAIN l : i >= n /\ l[i] = p}

\* The places of waiting_list that have not been used are empty; while job0 reads
\* inside start_point_list only start points get into it.
WaitingOK ==
    /\ \A i \in DOMAIN waiting_list : i >= waiting_index => waiting_list[i] = 0
    /\ list_index <= ListSize => \A i \in DOMAIN waiting_list : waiting_list[i] \in {0} \cup Points

\* Before main's first signal all vehicles are in the list.
NotBegun ==
    /\ pc[Main] \in {"list", "create", "signal"} =>
         list_index = 0 /\ \A i \in DOMAIN waiting_list : waiting_list[i] = 0
    /\ pc[Main] = "list" => \A i \in DOMAIN start_point_list : start_point_list[i] = 0

\* A thread ends, and sets finish, with its last vehicle.
EndsWithLast ==
    /\ \A k \in Points : /\ finish[k] <=> pc[k] = "done"
                         /\ pc[k] = "done" => count[k] = pCount[k] /\ process[k] = 0
    /\ pc[Main] = "done" => \A k \in Points : pc[k] = "done"

\* A forgotten signal can only lose vehicles, a read behind the list only add them.
Accounts ==
    \A p \in Points : /\ lost = {} /\ Alive => Accounted(p) >= pCount[p]
                      /\ list_index <= ListSize => Accounted(p) <= pCount[p]

CountInv == WaitingOK /\ NotBegun /\ EndsWithLast /\ Accounts
Number(w, p) == Cardinality(InLine(w, p))
Left(l, n, p) == Cardinality(ToCome(l, n, p))
One(condition) == IF condition THEN 1 ELSE 0

\* The places of an array are finitely many.
LEMMA PlacesFinite ==
    ASSUME NEW n \in Nat, NEW S, S \subseteq 0..(n - 1)
    PROVE  IsFiniteSet(S) /\ Cardinality(S) \in Nat
<1>1. IsFiniteSet(0..(n - 1))
  BY FS_Interval
<1>2. IsFiniteSet(S)
  BY <1>1, FS_Subset
<1> QED
  BY <1>2, FS_CardinalityType

\* A value written to an empty place adds one to its number and leaves the others.
LEMMA NumberPut ==
    ASSUME NEW n \in Nat, NEW w \in [0..(n - 1) -> Int], NEW u \in [0..(n - 1) -> Int],
           NEW x \in 0..(n - 1), w[x] = 0, \A i \in 0..(n - 1) : i # x => u[i] = w[i],
           NEW p \in Points
    PROVE  /\ Number(w, p) \in Nat
           /\ Number(u, p) = Number(w, p) + One(u[x] = p)
<1>1. IsFiniteSet(InLine(w, p)) /\ Number(w, p) \in Nat
  BY PlacesFinite DEF InLine, Number
<1>2. x \notin InLine(w, p)
  BY DEF InLine, Points
<1>3. CASE u[x] = p
  <2>1. InLine(u, p) = InLine(w, p) \cup {x}
    BY <1>3 DEF InLine
  <2>2. Cardinality(InLine(w, p) \cup {x}) = Cardinality(InLine(w, p)) + 1
    BY <1>1, <1>2, FS_AddElement
  <2> QED
    BY <1>1, <1>3, <2>1, <2>2 DEF Number, One
<1>4. CASE u[x] # p
  <2>1. InLine(u, p) = InLine(w, p)
    BY <1>2, <1>4 DEF InLine
  <2> QED
    BY <1>1, <1>4, <2>1 DEF Number, One
<1> QED
  BY <1>1, <1>3, <1>4

\* The list without its next vehicle.
LEMMA LeftStep ==
    ASSUME NEW n \in Nat, NEW l \in [0..(n - 1) -> {0} \cup Points], NEW k \in Nat, NEW p \in Points
    PROVE  /\ Left(l, k, p) \in Nat /\ Left(l, k + 1, p) \in Nat
           /\ Left(l, k, p) = Left(l, k + 1, p) + One(k < n /\ l[k] = p)
<1>1. /\ IsFiniteSet(ToCome(l, k, p)) /\ Left(l, k, p) \in Nat
      /\ IsFiniteSet(ToCome(l, k + 1, p)) /\ Left(l, k + 1, p) \in Nat
  BY PlacesFinite DEF ToCome, Left
<1>2. k \notin ToCome(l, k + 1, p)
  BY DEF ToCome
<1>3. CASE k < n /\ l[k] = p
  <2>1. ToCome(l, k, p) = ToCome(l, k + 1, p) \cup {k}
    BY <1>3 DEF ToCome
  <2> QED
    BY <1>1, <1>2, <1>3, <2>1, FS_AddElement DEF Left, One
<1>4. CASE ~(k < n /\ l[k] = p)
  <2>1. ToCome(l, k, p) = ToCome(l, k + 1, p)
    BY <1>4 DEF ToCome
  <2> QED
    BY <1>1, <1>4, <2>1 DEF Left, One
<1> QED
  BY <1>1, <1>3, <1>4

\* What a start point's account is made of.
LEMMA AccountParts ==
    ASSUME DataOK, NEW p \in Points
    PROVE  /\ Number(waiting_list, p) \in Nat /\ Left(start_point_list, list_index, p) \in Nat
           /\ One(Entering(p)) \in {0, 1} /\ count[p] \in Nat /\ pCount[p] \in Nat /\ process[p] \in {0, 1}
           /\ Accounted(p) = count[p] + process[p] + One(Entering(p)) + Number(waiting_list, p)
                             + Left(start_point_list, list_index, p)
           /\ Accounted(p) \in Nat
<1>1. Number(waiting_list, p) \in Nat /\ Left(start_point_list, list_index, p) \in Nat
  BY PlacesFinite, SizeAssumption DEF DataOK, InLine, ToCome, Number, Left
<1>2. One(Entering(p)) \in {0, 1} /\ count[p] \in Nat /\ pCount[p] \in Nat /\ process[p] \in {0, 1}
  BY DEF One, DataOK
<1>3. Accounted(p) = count[p] + process[p] + One(Entering(p)) + Number(waiting_list, p)
                     + Left(start_point_list, list_index, p)
  BY DEF Accounted, One, Number, Left, InLine, ToCome
<1> QED
  BY <1>1, <1>2, <1>3

\* The index job0 picks is one place that is not empty, if any.
LEMMA PickedOne ==
    ASSUME NEW w \in [0..(WaitSize - 1) -> Int], NEW at
    PROVE  \/ Picked(w, at) = {}
           \/ \E x \in 0..(WaitSize - 1) : Picked(w, at) = {x} /\ w[x] \in Nat \ {0}
<1>1. \A S : \A x, y \in FirstIndex(w, S) : x = y
  BY SizeAssumption DEF FirstIndex
<1>2. \A S : FirstIndex(w, S) \subseteq {x \in 0..(WaitSize - 1) : w[x] \in S}
  BY DEF FirstIndex
<1>3. CASE at \in Points
  <2>1. {Opposite(at)} \subseteq Nat \ {0}
    BY <1>3, OppositePoint DEF Points
  <2>2. Picked(w, at) \in {FirstIndex(w, {Opposite(at)}), FirstIndex(w, Nat \ {0})}
    BY <1>3 DEF Picked
  <2>3. PICK S : S \subseteq Nat \ {0} /\ Picked(w, at) = FirstIndex(w, S)
    BY <2>1, <2>2
  <2> QED
    BY <1>1, <1>2, <2>3
<1>4. CASE at \notin Points
  <2>1. Picked(w, at) = FirstIndex(w, Nat \ {0})
    BY <1>4 DEF Picked
  <2> QED
    BY <1>1, <1>2, <2>1
<1> QED
  BY <1>3, <1>4
\* The vehicles Dispatch moves: start comes from the list, key leaves the waiting list
\* unless it is put back.
LEMMA DispatchMoves ==
    ASSUME IInv, WaitingOK, Dispatch
    PROVE  \E start \in Int, key \in Nat :
             /\ list_index < ListSize => start = start_point_list[list_index]
             /\ \/ /\ \A p \in Points : finish[p]
                   /\ \A p \in Points : Number(waiting_list', p) + One(key = p)
                                          = Number(waiting_list, p) + One(start = p)
                   /\ UNCHANGED <<blocked, lost>>
                \/ /\ RestoredWhere = 0
                   /\ \A p \in Points : Number(waiting_list', p) + One(key = p)
                                          = Number(waiting_list, p) + One(start = p)
                   /\ SignalPoint(key)
                \/ /\ RestoredWhere \in Points /\ key = Opposite(RestoredWhere)
                   /\ \A p \in Points : Number(waiting_list', p) + One(key = p)
                                          = Number(waiting_list, p) + One(start = p)
                   /\ Signal(key)
                \/ /\ RestoredWhere \in Points
                   /\ \A p \in Points : Number(waiting_list', p)
                                          = Number(waiting_list, p) + One(start = p)
                   /\ Signal(RestoredWhere)
             /\ waiting_index' = IF start > 0 THEN waiting_index + 1 ELSE waiting_index
             /\ \A i \in DOMAIN waiting_list :
                  waiting_list'[i] \in {0, waiting_list[i], IF start > 0 /\ i = waiting_index THEN start ELSE 0}
<1> DEFINE w(s) == Joined(s)
           picked(s) == Picked(w(s), RestoredWhere)
           key(s) == IF picked(s) = {} THEN 0 ELSE w(s)[CHOOSE i \in picked(s) : TRUE]
           taken(s) == [i \in DOMAIN w(s) |-> IF i \in picked(s) THEN 0 ELSE w(s)[i]]
<1>1. PICK s \in ReadStart(list_index) :
        /\ s > 0 => waiting_index < WaitSize
        /\ waiting_index' = IF s > 0 THEN waiting_index + 1 ELSE waiting_index
        /\ \/ /\ \A p \in Points : finish[p]
              /\ waiting_list' = taken(s)
              /\ UNCHANGED <<blocked, lost>>
           \/ /\ RestoredWhere = 0
              /\ waiting_list' = taken(s)
              /\ SignalPoint(key(s))
           \/ /\ RestoredWhere \in Points /\ key(s) = Opposite(RestoredWhere)
              /\ waiting_list' = taken(s)
              /\ Signal(key(s))
           \/ /\ RestoredWhere \in Points
              /\ waiting_list' = PutBack(w(s), taken(s), key(s))
              /\ Signal(RestoredWhere)
  BY Zenon DEF Dispatch
<1> HIDE DEF w, picked, key, taken
<1>2. DataOK
  BY DEF IInv, TypeOK
<1>3. s \in Int /\ (list_index < ListSize => s = start_point_list[list_index])
  <2>1. CASE list_index < ListSize
    <3>1. list_index \in 0..(ListSize - 1)
      BY <1>2, <2>1, SizeAssumption DEF DataOK
    <3>2. start_point_list[list_index] \in {0} \cup Points
      BY <1>2, <3>1 DEF DataOK
    <3>3. start_point_list[list_index] \in Int
      BY <3>2 DEF Points
    <3> QED
      BY <1>1, <2>1, <3>3 DEF ReadStart
  <2>2. CASE ~(list_index < ListSize)
    BY <1>1, <2>2, GarbageAssumption DEF ReadStart
  <2> QED
    BY <2>1, <2>2
<1>4. WaitSize \in Nat /\ waiting_list \in [0..(WaitSize - 1) -> Int] /\ waiting_index \in Nat
  BY <1>2, SizeAssumption DEF DataOK
<1>5. w(s) \in [0..(WaitSize - 1) -> Int]
  BY <1>3, <1>4 DEF Joined, w
<1>6. \A p \in Points : /\ Number(waiting_list, p) \in Nat
                        /\ Number(w(s), p) = Number(waiting_list, p) + One(s = p)
  <2> TAKE p \in Points
  <2>1. Number(waiting_list, p) \in Nat
    BY <1>2, AccountParts
  <2>2. CASE s > 0
    <3>1. waiting_index \in 0..(WaitSize - 1)
      BY <1>1, <1>4, <2>2
    <3>2. waiting_list[waiting_index] = 0
      BY <1>4, <3>1 DEF WaitingOK
    <3>3. w(s) = [waiting_list EXCEPT ![waiting_index] = s]
      BY <2>2 DEF Joined, w
    <3>4. w(s)[waiting_index] = s /\ \A i \in 0..(WaitSize - 1) : i # waiting_index => w(s)[i] = waiting_list[i]
      BY <1>4, <3>1, <3>3
    <3> QED
      BY <1>4, <1>5, <3>1, <3>2, <3>4, NumberPut
  <2>3. CASE ~(s > 0)
    <3>1. w(s) = waiting_list /\ s # p
      BY <1>3, <2>3 DEF Joined, Points, w
    <3> QED
      BY <2>1, <3>1 DEF One
  <2> QED
    BY <2>2, <2>3, <2>1
<1>7. \A i \in 0..(WaitSize - 1) : w(s)[i] \in {waiting_list[i], IF s > 0 /\ i = waiting_index THEN s ELSE 0}
      /\ (~(s > 0 /\ i = waiting_index) => w(s)[i] = waiting_list[i])
  BY <1>3, <1>4 DEF Joined, w
<1>8. /\ key(s) \in Nat
      /\ taken(s) \in [0..(WaitSize - 1) -> Int]
      /\ \A i \in 0..(WaitSize - 1) : taken(s)[i] \in {0, w(s)[i]}
      /\ \A p \in Points : Number(taken(s), p) + One(key(s) = p) = Number(w(s), p)
  <2>1. CASE picked(s) = {}
    <3>1. key(s) = 0 /\ taken(s) = w(s)
      BY <1>5, <2>1 DEF key, taken
    <3>2. \A p \in Points : One(key(s) = p) = 0 /\ Number(w(s), p) \in Nat
      BY <1>6, <3>1 DEF One, Points
    <3> QED
      BY <1>5, <3>1, <3>2
  <2>2. ASSUME NEW x \in 0..(WaitSize - 1), picked(s) = {x}, w(s)[x] \in Nat \ {0}
        PROVE  /\ key(s) \in Nat
               /\ taken(s) \in [0..(WaitSize - 1) -> Int]
               /\ \A i \in 0..(WaitSize - 1) : taken(s)[i] \in {0, w(s)[i]}
               /\ \A p \in Points : Number(taken(s), p) + One(key(s) = p) = Number(w(s), p)
    <3>1. key(s) = w(s)[x]
      BY <2>2 DEF key
    <3>2. taken(s) = [i \in 0..(WaitSize - 1) |-> IF i = x THEN 0 ELSE w(s)[i]]
      BY <1>5, <2>2 DEF taken
    <3>3. /\ taken(s) \in [0..(WaitSize - 1) -> Int] /\ taken(s)[x] = 0
          /\ \A i \in 0..(WaitSize - 1) : i # x => w(s)[i] = taken(s)[i]
      BY <1>5, <3>2
    <3>4. ASSUME NEW p \in Points PROVE Number(w(s), p) = Number(taken(s), p) + One(w(s)[x] = p)
      <4>1. PICK u : u = taken(s)
        OBVIOUS
      <4>2. PICK v : v = w(s)
        OBVIOUS
      <4>3. Number(v, p) = Number(u, p) + One(v[x] = p)
        <5>1. /\ WaitSize \in Nat /\ u \in [0..(WaitSize - 1) -> Int] /\ v \in [0..(WaitSize - 1) -> Int]
              /\ u[x] = 0 /\ \A i \in 0..(WaitSize - 1) : i # x => v[i] = u[i]
          BY <1>4, <1>5, <3>3, <4>1, <4>2
        <5> QED
          BY <5>1, NumberPut
      <4> QED
        BY <4>1, <4>2, <4>3
    <3>5. \A p \in Points : Number(taken(s), p) + One(key(s) = p) = Number(w(s), p)
      BY <3>1, <3>4
    <3> QED
      BY <2>2, <3>1, <3>3, <3>5
  <2>3. picked(s) = {} \/ \E x \in 0..(WaitSize - 1) : picked(s) = {x} /\ w(s)[x] \in Nat \ {0}
    BY <1>5, PickedOne DEF picked
  <2> QED
    BY <2>1, <2>2, <2>3
<1>9. \A p \in Points : Number(PutBack(w(s), taken(s), key(s)), p) = Number(w(s), p)
  <2> TAKE p \in Points
  <2>1. CASE key(s) \in Points
    BY <2>1 DEF PutBack
  <2>2. CASE key(s) \notin Points
    <3>1. One(key(s) = p) = 0 /\ PutBack(w(s), taken(s), key(s)) = taken(s)
      BY <2>2 DEF One, PutBack
    <3>2. Number(taken(s), p) \in Nat
      BY <1>4, <1>8, PlacesFinite DEF Number, InLine
    <3> QED
      BY <1>8, <3>1, <3>2
  <2> QED
    BY <2>1, <2>2
<1>10. \A i \in 0..(WaitSize - 1) : PutBack(w(s), taken(s), key(s))[i] \in {0, w(s)[i]}
  BY <1>8 DEF PutBack
<1>11. \A i \in DOMAIN waiting_list :
         waiting_list'[i] \in {0, waiting_list[i], IF s > 0 /\ i = waiting_index THEN s ELSE 0}
  BY <1>1, <1>4, <1>7, <1>8, <1>10
<1>12. \A p \in Points : Number(taken(s), p) + One(key(s) = p) = Number(waiting_list, p) + One(s = p)
  BY <1>6, <1>8
<1>13. \A p \in Points : Number(PutBack(w(s), taken(s), key(s)), p) = Number(waiting_list, p) + One(s = p)
  BY <1>6, <1>9
<1>14. \/ /\ \A p \in Points : finish[p]
          /\ \A p \in Points : Number(waiting_list', p) + One(key(s) = p) = Number(waiting_list, p) + One(s = p)
          /\ UNCHANGED <<blocked, lost>>
       \/ /\ RestoredWhere = 0
          /\ \A p \in Points : Number(waiting_list', p) + One(key(s) = p) = Number(waiting_list, p) + One(s = p)
          /\ SignalPoint(key(s))
       \/ /\ RestoredWhere \in Points /\ key(s) = Opposite(RestoredWhere)
          /\ \A p \in Points : Number(waiting_list', p) + One(key(s) = p) = Number(waiting_list, p) + One(s = p)
          /\ Signal(key(s))
       \/ /\ RestoredWhere \in Points
          /\ \A p \in Points : Number(waiting_list', p) = Number(waiting_list, p) + One(s = p)
          /\ Signal(RestoredWhere)
  BY <1>1, <1>12, <1>13, Zenon
<1> QED
  BY <1>1, <1>3, <1>8, <1>11, <1>14, Zenon
\* Only main's two first actions, Dispatch and the turns of the vehicle threads move a vehicle
\* from one place to another.
LEMMA OtherSteps ==
    ASSUME IInv, [Next]_vars, ~create_random_list, ~SignalFirst, ~Dispatch, \A k \in Points : ~Job(k)
    PROVE  /\ UNCHANGED <<start_point_list, list_index, waiting_list, waiting_index, pCount, count, process>>
           /\ \A p \in Points : Entering(p)' <=> Entering(p)
           /\ lost' = {} => lost = {}
           /\ Alive' => Alive
<1> USE DEF shared
<1>0. ThreadsOK
  BY DEF IInv, TypeOK
<1>1. CASE create_thread
  <2>1. PICK k \in {Job0} \cup Points :
          /\ pc[k] = "unborn"
          /\ pc' = [pc EXCEPT ![k] = IF k = Job0 THEN "lock" ELSE "start",
                              ![Main] = IF k = 4 THEN "signal" ELSE "create"]
    BY <1>1 DEF create_thread
  <2>2. \A p \in Points : pc'[p] = pc[p] \/ (pc[p] = "unborn" /\ pc'[p] = "start")
    BY <1>0, <2>1 DEF ThreadsOK, Threads, Points, Job0, Main
  <2> QED
    BY <1>1, <2>2 DEF create_thread, Entering, Woken, Alive
<1>2. CASE create_thread_fails \/ Join
  <2>1. \A p \in Points : pc'[p] = pc[p]
    BY <1>0, <1>2 DEF create_thread_fails, Join, ThreadsOK, Threads, Points, Main
  <2> QED
    BY <1>2, <2>1 DEF create_thread_fails, Join, Entering, Woken, Alive
<1>3. CASE Job0Start \/ Job0Block
  <2>1. \A p \in Points : pc'[p] = pc[p] /\ (p \in blocked' <=> p \in blocked)
    BY <1>0, <1>3 DEF Job0Start, Job0Block, Block, ThreadsOK, Threads, Points, Job0
  <2> QED
    BY <1>3, <2>1 DEF Job0Start, Job0Block, Block, Entering, Woken, Alive
<1>4. CASE print_progress
  <2>1. \A p \in Points : pc'[p] = pc[p] /\ (p \in blocked' <=> p \in blocked)
    BY <1>0, <1>4 DEF print_progress, ThreadsOK, Threads, Points, Job0
  <2> QED
    BY <1>4, <2>1 DEF print_progress, Entering, Woken, Alive
<1>5. CASE OverflowWaiting
  <2>1. \A p \in Points : pc'[p] = pc[p] /\ (p \in blocked' <=> p \in blocked)
    BY <1>0, <1>5 DEF OverflowWaiting, ThreadsOK, Threads, Points, Main
  <2> QED
    BY <1>5, <2>1 DEF OverflowWaiting, Entering, Woken, Alive
<1>6. CASE LeaveFirst
  <2>1. \A p \in Points : pc'[p] = pc[p] /\ (p # lane => (p \in blocked' <=> p \in blocked))
    BY <1>0, <1>6 DEF LeaveFirst, Signal, ThreadsOK, Threads, Points, Job0
  <2>2. lane \in Inside
    BY <1>6 DEF LeaveFirst, IInv, DispatcherTurn, Woken
  <2>3. \A p \in Points : Entering(p)' <=> Entering(p)
    BY <1>6, <2>1, <2>2 DEF LeaveFirst, Entering, Woken, Inside
  <2>4. lost' = {} => lost = {}
    BY <1>6 DEF LeaveFirst, Signal
  <2> QED
    BY <1>6, <2>3, <2>4 DEF LeaveFirst, Alive
<1>7. ASSUME NEW k \in Points, JobStart(k) \/ JobBlock(k)
      PROVE  /\ UNCHANGED <<start_point_list, list_index, waiting_list, waiting_index, pCount, count, process>>
             /\ \A p \in Points : Entering(p)' <=> Entering(p)
             /\ lost' = {} => lost = {}
             /\ Alive' => Alive
  <2>1. /\ pc[k] \in {"start", "block"}
        /\ pc'[k] = "done" \/ (pc'[k] = "wait" /\ k \in blocked')
        /\ \A p \in Points \ {k} : pc'[p] = pc[p] /\ (p \in blocked' <=> p \in blocked)
    BY <1>0, <1>7 DEF JobStart, JobBlock, Block, ThreadsOK, Threads, Points
  <2>2. \A p \in Points : process'[p] = process[p]
    BY <1>7 DEF JobStart, JobBlock
  <2>3. \A p \in Points : Entering(p)' <=> Entering(p)
    BY <2>1, <2>2 DEF Entering, Woken
  <2> QED
    BY <1>7, <2>3 DEF JobStart, JobBlock, Block, Alive
<1>8. CASE UNCHANGED vars
  BY <1>8 DEF vars, Entering, Woken, Alive
<1> QED
  BY <1>1, <1>2, <1>3, <1>4, <1>5, <1>6, <1>7, <1>8 DEF Next, MainNext, Job0Next, JobNext

LEMMA WaitingStep == IInv /\ WaitingOK /\ [Next]_vars => WaitingOK'
<1> SUFFICES ASSUME IInv, WaitingOK, [Next]_vars PROVE WaitingOK'
  OBVIOUS
<1>1. CASE create_random_list
  BY <1>1 DEF create_random_list, WaitingOK
<1>2. CASE SignalFirst
  <2>1. list_index \in Nat /\ list_index' = list_index + 1 /\ UNCHANGED <<waiting_list, waiting_index>>
    BY <1>2 DEF SignalFirst, IInv, TypeOK, DataOK
  <2> QED
    BY <2>1, SizeAssumption DEF WaitingOK
<1>3. CASE Dispatch
  <2>1. PICK start \in Int :
          /\ list_index < ListSize => start = start_point_list[list_index]
          /\ waiting_index' = IF start > 0 THEN waiting_index + 1 ELSE waiting_index
          /\ \A i \in DOMAIN waiting_list :
               waiting_list'[i] \in {0, waiting_list[i], IF start > 0 /\ i = waiting_index THEN start ELSE 0}
    BY <1>3, DispatchMoves
  <2>2. /\ list_index \in Nat /\ waiting_index \in Nat /\ list_index' = list_index + 1
        /\ DOMAIN waiting_list = 0..(WaitSize - 1) /\ DOMAIN waiting_list' = 0..(WaitSize - 1)
        /\ start_point_list \in [0..(ListSize - 1) -> {0} \cup Points]
    BY <1>3, DispatchData DEF Dispatch, IInv, TypeOK, DataOK
  <2>3. ASSUME NEW i \in DOMAIN waiting_list', i >= waiting_index' PROVE waiting_list'[i] = 0
    BY <2>1, <2>2, <2>3, SizeAssumption DEF WaitingOK
  <2>4. ASSUME list_index' <= ListSize, NEW i \in DOMAIN waiting_list' PROVE waiting_list'[i] \in {0} \cup Points
    <3>1. list_index \in 0..(ListSize - 1)
      BY <2>2, <2>4, SizeAssumption
    <3>2. start \in {0} \cup Points /\ waiting_list[i] \in {0} \cup Points
      BY <2>1, <2>2, <3>1, SizeAssumption DEF WaitingOK
    <3> QED
      BY <2>1, <2>2, <3>2
  <2> QED
    BY <2>3, <2>4 DEF WaitingOK
<1>4. ASSUME NEW k \in Points, Job(k) PROVE WaitingOK'
  BY <1>4 DEF Job, WaitingOK
<1>5. CASE ~create_random_list /\ ~SignalFirst /\ ~Dispatch /\ \A k \in Points : ~Job(k)
  BY <1>5, OtherSteps DEF WaitingOK
<1> QED
  BY <1>1, <1>2, <1>3, <1>4, <1>5

LEMMA NotBegunStep == IInv /\ NotBegun /\ [Next]_vars => NotBegun'
<1> SUFFICES ASSUME IInv, NotBegun, [Next]_vars PROVE NotBegun'
  OBVIOUS
<1>0. ThreadsOK
  BY DEF IInv, TypeOK
<1>1. CASE create_random_list
  BY <1>0, <1>1 DEF create_random_list, NotBegun, ThreadsOK, Threads, Main
<1>2. CASE SignalFirst
  BY <1>0, <1>2 DEF SignalFirst, NotBegun, ThreadsOK, Threads, Main
<1>3. CASE Dispatch
  <2>1. pc[Job0] = "sleep" /\ pc'[Main] = pc[Main]
    BY <1>0, <1>3, DispatchCases DEF Dispatch, ThreadsOK, Threads, Main, Job0, IInv, TypeOK
  <2> QED
    BY <2>1 DEF NotBegun, IInv, Startup
<1>4. ASSUME NEW k \in Points, Job(k) PROVE NotBegun'
  BY <1>0, <1>4 DEF Job, Report, NotBegun, ThreadsOK, Threads, Points, Main
<1>5. CASE ~create_random_list /\ ~SignalFirst /\ ~Dispatch /\ \A k \in Points : ~Job(k)
  <2>1. UNCHANGED <<start_point_list, list_index, waiting_list>>
    BY <1>5, OtherSteps
  <2>2. /\ pc'[Main] = "list" => pc[Main] = "list"
        /\ pc'[Main] \in {"list", "create", "signal"} => pc[Main] \in {"list", "create", "signal"}
    <3>1. CASE create_thread
      BY <1>0, <3>1 DEF create_thread, ThreadsOK, Threads, Points, Job0, Main
    <3>2. CASE create_thread_fails \/ Join
      BY <1>0, <3>2 DEF create_thread_fails, Join, ThreadsOK, Threads, Main
    <3>3. CASE Job0Start \/ Job0Block \/ print_progress \/ LeaveFirst
      BY <1>0, <3>3 DEF Job0Start, Job0Block, Block, print_progress, LeaveFirst, ThreadsOK, Threads, Main, Job0
    <3>4. CASE OverflowWaiting
      BY <1>0, <3>4 DEF OverflowWaiting, ThreadsOK, Threads, Main
    <3>5. ASSUME NEW k \in Points, JobStart(k) \/ JobBlock(k) PROVE pc'[Main] = pc[Main]
      BY <1>0, <3>5 DEF JobStart, JobBlock, Block, ThreadsOK, Threads, Points, Main
    <3>6. CASE UNCHANGED vars
      BY <3>6 DEF vars
    <3> QED
      BY <1>5, <3>1, <3>2, <3>3, <3>4, <3>5, <3>6 DEF Next, MainNext, Job0Next, JobNext
  <2> QED
    BY <2>1, <2>2 DEF NotBegun
<1> QED
  BY <1>1, <1>2, <1>3, <1>4, <1>5
LEMMA EndsStep == IInv /\ EndsWithLast /\ [Next]_vars => EndsWithLast'
<1> SUFFICES ASSUME IInv, EndsWithLast, [Next]_vars PROVE EndsWithLast'
  OBVIOUS
<1>0. ThreadsOK /\ DataOK
  BY DEF IInv, TypeOK
<1>1. CASE create_random_list
  <2>1. /\ \A k \in Points : pc[k] = "unborn" /\ pc'[k] = "unborn"
        /\ pc'[Main] = "create" /\ finish' = finish
    BY <1>0, <1>1 DEF create_random_list, IInv, VehiclesLeft, ThreadsOK, Threads, Points, Main
  <2> QED
    BY <2>1 DEF EndsWithLast
<1>2. ASSUME NEW k \in Points, JobStart(k) PROVE EndsWithLast'
  <2>1. count[k] = 0 /\ process[k] = 0 /\ pc[k] = "start" /\ UNCHANGED <<count, process, pCount>>
    BY <1>2 DEF JobStart, IInv, VehiclesLeft
  <2>2. \A t \in Threads \ {k} : pc'[t] = pc[t]
    BY <1>0, <1>2 DEF JobStart, Block, ThreadsOK, Threads, Points
  <2>3. \A p \in Points \ {k} : finish'[p] = finish[p]
    BY <1>0, <1>2 DEF JobStart, DataOK
  <2>4. \/ pCount[k] = 0 /\ finish'[k] = TRUE /\ pc'[k] = "done"
        \/ finish'[k] = finish[k] /\ pc'[k] = "wait"
    BY SMTT(30), <1>0, <1>2 DEF JobStart, Block, DataOK, ThreadsOK, Threads, Points
  <2>5. pc[Main] # "done" /\ pc'[Main] = pc[Main]
    BY <2>1, <2>2 DEF EndsWithLast, Threads, Points, Main
  <2> QED
    BY <2>1, <2>2, <2>3, <2>4, <2>5 DEF EndsWithLast, Threads, Points
<1>3. ASSUME NEW k \in Points, Job(k) PROVE EndsWithLast'
  <2>1. pc[k] = "wait" /\ Move(k) /\ Report(k) /\ UNCHANGED pCount /\ count[k] < pCount[k]
    BY <1>3 DEF Job, IInv, VehiclesLeft
  <2>2. \A t \in Threads \ {k} : pc'[t] = pc[t]
    BY <1>0, <2>1 DEF Report, ThreadsOK, Threads, Points
  <2>3. \A p \in Points \ {k} : finish'[p] = finish[p] /\ count'[p] = count[p] /\ process'[p] = process[p]
    BY <1>0, <2>1 DEF Move, Report, DataOK
  <2>4. \/ finish'[k] = TRUE /\ pc'[k] = "done" /\ count'[k] = pCount[k]
        \/ finish'[k] = finish[k] /\ pc'[k] = "block"
    BY <1>0, <2>1 DEF Report, LastPassed, DataOK, ThreadsOK, Threads, Points
  <2>5. \/ count'[k] = count[k]
        \/ process'[k] = 0
    BY <1>0, <2>1 DEF Move, DataOK
  <2>6. pc[Main] # "done" /\ pc'[Main] = pc[Main]
    BY <2>1, <2>2 DEF EndsWithLast, Threads, Points, Main
  <2>7. pc'[k] = "done" => count'[k] = pCount'[k] /\ process'[k] = 0
    BY <1>0, <2>1, <2>4, <2>5 DEF DataOK
  <2> QED
    BY <2>1, <2>2, <2>3, <2>4, <2>6, <2>7 DEF EndsWithLast, Threads, Points
<1>4. CASE Join
  <2>1. /\ \A k \in Points : pc[k] = "done" /\ pc'[k] = "done"
        /\ UNCHANGED <<count, process, pCount, finish>>
    BY <1>0, <1>4 DEF Join, shared, ThreadsOK, Threads, Points, Main
  <2> QED
    BY <2>1 DEF EndsWithLast
<1>5. CASE /\ ~create_random_list /\ ~Join
           /\ \A k \in Points : ~JobStart(k) /\ ~Job(k)
  <2>1. UNCHANGED <<count, process, pCount, finish>>
    <3>1. CASE create_thread \/ create_thread_fails \/ SignalFirst
      BY <3>1 DEF create_thread, create_thread_fails, SignalFirst, shared
    <3>2. CASE Job0Start \/ print_progress \/ OverflowWaiting
      BY <3>2 DEF Job0Start, print_progress, OverflowWaiting, shared
    <3>3. CASE Dispatch
      BY <3>3 DEF Dispatch
    <3>4. CASE Job0Block \/ LeaveFirst
      BY <3>4 DEF Job0Block, LeaveFirst, shared
    <3>5. ASSUME NEW k \in Points, JobBlock(k) PROVE UNCHANGED <<count, process, pCount, finish>>
      BY <3>5 DEF JobBlock, shared
    <3>6. CASE UNCHANGED vars
      BY <3>6 DEF vars, shared
    <3> QED
      BY <1>5, <3>1, <3>2, <3>3, <3>4, <3>5, <3>6 DEF Next, MainNext, Job0Next, JobNext
  <2>2. /\ \A p \in Points : pc'[p] = pc[p] \/ (pc[p] # "done" /\ pc'[p] # "done")
        /\ pc'[Main] = "done" => pc[Main] = "done"
    <3>1. CASE create_thread
      <4>1. PICK k \in {Job0} \cup Points :
              /\ pc[k] = "unborn"
              /\ pc' = [pc EXCEPT ![k] = IF k = Job0 THEN "lock" ELSE "start",
                                  ![Main] = IF k = 4 THEN "signal" ELSE "create"]
        BY <3>1 DEF create_thread
      <4> QED
        BY <1>0, <4>1 DEF ThreadsOK, Threads, Points, Job0, Main
    <3>2. CASE create_thread_fails \/ SignalFirst \/ OverflowWaiting
      BY <1>0, <3>2 DEF create_thread_fails, SignalFirst, OverflowWaiting, ThreadsOK, Threads, Points, Main
    <3>3. CASE Job0Start \/ Job0Block \/ print_progress \/ LeaveFirst
      BY <1>0, <3>3 DEF Job0Start, Job0Block, Block, print_progress, LeaveFirst, ThreadsOK, Threads, Points, Main, Job0
    <3>4. CASE Dispatch
      BY <1>0, <3>4, DispatchCases DEF ThreadsOK, Threads, Points, Main, Job0
    <3>5. ASSUME NEW k \in Points, JobBlock(k)
          PROVE  /\ \A p \in Points : pc'[p] = pc[p] \/ (pc[p] # "done" /\ pc'[p] # "done")
                 /\ pc'[Main] = pc[Main]
      BY <1>0, <3>5 DEF JobBlock, Block, ThreadsOK, Threads, Points, Main
    <3>6. CASE UNCHANGED vars
      BY <3>6 DEF vars
    <3> QED
      BY <1>5, <3>1, <3>2, <3>3, <3>4, <3>5, <3>6 DEF Next, MainNext, Job0Next, JobNext
  <2> QED
    BY <2>1, <2>2 DEF EndsWithLast
<1> QED
  BY <1>1, <1>2, <1>3, <1>4, <1>5

\* AccountParts of the next state.
LEMMA AccountPartsNext ==
    ASSUME DataOK', NEW p \in Points
    PROVE  /\ Number(waiting_list', p) \in Nat /\ Left(start_point_list', list_index', p) \in Nat
           /\ One(Entering(p)') \in {0, 1} /\ count'[p] \in Nat /\ pCount'[p] \in Nat /\ process'[p] \in {0, 1}
           /\ Accounted(p)' = count'[p] + process'[p] + One(Entering(p)') + Number(waiting_list', p)
                              + Left(start_point_list', list_index', p)
           /\ Accounted(p)' \in Nat
<1>1. Number(waiting_list', p) \in Nat /\ Left(start_point_list', list_index', p) \in Nat
  BY PlacesFinite, SizeAssumption DEF DataOK, InLine, ToCome, Number, Left
<1>2. One(Entering(p)') \in {0, 1} /\ count'[p] \in Nat /\ pCount'[p] \in Nat /\ process'[p] \in {0, 1}
  BY DEF One, DataOK
<1>3. Accounted(p)' = count'[p] + process'[p] + One(Entering(p)') + Number(waiting_list', p)
                      + Left(start_point_list', list_index', p)
  BY DEF Accounted, One, Number, Left, InLine, ToCome
<1> QED
  BY <1>1, <1>2, <1>3

\* The list that is drawn holds pCount[p] vehicles of p.
LEMMA DrawnAccount ==
    ASSUME IInv, NotBegun, create_random_list, NEW p \in Points
    PROVE  Accounted(p)' = pCount'[p]
<1>0. PICK vehicles \in VehicleCounts : \E drawn \in [0..(vehicles - 1) -> RandomPoints] :
          /\ start_point_list' = [i \in DOMAIN start_point_list |->
                                    IF i < vehicles THEN drawn[i] ELSE 0]
          /\ pCount' = [q \in Points |-> Cardinality({i \in DOMAIN drawn : drawn[i] = q})]
  BY DEF create_random_list
<1>1. PICK drawn \in [0..(vehicles - 1) -> RandomPoints] :
          /\ start_point_list' = [i \in DOMAIN start_point_list |->
                                    IF i < vehicles THEN drawn[i] ELSE 0]
          /\ pCount' = [q \in Points |-> Cardinality({i \in DOMAIN drawn : drawn[i] = q})]
  BY <1>0
<1>2. DataOK /\ DataOK' /\ ThreadsOK
  BY DataStep DEF IInv, TypeOK, Next, MainNext
<1>3. vehicles \in 1..ListSize /\ ListSize \in Nat /\ DOMAIN start_point_list = 0..(ListSize - 1)
  BY <1>2, VehicleAssumption, SizeAssumption DEF DataOK
<1>4. /\ pc[Main] = "list" /\ pc' = [pc EXCEPT ![Main] = "create"]
      /\ UNCHANGED <<list_index, waiting_list, count, process>>
  BY DEF create_random_list
<1>5. list_index' = 0 /\ \A i \in DOMAIN waiting_list' : waiting_list'[i] = 0
  BY <1>4 DEF NotBegun
<1>6. pc'[p] = "unborn" /\ count'[p] = 0 /\ process'[p] = 0
  BY <1>2, <1>4 DEF IInv, VehiclesLeft, ThreadsOK, Threads, Points, Main
<1>7. One(Entering(p)') = 0
  BY <1>6 DEF One, Entering, Woken
<1>8. Number(waiting_list', p) = 0
  <2>1. InLine(waiting_list', p) = {}
    BY <1>5 DEF InLine, Points
  <2> QED
    BY <2>1, FS_EmptySet DEF Number
<1>9. ToCome(start_point_list', list_index', p) = {i \in DOMAIN drawn : drawn[i] = p}
  <2>1. start_point_list' = [i \in 0..(ListSize - 1) |-> IF i < vehicles THEN drawn[i] ELSE 0]
    BY <1>1, <1>3
  <2>2. DOMAIN drawn = 0..(vehicles - 1) /\ p # 0
    BY DEF Points
  <2> QED
    BY <1>3, <1>5, <2>1, <2>2 DEF ToCome
<1>10. Left(start_point_list', list_index', p) = pCount'[p]
  BY <1>1, <1>9 DEF Left
<1> QED
  BY <1>2, <1>6, <1>7, <1>8, <1>10, AccountPartsNext
\* A signal to a thread without a vehicle inside lets one enter, unless it is forgotten.
LEMMA SignalEntering ==
    ASSUME ThreadsOK, BlockedWait, NEW k \in Points, Signal(k), process[k] = 0,
           \A q \in Points : pc'[q] = pc[q] /\ process'[q] = process[q], NEW p \in Points
    PROVE  /\ One(Entering(p)') <= One(Entering(p)) + One(k = p)
           /\ lost' = {} => One(Entering(p)') = One(Entering(p)) + One(k = p)
<1>1. \A q \in Points \ {k} : Entering(q)' <=> Entering(q)
  BY DEF Signal, Entering, Woken
<1>2. CASE k \in blocked
  <2>1. pc[k] = "wait"
    BY <1>2 DEF BlockedWait, ThreadsOK, JobLabels
  <2>2. ~Entering(k) /\ Entering(k)'
    BY <1>2, <2>1 DEF Signal, Entering, Woken
  <2> QED
    BY <1>1, <2>2 DEF One
<1>3. CASE k \notin blocked
  <2>1. lost' # {} /\ (Entering(k)' <=> Entering(k))
    BY <1>3 DEF Signal, Entering, Woken
  <2> QED
    BY <1>1, <2>1 DEF One
<1> QED
  BY <1>2, <1>3

\* main takes the first vehicle out of the list and wakes its thread.
LEMMA SignalFirstAccount ==
    ASSUME IInv, NotBegun, SignalFirst, NEW p \in Points
    PROVE  /\ Accounted(p)' <= Accounted(p)
           /\ lost' = {} => lost = {} /\ Accounted(p)' = Accounted(p)
<1>1. DataOK /\ DataOK' /\ ThreadsOK
  BY DataStep DEF IInv, TypeOK, Next, MainNext
<1>2. /\ pc[Main] = "signal" /\ list_index = 0 /\ list_index' = 1
      /\ UNCHANGED <<start_point_list, waiting_list, pCount, count, process>>
  BY DEF SignalFirst, NotBegun
<1>3. \A q \in Points : pc'[q] = pc[q] /\ process'[q] = process[q] /\ process[q] = 0
  BY <1>1, <1>2 DEF SignalFirst, IInv, Startup, ThreadsOK, Threads, Points, Main
<1>4. PICK s : s = start_point_list[0]
  OBVIOUS
<1>5. s \in {0} \cup Points /\ SignalPoint(s)
  <2>1. ReadStart(list_index) = {s}
    BY <1>2, <1>4, SizeAssumption DEF ReadStart
  <2>2. 0 \in 0..(ListSize - 1)
    BY SizeAssumption
  <2> QED
    BY <1>1, <1>4, <2>1, <2>2 DEF SignalFirst, DataOK
<1>6. /\ Left(start_point_list, 0, p) \in Nat /\ Left(start_point_list, 1, p) \in Nat
      /\ Left(start_point_list, 0, p) = Left(start_point_list, 1, p) + One(s = p)
  <2>1. /\ Left(start_point_list, 0, p) \in Nat /\ Left(start_point_list, 0 + 1, p) \in Nat
        /\ Left(start_point_list, 0, p) = Left(start_point_list, 0 + 1, p) + One(0 < ListSize /\ start_point_list[0] = p)
    <3>1. ListSize \in Nat /\ start_point_list \in [0..(ListSize - 1) -> {0} \cup Points]
      BY <1>1, SizeAssumption DEF DataOK
    <3> QED
      BY <3>1, LeftStep
  <2>2. (0 < ListSize /\ start_point_list[0] = p) <=> s = p
    BY <1>4, SizeAssumption
  <2> QED
    BY <2>1, <2>2 DEF One
<1>7. /\ One(Entering(p)') <= One(Entering(p)) + One(s = p)
      /\ lost' = {} => One(Entering(p)') = One(Entering(p)) + One(s = p)
      /\ lost' = {} => lost = {}
  <2>1. CASE s = 0
    <3>1. UNCHANGED <<blocked, lost>> /\ One(s = p) = 0
      BY <1>5, <2>1 DEF SignalPoint, One, Points
    <3>2. Entering(p)' <=> Entering(p)
      BY <1>3, <3>1 DEF Entering, Woken
    <3> QED
      BY <3>1, <3>2 DEF One
  <2>2. CASE s \in Points
    <3>1. Signal(s)
      BY <1>5, <2>2 DEF SignalPoint
    <3>2. ThreadsOK /\ BlockedWait /\ process[s] = 0
      BY <1>1, <1>3, <2>2 DEF IInv
    <3>3. \A q \in Points : pc'[q] = pc[q] /\ process'[q] = process[q]
      BY <1>3
    <3>4. /\ One(Entering(p)') <= One(Entering(p)) + One(s = p)
          /\ lost' = {} => One(Entering(p)') = One(Entering(p)) + One(s = p)
      BY <2>2, <3>1, <3>2, <3>3, SignalEntering
    <3> QED
      BY <3>1, <3>4 DEF Signal
  <2> QED
    BY <1>5, <2>1, <2>2
<1>8. One(s = p) \in {0, 1}
  BY DEF One
<1> QED
  BY <1>1, <1>2, <1>6, <1>7, <1>8, AccountParts, AccountPartsNext

\* job0 moves a vehicle from the list to the waiting list and lets one enter.
LEMMA DispatchAccount ==
    ASSUME IInv, CountInv, Dispatch, NEW p \in Points
    PROVE  /\ lost' = {} => lost = {} /\ (Accounted(p)' >= Accounted(p) \/ Accounted(p)' >= pCount'[p])
           /\ list_index' <= ListSize => list_index <= ListSize /\ Accounted(p)' <= Accounted(p)
<1>1. DataOK /\ DataOK' /\ ThreadsOK /\ WaitingOK /\ EndsWithLast
  BY DataStep DEF IInv, TypeOK, Next, Job0Next, CountInv
<1>2. /\ pc[Job0] = "sleep" /\ list_index' = list_index + 1
      /\ UNCHANGED <<start_point_list, pCount, count, process>>
  BY DEF Dispatch
<1>3. \A q \in Points : pc'[q] = pc[q] /\ process'[q] = process[q]
  BY <1>1, <1>2, DispatchCases DEF ThreadsOK, Threads, Points, Job0
<1>4. Inside = {RestoredWhere} \cap Points
  BY <1>2 DEF IInv, DispatcherTurn
<1>5. list_index \in Nat /\ ListSize \in Nat
  BY <1>1, SizeAssumption DEF DataOK
<1> DEFINE Moved(key, start) == Number(waiting_list', p) + One(key = p) = Number(waiting_list, p) + One(start = p)
<1>6. PICK start \in Int, key \in Nat :
        /\ list_index < ListSize => start = start_point_list[list_index]
        /\ \/ (\A q \in Points : finish[q]) /\ Moved(key, start) /\ UNCHANGED <<blocked, lost>>
           \/ RestoredWhere = 0 /\ Moved(key, start) /\ SignalPoint(key)
           \/ RestoredWhere \in Points /\ key = Opposite(RestoredWhere) /\ Moved(key, start) /\ Signal(key)
           \/ /\ RestoredWhere \in Points
              /\ Number(waiting_list', p) = Number(waiting_list, p) + One(start = p)
              /\ Signal(RestoredWhere)
  BY <1>1, DispatchMoves
<1>7. /\ Left(start_point_list, list_index, p) \in Nat /\ Left(start_point_list, list_index', p) \in Nat
      /\ Left(start_point_list, list_index, p)
           = Left(start_point_list, list_index', p) + One(list_index < ListSize /\ start = p)
  <2>1. /\ Left(start_point_list, list_index, p) \in Nat /\ Left(start_point_list, list_index + 1, p) \in Nat
        /\ Left(start_point_list, list_index, p) = Left(start_point_list, list_index + 1, p)
              + One(list_index < ListSize /\ start_point_list[list_index] = p)
    <3>1. start_point_list \in [0..(ListSize - 1) -> {0} \cup Points]
      BY <1>1 DEF DataOK
    <3> QED
      BY <1>5, <3>1, LeftStep
  <2>2. (list_index < ListSize /\ start_point_list[list_index] = p) <=> (list_index < ListSize /\ start = p)
    BY <1>6
  <2> QED
    BY <1>2, <2>1, <2>2 DEF One
<1>8. /\ One(start = p) \in {0, 1} /\ One(key = p) \in {0, 1}
      /\ One(list_index < ListSize /\ start = p) \in {0, 1}
      /\ One(list_index < ListSize /\ start = p) <= One(start = p)
      /\ list_index < ListSize => One(list_index < ListSize /\ start = p) = One(start = p)
  BY DEF One
<1>9. list_index' <= ListSize => list_index < ListSize
  BY <1>2, <1>5
<1>10. CASE (\A q \in Points : finish[q]) /\ Moved(key, start) /\ UNCHANGED <<blocked, lost>>
  <2>1. Entering(p)' <=> Entering(p)
    BY <1>3, <1>10 DEF Entering, Woken
  <2>2. One(Entering(p)') = One(Entering(p)) /\ count[p] = pCount[p]
    BY <1>1, <1>10, <2>1 DEF One, EndsWithLast
  <2> QED
    BY <1>1, <1>2, <1>5, <1>7, <1>8, <1>9, <1>10, <2>2, AccountParts, AccountPartsNext
<1>11. ASSUME Moved(key, start),
              One(Entering(p)') <= One(Entering(p)) + One(key = p),
              lost' = {} => One(Entering(p)') = One(Entering(p)) + One(key = p),
              lost' = {} => lost = {}
       PROVE  /\ lost' = {} => lost = {} /\ Accounted(p)' >= Accounted(p)
              /\ list_index' <= ListSize => list_index <= ListSize /\ Accounted(p)' <= Accounted(p)
  BY <1>1, <1>2, <1>5, <1>7, <1>8, <1>9, <1>11, AccountParts, AccountPartsNext
<1>12. ASSUME NEW k \in Points, Signal(k), process[k] = 0
       PROVE  /\ One(Entering(p)') <= One(Entering(p)) + One(k = p)
              /\ lost' = {} => One(Entering(p)') = One(Entering(p)) + One(k = p)
  <2>1. ThreadsOK /\ BlockedWait
    BY <1>1 DEF IInv
  <2>2. \A q \in Points : pc'[q] = pc[q] /\ process'[q] = process[q]
    BY <1>3
  <2> QED
    BY <1>12, <2>1, <2>2, SignalEntering
<1>13. CASE RestoredWhere = 0 /\ Moved(key, start) /\ SignalPoint(key)
  <2>1. CASE key \in Points
    <3>1. process[key] = 0 /\ Signal(key)
      <4>1. Inside = {}
        BY <1>4, <1>13 DEF Points
      <4> QED
        BY <1>1, <1>13, <2>1, <4>1 DEF Inside, SignalPoint, DataOK
    <3>2. /\ One(Entering(p)') <= One(Entering(p)) + One(key = p)
          /\ lost' = {} => One(Entering(p)') = One(Entering(p)) + One(key = p)
      BY <2>1, <3>1, <1>12
    <3> QED
      BY <1>11, <1>13, <3>1, <3>2 DEF Signal
  <2>2. CASE key \notin Points
    <3>1. UNCHANGED <<blocked, lost>> /\ One(key = p) = 0
      BY <1>13, <2>2 DEF SignalPoint, One
    <3>2. Entering(p)' <=> Entering(p)
      BY <1>3, <3>1 DEF Entering, Woken
    <3>3. One(Entering(p)') = One(Entering(p)) /\ One(Entering(p)) \in {0, 1}
      BY <3>2 DEF One
    <3> QED
      BY <1>11, <1>13, <3>1, <3>3
  <2> QED
    BY <2>1, <2>2
<1>14. CASE RestoredWhere \in Points /\ key = Opposite(RestoredWhere) /\ Moved(key, start) /\ Signal(key)
  <2>1. key \in Points /\ process[key] = 0
    BY <1>1, <1>4, <1>14, OppositePoint DEF Inside, DataOK
  <2>2. /\ One(Entering(p)') <= One(Entering(p)) + One(key = p)
        /\ lost' = {} => One(Entering(p)') = One(Entering(p)) + One(key = p)
    BY <1>14, <2>1, <1>12
  <2> QED
    BY <1>11, <1>14, <2>2 DEF Signal
<1>15. CASE /\ RestoredWhere \in Points
            /\ Number(waiting_list', p) = Number(waiting_list, p) + One(start = p)
            /\ Signal(RestoredWhere)
  <2>1. process[RestoredWhere] = 1
    BY <1>4, <1>15 DEF Inside
  <2>2. Entering(p)' <=> Entering(p)
    BY <1>3, <1>15, <2>1 DEF Entering, Woken, Signal
  <2>3. One(Entering(p)') = One(Entering(p)) /\ (lost' = {} => lost = {})
    BY <1>15, <2>2 DEF One, Signal
  <2> QED
    BY <1>1, <1>2, <1>5, <1>7, <1>8, <1>9, <1>15, <2>3, AccountParts, AccountPartsNext
<1> QED
  BY <1>6, <1>10, <1>13, <1>14, <1>15

\* A vehicle that enters or leaves is counted where it is.
LEMMA JobAccount ==
    ASSUME IInv, NEW k \in Points, Job(k), NEW p \in Points
    PROVE  Accounted(p)' = Accounted(p)
<1>1. DataOK /\ DataOK' /\ ThreadsOK
  BY DataStep DEF IInv, TypeOK, Next, JobNext
<1>2. /\ Woken(k) /\ Move(k) /\ Report(k)
      /\ UNCHANGED <<start_point_list, list_index, waiting_list>>
  BY DEF Job, Woken
<1>3. /\ \A q \in Points \ {k} : pc'[q] = pc[q] /\ (q \in blocked' <=> q \in blocked)
      /\ pc'[k] \in {"done", "block"}
  BY <1>1, <1>2 DEF Report, Signal, ThreadsOK, Threads, Points, Job0
<1>4. \A q \in Points \ {k} : process'[q] = process[q] /\ count'[q] = count[q]
  BY <1>1, <1>2 DEF Move, DataOK
<1>5. CASE p # k
  <2>1. Entering(p)' <=> Entering(p)
    BY <1>3, <1>4, <1>5 DEF Entering, Woken
  <2>2. One(Entering(p)') = One(Entering(p))
    BY <2>1 DEF One
  <2> QED
    BY <1>1, <1>2, <1>4, <1>5, <2>2, AccountParts, AccountPartsNext
<1>6. CASE p = k
  <2>1. One(Entering(k)') = 0
    BY <1>3 DEF One, Entering, Woken
  <2>2. CASE process[k] = 0
    <3>1. One(Entering(k)) = 1 /\ process'[k] = 1 /\ count'[k] = count[k]
      BY <1>1, <1>2, <2>2 DEF One, Entering, Move, DataOK
    <3> QED
      BY <1>1, <1>2, <1>6, <2>1, <2>2, <3>1, AccountParts, AccountPartsNext
  <2>3. CASE process[k] # 0
    <3>1. One(Entering(k)) = 0 /\ process[k] = 1 /\ process'[k] = 0 /\ count'[k] = count[k] + 1
      BY <1>1, <1>2, <2>3 DEF One, Entering, Move, DataOK
    <3> QED
      BY <1>1, <1>2, <1>6, <2>1, <3>1, AccountParts, AccountPartsNext
  <2> QED
    BY <2>2, <2>3
<1> QED
  BY <1>5, <1>6
LEMMA AccountsStep == IInv /\ CountInv /\ [Next]_vars => Accounts'
<1> SUFFICES ASSUME IInv, CountInv, [Next]_vars, NEW p \in Points
             PROVE  /\ lost' = {} /\ Alive' => Accounted(p)' >= pCount'[p]
                    /\ list_index' <= ListSize => Accounted(p)' <= pCount'[p]
  BY DEF Accounts
<1>0. /\ DataOK /\ DataOK' /\ ThreadsOK /\ NotBegun
      /\ lost = {} /\ Alive => Accounted(p) >= pCount[p]
      /\ list_index <= ListSize => Accounted(p) <= pCount[p]
  BY DataStep DEF IInv, TypeOK, CountInv, Accounts
<1>1. /\ Accounted(p) \in Nat /\ Accounted(p)' \in Nat /\ pCount[p] \in Nat /\ pCount'[p] \in Nat
  BY <1>0, AccountParts, AccountPartsNext
<1>2. CASE create_random_list
  BY <1>0, <1>1, <1>2, DrawnAccount
<1>3. CASE SignalFirst
  <2>1. list_index = 0 /\ pCount' = pCount /\ Alive
    BY <1>0, <1>3 DEF SignalFirst, NotBegun, Alive
  <2>2. list_index <= ListSize
    BY <2>1, SizeAssumption
  <2> QED
    BY <1>0, <1>1, <1>3, <2>1, <2>2, SignalFirstAccount
<1>4. CASE Dispatch
  <2>1. pCount' = pCount /\ Alive
    BY <1>4 DEF Dispatch
  <2> QED
    BY <1>0, <1>1, <1>4, <2>1, DispatchAccount
<1>5. ASSUME NEW k \in Points, Job(k)
      PROVE  /\ lost' = {} /\ Alive' => Accounted(p)' >= pCount'[p]
             /\ list_index' <= ListSize => Accounted(p)' <= pCount'[p]
  <2>1. pCount' = pCount /\ list_index' = list_index /\ Alive /\ (lost' = {} => lost = {})
    BY <1>5 DEF Job, Report, Signal
  <2> QED
    BY <1>0, <1>1, <1>5, <2>1, JobAccount
<1>6. CASE ~create_random_list /\ ~SignalFirst /\ ~Dispatch /\ \A k \in Points : ~Job(k)
  <2>1. /\ UNCHANGED <<start_point_list, list_index, waiting_list, pCount, count, process>>
        /\ Entering(p)' <=> Entering(p)
        /\ lost' = {} => lost = {}
        /\ Alive' => Alive
    BY <1>6, OtherSteps
  <2>2. One(Entering(p)') = One(Entering(p))
    BY <2>1 DEF One
  <2>3. Accounted(p)' = Accounted(p)
    BY <1>0, <2>1, <2>2, AccountParts, AccountPartsNext
  <2> QED
    BY <1>0, <2>1, <2>3
<1> QED
  BY <1>2, <1>3, <1>4, <1>5, <1>6

LEMMA CountStep == IInv /\ CountInv /\ [Next]_vars => CountInv'
  BY WaitingStep, NotBegunStep, EndsStep, AccountsStep DEF CountInv

LEMMA CountInit == Init => CountInv
<1> SUFFICES ASSUME Init PROVE CountInv
  OBVIOUS
<1>1. DataOK
  BY TypeInit DEF TypeOK
<1>2. WaitingOK /\ NotBegun
  BY DEF Init, WaitingOK, NotBegun
<1>3. EndsWithLast
  BY DEF Init, EndsWithLast, Threads, Points, Main
<1>4. ASSUME NEW p \in Points PROVE Accounted(p) = 0 /\ pCount[p] = 0
  <2>1. InLine(waiting_list, p) = {} /\ ToCome(start_point_list, list_index, p) = {}
    BY DEF Init, InLine, ToCome, Points
  <2>2. Number(waiting_list, p) = 0 /\ Left(start_point_list, list_index, p) = 0
    BY <2>1, FS_EmptySet DEF Number, Left
  <2>3. One(Entering(p)) = 0
    BY DEF Init, One, Entering, Woken, Threads, Points, Main
  <2>4. count[p] = 0 /\ process[p] = 0 /\ pCount[p] = 0
    BY DEF Init
  <2> QED
    BY <1>1, <2>2, <2>3, <2>4, AccountParts
<1>5. Accounts
  BY <1>4 DEF Accounts
<1> QED
  BY <1>2, <1>3, <1>5 DEF CountInv

\* program.c: every vehicle of the drawn list is in the list, waits, is
\* inside or has passed, for lists of every length and every interleaving in which no signal
\* is forgotten; and even when one is, what main prints at the end is complete.
THEOREM NoVehicleLostCorrect == Spec => []NoVehicleLostOrInvented
<1>1. IInv /\ CountInv => NoVehicleLostOrInvented
  <2> SUFFICES ASSUME IInv, CountInv PROVE NoVehicleLostOrInvented
    OBVIOUS
  <2>1. DataOK /\ WaitingOK /\ EndsWithLast /\ Accounts
    BY DEF IInv, TypeOK, CountInv
  <2>2. \A p \in Points : Accounted(p) \in Nat /\ pCount[p] \in Nat
    BY <2>1, AccountParts
  <2>3. lost = {} /\ Alive =>
           \A p \in Points : Accounted(p) >= pCount[p]
                             /\ (list_index <= ListSize => Accounted(p) = pCount[p])
    BY <2>1, <2>2 DEF Accounts
  <2>4. ASSUME pc[Main] = "done"
        PROVE  /\ count = pCount
               /\ Inside = {}
               /\ list_index <= ListSize => \A i \in DOMAIN waiting_list : waiting_list[i] = 0
    <3>1. \A p \in Points : count[p] = pCount[p] /\ process[p] = 0
      BY <2>1, <2>4 DEF EndsWithLast
    <3>2. count = pCount /\ Inside = {}
      BY <2>1, <3>1 DEF DataOK, Inside
    <3>3. ASSUME list_index <= ListSize, NEW i \in DOMAIN waiting_list PROVE waiting_list[i] = 0
      <4>1. SUFFICES ASSUME waiting_list[i] \in Points PROVE FALSE
        BY <2>1, <3>3 DEF WaitingOK
      <4>2. PICK p \in Points : p = waiting_list[i]
        BY <4>1
      <4>3. Number(waiting_list, p) = 0
        BY <2>1, <3>1, <3>3, AccountParts DEF Accounts
      <4>4. InLine(waiting_list, p) = {}
        <5>1. IsFiniteSet(InLine(waiting_list, p))
          BY <2>1, PlacesFinite, SizeAssumption DEF InLine, DataOK
        <5> QED
          BY <4>3, <5>1, FS_EmptySet DEF Number
      <4> QED
        BY <4>2, <4>4 DEF InLine
    <3> QED
      BY <3>2, <3>3
  <2> QED
    BY <2>3, <2>4 DEF NoVehicleLostOrInvented
<1> QED
  BY <1>1, CountInit, CountStep, BatonInvariant, PTL DEF Spec
=================================================================================
