----------------------------- MODULE ProcListProofs -----------------------------
(***************************************************************************)
(* The list mytop shows is a snapshot, for every number of processes, every *)
(* buffer size and however processes come and go during the scan; and       *)
(* SortProc is a correct sort for lists of every length: the pointers stay  *)
(* a permutation and the list ends in the order the mode asks for.          *)
(***************************************************************************)
EXTENDS ProcScan, SortProc, FiniteSetTheorems, TLAPS

--------------------------------------------------------------------------------
(* The scan *)

InScan == phase \in {"first", "scan"}

\* The pids a scan still holds, in readdir's buffer or being read, are real ones.
HeldSeen ==
    /\ steady \subseteq alive /\ alive \subseteq seen
    /\ buffer \subseteq seen /\ Listed \subseteq seen
    /\ entry # 0 => entry \in seen

\* The scan goes through the pids in order: what is on the list is not behind the
\* position, what is in the buffer is ahead of it, and the entry being read is at it.
Progress ==
    /\ \A p \in Listed : p <= position
    /\ \A p \in buffer : p > position
    /\ entry # 0 => entry = position /\ entry \notin Listed
    /\ phase = "idle" => entry = 0

\* A process that has been there all the time is on the list, or the scan is going to
\* come to it.
Covered ==
    InScan => \A p \in steady :
        p \in Listed \cup buffer \cup {entry} \/ (p > position /\ \A q \in buffer : p > q)

\* No pid is on the list twice.
Once ==
    \A m, n \in DOMAIN procList : procList[m].pid = procList[n].pid => m = n

RecordOK ==
    record # None => entry # 0 /\ record.pid = entry /\ cpuTimeTable[entry] = record.runtime

\* The inductive invariant.
ScanInv ==
    /\ TypeOK /\ HeldSeen /\ Progress /\ Covered /\ Once
    /\ phase = "idle" => steady \subseteq Listed
    /\ RecordOK /\ TableMatchesList

LEMMA ListedPids == ASSUME TypeOK PROVE Listed \subseteq Pids
<1>1. \A n \in DOMAIN procList : procList[n] \in Records
  BY DEF TypeOK
<1>2. \A r \in Records : r.pid \in Pids
  BY DEF Records
<1> QED
  BY <1>1, <1>2 DEF Listed

LEMMA PidNumbers == \A p \in Pids : p \in Nat /\ p # 0
  BY PidAssumption

\* %CPU is between 0 and 100.
LEMMA PercentType ==
    ASSUME NEW spent \in Int, NEW interval \in Int
    PROVE  Percent(spent, interval) \in 0..100
<1>1. CASE interval > 0 /\ spent >= 0 /\ spent <= interval
  <2>1. spent * 100 >= 0 /\ spent * 100 <= interval * 100
    BY <1>1
  <2>2. (spent * 100) \div interval \in Int
    BY <1>1
  <2>3. (spent * 100) \div interval >= 0
    BY <1>1, <2>1
  <2>4. (spent * 100) \div interval <= 100
    BY <1>1, <2>1
  <2> QED
    BY <1>1, <2>2, <2>3, <2>4 DEF Percent
<1>2. CASE ~(interval > 0 /\ spent >= 0 /\ spent <= interval)
  BY <1>2 DEF Percent
<1> QED
  BY <1>1, <1>2

LEMMA FilledType ==
    ASSUME TypeOK, NEW p \in Pids
    PROVE  Filled(p) \in Records /\ Filled(p).pid = p /\ Filled(p).runtime = used[p]
<1>1. /\ used[p] \in Nat /\ started[p] \in Nat
      /\ cpuTimeTable[p] \in Nat /\ uptime \in Nat /\ now \in Nat /\ before \in Nat
  BY DEF TypeOK
<1>2. /\ Percent(used[p], uptime - started[p]) \in 0..100
      /\ Percent(used[p] - cpuTimeTable[p], now - before) \in 0..100
  <2>1. /\ used[p] \in Int /\ uptime - started[p] \in Int
        /\ used[p] - cpuTimeTable[p] \in Int /\ now - before \in Int
    BY <1>1
  <2> QED
    BY <2>1, PercentType
<1> QED
  BY <1>1, <1>2 DEF Filled, Records
--------------------------------------------------------------------------------
LEMMA ScanInit == Init => ScanInv
<1> SUFFICES ASSUME Init PROVE ScanInv
  OBVIOUS
<1>1. TypeOK
  <2>1. used \in [Pids -> Nat]
    BY DEF Init
  <2>2. procList \in Seq(Records)
    BY DEF Init
  <2>3. /\ life \in [Pids -> Nat] /\ started \in [Pids -> Nat]
        /\ cpuTimeTable \in [Pids -> Nat]
    BY DEF Init
  <2> QED
    BY <2>1, <2>2, <2>3 DEF Init, TypeOK
<1>2. DOMAIN procList = {} /\ Listed = {}
  BY DEF Init, Listed
<1> QED
  BY <1>1, <1>2, PidNumbers
  DEF Init, ScanInv, HeldSeen, Progress, Covered, Once, RecordOK, TableMatchesList, InScan

\* What the scan has done does not depend on the system; the system only lets go of
\* steady processes and adds seen ones.
LEMMA SystemStep ==
    ASSUME ScanInv, TypeOK',
           UNCHANGED <<phase, position, buffer, entry, record, cpuTimeTable, procList>>,
           steady' \subseteq steady, seen \subseteq seen',
           steady' \subseteq alive', alive' \subseteq seen'
    PROVE  ScanInv'
<1>1. Listed' = Listed
  BY DEF Listed
<1> QED
  BY <1>1 DEF ScanInv, HeldSeen, Progress, Covered, Once, RecordOK, TableMatchesList, InScan

LEMMA SystemNext ==
    ScanInv /\ (Tick \/ (\E p \in Pids : Spawn(p) \/ End(p)) \/ UNCHANGED vars) => ScanInv'
<1> SUFFICES ASSUME ScanInv,
                    Tick \/ (\E p \in Pids : Spawn(p) \/ End(p)) \/ UNCHANGED vars
             PROVE  ScanInv'
  OBVIOUS
<1>1. TypeOK /\ HeldSeen
  BY DEF ScanInv
<1>2. CASE Tick
  <2>1. PICK running \in SUBSET alive :
          used' = [p \in Pids |-> IF p \in running THEN used[p] + 1 ELSE used[p]]
    BY <1>2 DEF Tick
  <2>2. used' \in [Pids -> Nat] /\ clock' \in Nat
    BY <1>1, <1>2, <2>1 DEF TypeOK, Tick
  <2>3. TypeOK'
    BY <1>1, <1>2, <2>2 DEF TypeOK, Tick, mytop, times
  <2> QED
    BY <1>1, <1>2, <2>3, SystemStep DEF Tick, mytop, HeldSeen
<1>3. CASE \E p \in Pids : Spawn(p)
  <2>1. PICK p \in Pids : Spawn(p)
    BY <1>3
  <2>2. /\ life' \in [Pids -> Nat] /\ used' \in [Pids -> Nat] /\ started' \in [Pids -> Nat]
        /\ alive' \subseteq Pids /\ seen' \subseteq Pids
    BY <1>1, <2>1 DEF TypeOK, Spawn
  <2>3. TypeOK'
    BY <1>1, <2>1, <2>2 DEF TypeOK, Spawn, mytop, times
  <2> QED
    BY <1>1, <2>1, <2>3, SystemStep DEF Spawn, mytop, HeldSeen
<1>4. CASE \E p \in Pids : End(p)
  <2>1. PICK p \in Pids : End(p)
    BY <1>4
  <2>2. TypeOK'
    BY <1>1, <2>1 DEF TypeOK, End, mytop, times
  <2> QED
    BY <1>1, <2>1, <2>2, SystemStep DEF End, mytop, HeldSeen
<1>5. CASE UNCHANGED vars
  <2>1. TypeOK'
    BY <1>1, <1>5 DEF TypeOK, vars, system, times
  <2> QED
    BY <1>1, <1>5, <2>1, SystemStep DEF vars, system, HeldSeen
<1> QED
  BY <1>2, <1>3, <1>4, <1>5
--------------------------------------------------------------------------------
LEMMA BeginStep == ScanInv /\ BeginScan => ScanInv'
<1> SUFFICES ASSUME ScanInv, BeginScan PROVE ScanInv'
  OBVIOUS
<1>1. TypeOK'
  <2>1. procList' \in Seq(Records)
    BY DEF BeginScan, EraseProcessList
  <2> QED
    BY <2>1 DEF ScanInv, TypeOK, BeginScan, system
<1>2. DOMAIN procList' = {} /\ Listed' = {}
  BY DEF BeginScan, EraseProcessList, Listed
<1>3. entry = 0 /\ entry' = 0 /\ record' = record /\ record = None
  BY DEF ScanInv, Progress, RecordOK, BeginScan
<1>4. HeldSeen' /\ Progress'
  BY <1>2, <1>3 DEF BeginScan, HeldSeen, Progress, system
<1>5. Covered'
  BY <1>1, PidNumbers DEF BeginScan, Covered, system, TypeOK
<1> QED
  BY <1>1, <1>2, <1>3, <1>4, <1>5
  DEF ScanInv, BeginScan, Once, RecordOK, TableMatchesList

\* readdir keeps the processes it does not take ahead of those it takes.
LEMMA ReaddirStep == ScanInv /\ Readdir => ScanInv'
<1> SUFFICES ASSUME ScanInv, Readdir PROVE ScanInv'
  OBVIOUS
<1> DEFINE Lower(p) == {q \in Ahead : q < p}
<1>1. Ahead \subseteq Pids /\ IsFiniteSet(Ahead)
  BY PidAssumption, FS_Subset DEF ScanInv, TypeOK, Ahead
<1>2. \A p, q \in Ahead : p < q => Cardinality(Lower(p)) <= Cardinality(Lower(q))
  <2> SUFFICES ASSUME NEW p \in Ahead, NEW q \in Ahead, p < q
               PROVE  Cardinality(Lower(p)) <= Cardinality(Lower(q))
    OBVIOUS
  <2>1. Lower(p) \subseteq Lower(q)
    BY <1>1, PidNumbers
  <2>2. IsFiniteSet(Lower(q))
    BY <1>1, FS_Subset
  <2> QED
    BY <2>1, <2>2, FS_Subset
<1>3. \A p \in Ahead : Cardinality(Lower(p)) \in Nat
  BY <1>1, FS_Subset, FS_CardinalityType
<1>4. /\ buffer = {} /\ InScan /\ entry = 0
      /\ buffer' = {p \in Ahead : Cardinality(Lower(p)) < BufSize}
  BY DEF Readdir, Scanning, InScan
<1>5. \A p \in Ahead : p \in buffer' \/ \A q \in buffer' : p > q
  <2> SUFFICES ASSUME NEW p \in Ahead, p \notin buffer', NEW q \in buffer'
               PROVE  p > q
    OBVIOUS
  <2>1. q \in Ahead /\ Cardinality(Lower(q)) < BufSize /\ ~(Cardinality(Lower(p)) < BufSize)
    BY <1>4
  <2>2. p \in Nat /\ q \in Nat /\ p # q
    BY <1>1, <2>1, PidNumbers
  <2>3. ~(p < q)
    BY SMTT(30), <1>2, <1>3, <2>1, BufAssumption
  <2> QED
    BY <2>2, <2>3
<1> HIDE DEF Lower
<1>6. TypeOK'
  BY <1>1, <1>4 DEF ScanInv, TypeOK, Readdir, system, times
<1>7. Listed' = Listed
  BY DEF Listed, Readdir
<1>8. buffer' \subseteq alive /\ \A p \in buffer' : p > position
  BY <1>4 DEF Ahead
<1>9. HeldSeen'
  BY <1>7, <1>8 DEF ScanInv, HeldSeen, Readdir, system
<1>10. Progress'
  BY <1>7, <1>8 DEF ScanInv, Progress, Readdir
<1>11. Covered'
  <2> SUFFICES ASSUME NEW p \in steady
               PROVE  \/ p \in Listed \cup buffer' \cup {entry}
                      \/ p > position /\ \A q \in buffer' : p > q
    BY <1>7 DEF Covered, Readdir, InScan
  <2>1. p \in Listed \cup {entry} \/ p > position
    BY <1>4 DEF ScanInv, Covered
  <2>2. p \in alive
    BY DEF ScanInv, HeldSeen
  <2> QED
    BY <1>5, <2>1, <2>2 DEF Ahead
<1> QED
  BY <1>6, <1>7, <1>9, <1>10, <1>11
  DEF ScanInv, Readdir, Once, RecordOK, TableMatchesList

LEMMA StatStep == ScanInv /\ Stat => ScanInv'
<1> SUFFICES ASSUME ScanInv, Stat PROVE ScanInv'
  OBVIOUS
<1>1. PICK p \in buffer :
        /\ \A q \in buffer : p <= q
        /\ position' = p
        /\ buffer' = buffer \ {p}
        /\ IF p \in alive
           THEN entry' = p /\ UNCHANGED phase
           ELSE phase' = "exit" /\ UNCHANGED entry
  BY DEF Stat
<1>2. /\ entry = 0 /\ InScan /\ record' = record /\ procList' = procList
      /\ cpuTimeTable' = cpuTimeTable /\ steady' = steady /\ seen' = seen /\ alive' = alive
  BY DEF Stat, Scanning, InScan, system
<1>3. record = None
  BY <1>2 DEF ScanInv, RecordOK
<1>4. Listed' = Listed
  BY <1>2 DEF Listed
<1>5. p \in Nat /\ p # 0 /\ p \in Pids /\ p \in seen /\ p > position /\ position \in Nat
      /\ \A q \in buffer : q \in Nat
  BY PidNumbers DEF ScanInv, TypeOK, HeldSeen, Progress
<1>6. Listed \subseteq Nat
  <2>1. Listed \subseteq Pids
    BY ListedPids DEF ScanInv
  <2> QED
    BY <2>1, PidNumbers
<1>7. TypeOK'
  BY <1>1, <1>2, <1>5 DEF ScanInv, TypeOK, Stat, system, times
<1>8. HeldSeen'
  BY <1>1, <1>2, <1>4, <1>5 DEF ScanInv, HeldSeen
<1>9. \A q \in Listed : q <= p /\ q # p
  BY <1>5, <1>6 DEF ScanInv, Progress
<1>10. Progress'
  <2>1. \A q \in buffer' : q > p
    BY <1>1, <1>5
  <2>2. phase' # "idle"
    BY <1>1, <1>2 DEF InScan
  <2>3. entry' = 0 \/ entry' = p
    BY <1>1, <1>2
  <2> QED
    BY <1>1, <1>4, <1>9, <2>1, <2>2, <2>3 DEF Progress
<1>11. Covered'
  <2> SUFFICES ASSUME p \in alive, NEW s \in steady
               PROVE  \/ s \in Listed \cup buffer' \cup {p}
                      \/ s > p /\ \A q \in buffer' : s > q
    BY <1>1, <1>2, <1>4 DEF Covered, InScan
  <2>1. s \in Listed \cup buffer \cup {entry} \/ (s > position /\ \A q \in buffer : s > q)
    BY <1>2 DEF ScanInv, Covered
  <2>2. s # 0
    BY PidNumbers DEF ScanInv, TypeOK
  <2> QED
    BY <1>1, <1>2, <2>1, <2>2
<1>12. phase' # "idle"
  BY <1>1, <1>2 DEF InScan
<1> QED
  BY <1>2, <1>3, <1>7, <1>8, <1>10, <1>11, <1>12
  DEF ScanInv, Once, RecordOK, TableMatchesList

\* At the end of the directory every steady process has been added.
LEMMA EndStep == ScanInv /\ EndScan => ScanInv'
<1> SUFFICES ASSUME ScanInv, EndScan PROVE ScanInv'
  OBVIOUS
<1>1. TypeOK'
  BY DEF ScanInv, TypeOK, EndScan, system
<1>2. Listed' = Listed
  BY DEF Listed, EndScan
<1>3. steady \subseteq Listed
  <2> SUFFICES ASSUME NEW p \in steady PROVE p \in Listed
    OBVIOUS
  <2>1. entry = 0 /\ buffer = {} /\ InScan /\ ~(p > position) /\ p # 0
    BY PidNumbers DEF ScanInv, TypeOK, HeldSeen, EndScan, Scanning, InScan, Ahead
  <2> QED
    BY <2>1 DEF ScanInv, Covered
<1>4. HeldSeen' /\ Progress'
  BY <1>2 DEF ScanInv, HeldSeen, Progress, EndScan, Scanning, system
<1>5. Covered'
  BY DEF Covered, EndScan, InScan
<1> QED
  BY <1>1, <1>2, <1>3, <1>4, <1>5
  DEF ScanInv, EndScan, Once, RecordOK, TableMatchesList
--------------------------------------------------------------------------------
LEMMA ReadStatStep == ScanInv /\ ReadStat => ScanInv'
<1> SUFFICES ASSUME ScanInv, ReadStat PROVE ScanInv'
  OBVIOUS
<1>1. entry \in Pids /\ entry' = entry /\ entry # 0 /\ TypeOK
  BY DEF ScanInv, TypeOK, ReadStat
<1>2. record' \in Records /\ record'.pid = entry /\ record'.runtime = used[entry]
  BY <1>1, FilledType DEF ReadStat
<1>3. /\ cpuTimeTable' \in [Pids -> Nat]
      /\ cpuTimeTable'[entry] = used[entry]
      /\ \A p \in Pids : p # entry => cpuTimeTable'[p] = cpuTimeTable[p]
  BY <1>1 DEF TypeOK, ReadStat
<1>4. TypeOK'
  BY <1>1, <1>2, <1>3 DEF TypeOK, ReadStat, system, times
<1>5. Listed' = Listed /\ procList' = procList
  BY DEF Listed, ReadStat
<1>6. HeldSeen' /\ Progress' /\ Covered'
  BY <1>5 DEF ScanInv, HeldSeen, Progress, Covered, InScan, ReadStat, system
<1>7. RecordOK'
  BY <1>1, <1>2, <1>3 DEF RecordOK
<1>8. TableMatchesList'
  <2> SUFFICES ASSUME NEW n \in DOMAIN procList
               PROVE  cpuTimeTable'[procList[n].pid] = procList[n].runtime
    BY <1>5 DEF TableMatchesList
  <2>1. procList[n].pid \in Listed /\ procList[n].pid \in Pids
    BY <1>1, ListedPids DEF Listed
  <2>2. procList[n].pid # entry
    BY <1>1, <2>1 DEF ScanInv, Progress
  <2> QED
    BY <1>3, <2>1, <2>2 DEF ScanInv, TableMatchesList
<1> QED
  BY <1>4, <1>5, <1>6, <1>7, <1>8 DEF ScanInv, Once, ReadStat

LEMMA AddStep == ScanInv /\ AddRecord => ScanInv'
<1> SUFFICES ASSUME ScanInv, AddRecord PROVE ScanInv'
  OBVIOUS
<1>1. /\ TypeOK /\ record \in Records /\ record.pid = entry /\ entry # 0
      /\ cpuTimeTable[entry] = record.runtime /\ entry = position /\ entry \notin Listed
      /\ entry' = 0 /\ record' = None /\ procList' = Append(procList, record)
      /\ entry \in seen
  BY DEF ScanInv, TypeOK, RecordOK, Progress, HeldSeen, AddRecord
<1>2. /\ procList \in Seq(Records) /\ Len(procList) \in Nat
      /\ DOMAIN procList = 1..Len(procList)
      /\ procList' \in Seq(Records) /\ DOMAIN procList' = 1..(Len(procList) + 1)
      /\ \A n \in 1..Len(procList) : procList'[n] = procList[n]
      /\ procList'[Len(procList) + 1] = record
  BY <1>1 DEF TypeOK
<1>3. \A n \in DOMAIN procList' : n \in DOMAIN procList \/ n = Len(procList) + 1
  BY <1>2
<1>4. Listed' = Listed \cup {entry}
  <2>1. Listed' \subseteq Listed \cup {entry}
    BY <1>1, <1>2, <1>3 DEF Listed
  <2>2. \A n \in DOMAIN procList : n \in DOMAIN procList'
    BY <1>2
  <2>3. Len(procList) + 1 \in DOMAIN procList'
    BY <1>2
  <2>4. Listed \cup {entry} \subseteq Listed'
    BY <1>1, <1>2, <2>2, <2>3 DEF Listed
  <2> QED
    BY <2>1, <2>4
<1>5. TypeOK'
  BY <1>1, <1>2 DEF TypeOK, AddRecord, system, times
<1>6. HeldSeen'
  BY <1>1, <1>4 DEF ScanInv, HeldSeen, AddRecord, system
<1>7. Progress'
  BY <1>1, <1>4, PidNumbers DEF ScanInv, Progress, AddRecord, TypeOK
<1>8. Covered'
  <2>1. phase' = phase /\ buffer' = buffer /\ position' = position /\ steady' = steady
    BY DEF AddRecord
  <2> QED
    BY <1>4, <2>1 DEF ScanInv, Covered, InScan
<1>9. Once'
  <2>1. \A n \in DOMAIN procList : procList[n].pid # entry
    BY <1>1 DEF Listed
  <2> QED
    BY <1>1, <1>2, <1>3, <2>1 DEF ScanInv, Once
<1>10. RecordOK'
  BY <1>1 DEF RecordOK
<1>11. TableMatchesList'
  <2>1. cpuTimeTable' = cpuTimeTable
    BY DEF AddRecord
  <2> QED
    BY <1>1, <1>2, <1>3, <2>1 DEF ScanInv, TableMatchesList
<1>12. phase' = "idle" => steady' \subseteq Listed'
  BY <1>4 DEF ScanInv, AddRecord
<1> QED
  BY <1>5, <1>6, <1>7, <1>8, <1>9, <1>10, <1>11, <1>12 DEF ScanInv

\* A process that is given up was not there all the time.
LEMMA VanishedStep == ScanInv /\ Vanished => ScanInv'
<1> SUFFICES ASSUME ScanInv, Vanished PROVE ScanInv'
  OBVIOUS
<1>1. TypeOK'
  BY DEF ScanInv, TypeOK, Vanished, system, times
<1>2. Listed' = Listed
  BY DEF Listed, Vanished
<1>3. entry \notin steady
  BY DEF ScanInv, HeldSeen, Vanished
<1>4. HeldSeen' /\ Progress' /\ Covered'
  BY <1>2, <1>3 DEF ScanInv, HeldSeen, Progress, Covered, InScan, Vanished, system
<1> QED
  BY <1>1, <1>2, <1>4 DEF ScanInv, Once, RecordOK, TableMatchesList, Vanished

LEMMA ScanNext == ScanInv /\ [Next]_vars => ScanInv'
  BY SystemNext, BeginStep, ReaddirStep, StatStep, EndStep, ReadStatStep, AddStep,
     VanishedStep DEF Next

\* The invariant of a scan holds however processes come and go.
THEOREM ScanInvariant == Spec => []ScanInv
  BY ScanInit, ScanNext, PTL DEF Spec

\* Every variable keeps its range; %CPU is between 0 and 100.
THEOREM ScanTypeCorrect == Spec => []TypeOK
<1>1. ScanInv => TypeOK
  BY DEF ScanInv
<1> QED
  BY <1>1, ScanInvariant, PTL

\* The list that is shown misses no process that was there during the whole scan,
\* invents none and shows none twice.
THEOREM SnapshotCorrect == Spec => []SnapshotComplete
<1>1. ScanInv => SnapshotComplete
  BY DEF ScanInv, HeldSeen, Once, SnapshotComplete
<1> QED
  BY <1>1, ScanInvariant, PTL

\* The table %CPU is computed from agrees with the list.
THEOREM TableCorrect == Spec => []TableMatchesList
<1>1. ScanInv => TableMatchesList
  BY DEF ScanInv
<1> QED
  BY <1>1, ScanInvariant, PTL
--------------------------------------------------------------------------------
(* The sort *)

Greater(k, l) == isGreater(At(k), At(l))

\* Nothing in front of a pointer the outer loop has passed is greater than it.
TailInPlace ==
    \A k, l \in Indexes : k < l /\ l > i => ~Greater(k, l)

\* The inner loop carries the greatest process of those it has seen.
CarriesGreatest ==
    \A k \in Indexes : k < j /\ j \in Indexes => ~Greater(k, j)

\* The inductive invariant of the two loops.
SInv ==
    /\ SortTypeOK
    /\ NoProcessLost
    /\ sortPhase # "copy" => TailInPlace
    /\ sortPhase = "sort" => CarriesGreatest /\ (j <= i \/ i <= 0)
    /\ sortPhase = "done" => i <= 0

\* Two processes of the list with different indexes have different pids, and their
\* values are numbers.
LEMMA AtType ==
    ASSUME SortTypeOK, NEW k \in Indexes
    PROVE  At(k) \in Procs
  BY DEF SortTypeOK, At

LEMMA AtDistinct ==
    ASSUME SortTypeOK, NoProcessLost, NEW k \in Indexes, NEW l \in Indexes, k # l
    PROVE  At(k).pid # At(l).pid
  BY DEF SortTypeOK, NoProcessLost, At

\* The fields of a process are numbers.
LEMMA Fields ==
    ASSUME NEW a \in Procs
    PROVE  /\ a.pid \in Int
           /\ a.cpu \in Int /\ a.mem \in Int /\ a.rss \in Int /\ a.runtime \in Int
<1>1. a.cpu \in Values /\ a.mem \in Values /\ a.rss \in Values /\ a.runtime \in Values
      /\ a.pid \in 1..MaxPid
  BY DEF Procs
<1>2. \A v \in Values : v \in Int
  BY ValueAssumption
<1>3. \A n \in 1..MaxPid : n \in Int
  BY CountAssumption
<1> QED
  BY <1>1, <1>2, <1>3

\* isGreater orders processes with different pids: it is asymmetric, ...
LEMMA GreaterAsymmetric ==
    ASSUME sortMode \in Modes, reverseMode \in BOOLEAN,
           NEW a \in Procs, NEW b \in Procs, a.pid # b.pid, isGreater(a, b)
    PROVE  ~isGreater(b, a)
<1>1. /\ a.pid \in Int /\ a.cpu \in Int /\ a.mem \in Int
      /\ a.rss \in Int /\ a.runtime \in Int
  BY Fields
<1>2. /\ b.pid \in Int /\ b.cpu \in Int /\ b.mem \in Int
      /\ b.rss \in Int /\ b.runtime \in Int
  BY Fields
<1> QED
  BY <1>1, <1>2 DEF isGreater, Key, Below, Modes

\* ... and what is not greater is transitive.
LEMMA NotGreaterTransitive ==
    ASSUME sortMode \in Modes, reverseMode \in BOOLEAN,
           NEW a \in Procs, NEW b \in Procs, NEW c \in Procs,
           a.pid # b.pid, b.pid # c.pid, a.pid # c.pid,
           ~isGreater(a, b), ~isGreater(b, c)
    PROVE  ~isGreater(a, c)
<1>1. /\ a.pid \in Int /\ a.cpu \in Int /\ a.mem \in Int
      /\ a.rss \in Int /\ a.runtime \in Int
  BY Fields
<1>2. /\ b.pid \in Int /\ b.cpu \in Int /\ b.mem \in Int
      /\ b.rss \in Int /\ b.runtime \in Int
  BY Fields
<1>3. /\ c.pid \in Int /\ c.cpu \in Int /\ c.mem \in Int
      /\ c.rss \in Int /\ c.runtime \in Int
  BY Fields
<1>4. CASE sortMode = "CPU"
  BY <1>1, <1>2, <1>3, <1>4 DEF isGreater, Key, Below
<1>5. CASE sortMode = "MEM"
  BY <1>1, <1>2, <1>3, <1>5 DEF isGreater, Key, Below
<1>6. CASE sortMode = "TIME"
  BY <1>1, <1>2, <1>3, <1>6 DEF isGreater, Key, Below
<1>7. CASE sortMode = "PID"
  BY <1>1, <1>2, <1>3, <1>7 DEF isGreater, Key, Below
<1> QED
  BY <1>4, <1>5, <1>6, <1>7 DEF Modes
--------------------------------------------------------------------------------
LEMMA SInvInit == SortInit => SInv
<1> SUFFICES ASSUME SortInit PROVE SInv
  OBVIOUS
<1>1. procCnt \in Nat
  BY CountAssumption DEF SortInit
<1>2. SortTypeOK
  <2>1. sorted \in [Indexes -> Indexes]
    BY DEF SortInit
  <2>2. i \in -1..(procCnt - 1) /\ j \in 0..procCnt
    BY <1>1 DEF SortInit
  <2>3. sortMode \in Modes /\ reverseMode \in BOOLEAN /\ sortPhase = "copy"
    BY DEF SortInit, Modes
  <2> QED
    BY <2>1, <2>2, <2>3 DEF SortInit, SortTypeOK
<1>3. NoProcessLost
  BY DEF SortInit, NoProcessLost, Indexes
<1> QED
  BY <1>2, <1>3 DEF SortInit, SInv

\* Setting the pointers to their own indexes loses none.
LEMMA CopyStep == SInv /\ CopyPointers => SInv'
<1> SUFFICES ASSUME SInv, CopyPointers PROVE SInv'
  OBVIOUS
<1>1. procCnt \in Nat /\ procCnt' = procCnt /\ Indexes' = Indexes
  BY CountAssumption DEF SInv, SortTypeOK, CopyPointers, list, Indexes
<1>2. SortTypeOK'
  BY <1>1 DEF SInv, SortTypeOK, CopyPointers, list, modes, Indexes
<1>3. NoProcessLost'
  BY <1>1 DEF CopyPointers, NoProcessLost
<1>4. TailInPlace' /\ CarriesGreatest'
  BY <1>1 DEF CopyPointers, TailInPlace, CarriesGreatest, Indexes
<1>5. j' <= i' \/ i' <= 0
  BY <1>1 DEF CopyPointers
<1> QED
  BY <1>2, <1>3, <1>4, <1>5 DEF SInv, CopyPointers

\* One comparison: the greater of two neighbours is carried on.
LEMMA CompareStep == SInv /\ Compare => SInv'
<1> SUFFICES ASSUME SInv, Compare PROVE SInv'
  OBVIOUS
<1>1. /\ procCnt \in Nat /\ procCnt' = procCnt /\ processes' = processes
      /\ Indexes' = Indexes /\ Indexes = 0..(procCnt - 1)
      /\ sortMode' = sortMode /\ reverseMode' = reverseMode /\ i' = i
      /\ sortMode \in Modes /\ reverseMode \in BOOLEAN
      /\ sortPhase = "sort" /\ sortPhase' = "sort" /\ j' = j + 1
      /\ i \in Int /\ j \in Nat /\ i <= procCnt - 1 /\ j < i /\ i > 0
  BY CountAssumption DEF SInv, SortTypeOK, Compare, list, modes, Indexes
<1>2. j \in Indexes /\ j + 1 \in Indexes /\ j # j + 1
  BY <1>1
<1>3. SortTypeOK /\ NoProcessLost /\ sorted \in [Indexes -> Indexes]
  BY DEF SInv, SortTypeOK
<1>4. TailInPlace /\ CarriesGreatest
  BY <1>1 DEF SInv
<1>5. \A k \in Indexes : At(k) \in Procs
  BY <1>3, AtType
<1>6. \A k, l \in Indexes : k # l => At(k).pid # At(l).pid
  BY <1>3, AtDistinct
<1>7. sorted' \in [Indexes -> Indexes]
  BY <1>2, <1>3 DEF Compare, Swapped
<1>8. SortTypeOK'
  BY <1>1, <1>3, <1>7 DEF SortTypeOK
<1>9. /\ \A x, y : isGreater(x, y)' <=> isGreater(x, y)
  BY <1>1 DEF isGreater, Key, Below
<1> DEFINE New(k) == processes[sorted'[k]]
<1>10. \A k \in Indexes : At(k)' = New(k)
  BY <1>1 DEF At
<1>11. /\ New(j) \in Procs /\ New(j + 1) \in Procs
       /\ ~isGreater(New(j), New(j + 1))
       /\ NoProcessLost'
       /\ \A k \in Indexes : k # j /\ k # j + 1 => New(k) = At(k)
       /\ \/ New(j) = At(j) /\ New(j + 1) = At(j + 1)
          \/ New(j) = At(j + 1) /\ New(j + 1) = At(j)
  <2>1. CASE isGreater(At(j), At(j + 1))
    <3>1. sorted' = [sorted EXCEPT ![j] = sorted[j + 1], ![j + 1] = sorted[j]]
      BY <2>1 DEF Compare, Swapped
    <3>2. /\ sorted'[j] = sorted[j + 1] /\ sorted'[j + 1] = sorted[j]
          /\ \A k \in Indexes : k # j /\ k # j + 1 => sorted'[k] = sorted[k]
      BY <1>2, <1>3, <3>1
    <3>3. \A m \in Indexes : \E k \in Indexes : sorted'[k] = m
      <4> TAKE m \in Indexes
      <4>1. PICK k \in Indexes : sorted[k] = m
        BY <1>3 DEF NoProcessLost
      <4> QED
        BY <1>2, <3>2, <4>1
    <3>4. \A k, l \in Indexes : sorted'[k] = sorted'[l] => k = l
      BY <1>2, <1>3, <3>2 DEF NoProcessLost
    <3>5. NoProcessLost'
      BY <1>1, <3>3, <3>4 DEF NoProcessLost
    <3>6. ~isGreater(At(j + 1), At(j))
      BY <1>1, <1>2, <1>5, <1>6, <2>1, GreaterAsymmetric
    <3> QED
      BY <1>2, <1>5, <3>2, <3>5, <3>6 DEF At
  <2>2. CASE ~isGreater(At(j), At(j + 1))
    <3>1. sorted' = sorted
      BY <2>2 DEF Compare
    <3>2. NoProcessLost'
      BY <1>1, <1>3, <3>1 DEF NoProcessLost
    <3> QED
      BY <1>2, <1>5, <2>2, <3>1, <3>2 DEF At
  <2> QED
    BY <2>1, <2>2
<1> HIDE DEF New
<1>12. \A k \in Indexes : k < j => ~isGreater(New(k), New(j + 1))
  <2> SUFFICES ASSUME NEW k \in Indexes, k < j PROVE ~isGreater(New(k), New(j + 1))
    OBVIOUS
  <2>1. New(k) = At(k) /\ ~isGreater(At(k), At(j))
    BY <1>1, <1>2, <1>4, <1>11 DEF CarriesGreatest, Greater, Indexes
  <2>2. CASE New(j + 1) = At(j)
    BY <2>1, <2>2
  <2>3. CASE New(j) = At(j) /\ New(j + 1) = At(j + 1)
    <3>1. ~isGreater(At(j), At(j + 1))
      BY <1>11, <2>3
    <3>2. k # j /\ k # j + 1
      BY <1>1 DEF Indexes
    <3> QED
      BY <1>1, <1>2, <1>5, <1>6, <2>1, <2>3, <3>1, <3>2, NotGreaterTransitive
  <2> QED
    BY <1>11, <2>2, <2>3
<1>13. CarriesGreatest'
  <2> SUFFICES ASSUME NEW k \in Indexes, k < j + 1 PROVE ~isGreater(New(k), New(j + 1))
    BY <1>1, <1>2, <1>9, <1>10 DEF CarriesGreatest, Greater
  <2>1. k < j \/ k = j
    BY <1>1 DEF Indexes
  <2> QED
    BY <1>11, <1>12, <2>1
<1>14. TailInPlace'
  <2> SUFFICES ASSUME NEW k \in Indexes, NEW l \in Indexes, k < l, l > i
               PROVE  ~isGreater(New(k), New(l))
    BY <1>1, <1>9, <1>10 DEF TailInPlace, Greater
  <2>1. New(l) = At(l) /\ l # j /\ l # j + 1
    BY <1>1, <1>11 DEF Indexes
  <2>2. \A m \in Indexes : m < l => ~isGreater(At(m), At(l))
    BY <1>4 DEF TailInPlace, Greater
  <2>3. j < l /\ j + 1 < l
    BY <1>1 DEF Indexes
  <2> QED
    BY <1>2, <1>11, <2>1, <2>2, <2>3
<1>15. j' <= i' \/ i' <= 0
  BY <1>1
<1> QED
  BY <1>1, <1>8, <1>11, <1>13, <1>14, <1>15 DEF SInv

\* A pass is over: the pointer it ends at is in place.
LEMMA NextPassStep == SInv /\ NextPass => SInv'
<1> SUFFICES ASSUME SInv, NextPass PROVE SInv'
  OBVIOUS
<1>1. /\ procCnt \in Nat /\ procCnt' = procCnt /\ processes' = processes
      /\ Indexes' = Indexes /\ sorted' = sorted
      /\ sortMode' = sortMode /\ reverseMode' = reverseMode
      /\ sortPhase = "sort" /\ sortPhase' = "sort" /\ i' = i - 1 /\ j' = 0
      /\ i \in Int /\ j \in Nat /\ i <= procCnt - 1 /\ i > 0 /\ j = i
  BY CountAssumption DEF SInv, SortTypeOK, NextPass, list, modes, Indexes
<1>2. SortTypeOK'
  BY <1>1 DEF SInv, SortTypeOK
<1>3. NoProcessLost'
  BY <1>1 DEF SInv, NoProcessLost
<1>4. \A k, l \in Indexes : Greater(k, l)' <=> Greater(k, l)
  BY <1>1 DEF Greater, At, isGreater, Key, Below
<1>5. TailInPlace /\ CarriesGreatest /\ i \in Indexes
  BY <1>1 DEF SInv, Indexes
<1>6. TailInPlace'
  <2> SUFFICES ASSUME NEW k \in Indexes, NEW l \in Indexes, k < l, l > i - 1
               PROVE  ~Greater(k, l)
    BY <1>1, <1>4 DEF TailInPlace
  <2>1. l > i \/ l = i
    BY <1>1 DEF Indexes
  <2> QED
    BY <1>1, <1>5, <2>1 DEF TailInPlace, CarriesGreatest
<1>7. CarriesGreatest'
  BY <1>1 DEF CarriesGreatest, Indexes
<1> QED
  BY <1>1, <1>2, <1>3, <1>6, <1>7 DEF SInv

\* The steps that move no pointer.
LEMMA OtherSteps ==
    SInv /\ (Return \/ ToggleReverse \/ (\E m \in Modes : ChooseMode(m)) \/ UNCHANGED sortVars)
        => SInv'
<1> SUFFICES ASSUME SInv,
                    Return \/ ToggleReverse \/ (\E m \in Modes : ChooseMode(m)) \/ UNCHANGED sortVars
             PROVE  SInv'
  OBVIOUS
<1>1. /\ procCnt' = procCnt /\ processes' = processes /\ sorted' = sorted
      /\ i' = i /\ j' = j /\ Indexes' = Indexes
      /\ sortMode' \in Modes /\ reverseMode' \in BOOLEAN
  BY DEF SInv, SortTypeOK, Return, ToggleReverse, ChooseMode, sortVars, list, modes, Indexes
<1>2. SortTypeOK'
  <2>1. sortPhase' \in {"copy", "sort", "done"}
    BY DEF SInv, SortTypeOK, Return, ToggleReverse, ChooseMode, sortVars
  <2> QED
    BY <1>1, <2>1 DEF SInv, SortTypeOK
<1>3. NoProcessLost'
  BY <1>1 DEF SInv, NoProcessLost
<1>4. CASE Return \/ UNCHANGED sortVars
  <2>1. sortMode' = sortMode /\ reverseMode' = reverseMode
    BY <1>4 DEF Return, sortVars, modes
  <2>2. \A k, l \in Indexes : Greater(k, l)' <=> Greater(k, l)
    BY <1>1, <2>1 DEF Greater, At, isGreater, Key, Below
  <2>3. TailInPlace => TailInPlace'
    BY <1>1, <2>2 DEF TailInPlace
  <2>4. CarriesGreatest => CarriesGreatest'
    BY <1>1, <2>2 DEF CarriesGreatest
  <2>5. \/ sortPhase = "sort" /\ sortPhase' = "done" /\ i <= 0
        \/ sortPhase' = sortPhase
    BY <1>4 DEF Return, sortVars
  <2> QED
    BY <1>1, <1>2, <1>3, <2>3, <2>4, <2>5 DEF SInv
<1>5. CASE ToggleReverse \/ \E m \in Modes : ChooseMode(m)
  <2>1. sortPhase' = "copy"
    BY <1>5 DEF ToggleReverse, ChooseMode
  <2> QED
    BY <1>2, <1>3, <2>1 DEF SInv
<1> QED
  BY <1>4, <1>5

LEMMA SInvNext == SInv /\ [SortNext]_sortVars => SInv'
  BY CopyStep, CompareStep, NextPassStep, OtherSteps DEF SortNext

\* The loop invariant of SortProc holds for lists of every length.
THEOREM SortInvariant == SortSpec => []SInv
  BY SInvInit, SInvNext, PTL DEF SortSpec

\* Every process of procList is pointed to by one pointer at every step of the sort.
THEOREM NoProcessLostCorrect == SortSpec => []NoProcessLost
<1>1. SInv => NoProcessLost
  BY DEF SInv
<1> QED
  BY <1>1, SortInvariant, PTL

\* What is not greater by isGreater stands right by the value of the mode.
LEMMA InOrder ==
    ASSUME sortMode \in Modes, reverseMode \in BOOLEAN,
           NEW a \in Procs, NEW b \in Procs, a.pid # b.pid, ~isGreater(a, b)
    PROVE  /\ IF reverseMode THEN Shown(a) <= Shown(b) ELSE Shown(a) >= Shown(b)
           /\ sortMode \in {"CPU", "TIME"} /\ Shown(a) = Shown(b) => a.pid < b.pid
<1>1. /\ a.pid \in Int /\ a.cpu \in Int /\ a.mem \in Int
      /\ a.rss \in Int /\ a.runtime \in Int
  BY Fields
<1>2. /\ b.pid \in Int /\ b.cpu \in Int /\ b.mem \in Int
      /\ b.rss \in Int /\ b.runtime \in Int
  BY Fields
<1>3. MaxPid \in Int
  BY CountAssumption
<1>4. CASE sortMode = "CPU"
  BY <1>1, <1>2, <1>4 DEF isGreater, Key, Below, Shown
<1>5. CASE sortMode = "MEM"
  BY <1>1, <1>2, <1>5 DEF isGreater, Key, Below, Shown
<1>6. CASE sortMode = "TIME"
  BY <1>1, <1>2, <1>6 DEF isGreater, Key, Below, Shown
<1>7. CASE sortMode = "PID"
  BY <1>1, <1>2, <1>3, <1>7 DEF isGreater, Key, Below, Shown
<1> QED
  BY <1>4, <1>5, <1>6, <1>7 DEF Modes

\* SortProc sorts: whatever the list, the mode and the direction, its result is in
\* the order the user asked for.
THEOREM ListInOrderCorrect == SortSpec => []ListInOrder
<1>1. SInv => ListInOrder
  <2> SUFFICES ASSUME SInv, sortPhase = "done", NEW k \in Indexes, NEW l \in Indexes, k < l
               PROVE  /\ IF reverseMode THEN Shown(At(k)) <= Shown(At(l))
                                        ELSE Shown(At(k)) >= Shown(At(l))
                      /\ sortMode \in {"CPU", "TIME"} /\ Shown(At(k)) = Shown(At(l))
                            => At(k).pid < At(l).pid
    BY DEF ListInOrder
  <2>1. SortTypeOK /\ NoProcessLost /\ TailInPlace /\ i <= 0
    BY DEF SInv
  <2>2. k \in Int /\ l \in Int /\ k >= 0 /\ l >= 0 /\ k # l /\ i \in Int
    BY <2>1, CountAssumption DEF Indexes, SortTypeOK
  <2>3. ~isGreater(At(k), At(l))
    BY <2>1, <2>2 DEF TailInPlace, Greater
  <2>4. At(k) \in Procs /\ At(l) \in Procs /\ At(k).pid # At(l).pid
    BY <2>1, <2>2, AtType, AtDistinct
  <2>5. sortMode \in Modes /\ reverseMode \in BOOLEAN
    BY <2>1 DEF SortTypeOK
  <2> QED
    BY <2>3, <2>4, <2>5, InOrder
<1> QED
  BY <1>1, SortInvariant, PTL
================================================================================
