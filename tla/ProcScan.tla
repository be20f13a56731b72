-------------------------------- MODULE ProcScan --------------------------------
(***************************************************************************)
(* Assignment_2/mytop.c: SearchProcess and AddProcessList read /proc while   *)
(* processes start, run and end.                                             *)
(*                                                                           *)
(* A scan asks readdir for the directories of /proc, calls stat on each,     *)
(* reads the files of a process one after another and appends the process    *)
(* to procList.  cpuTimeTable keeps, per pid, the CPU time of the last scan, *)
(* from which %CPU is computed.  Times are in seconds (hertz is 1) and %CPU  *)
(* is cut to a whole number.                                                 *)
(***************************************************************************)
EXTENDS Integers, Sequences, FiniteSets

CONSTANTS
    Pids,       \* the pids of processes
    BufSize,    \* entries readdir takes from the kernel at a time
    MaxClock,   \* bound: seconds
    MaxLives    \* bound: processes that get the same pid one after another

ASSUME PidAssumption == Pids \subseteq Nat \ {0} /\ IsFiniteSet(Pids)
ASSUME BufAssumption == BufSize \in Nat \ {0}
ASSUME LimitAssumption == MaxClock \in Nat /\ MaxLives \in Nat

VARIABLES
    \* the system
    clock,
    alive,          \* pids of the processes there are
    life,           \* how many processes have had the pid
    used, started,  \* CPU time and start of the process
    \* mytop
    phase,          \* "first", "scan": SearchProcess runs; "idle": the list is shown
    position,       \* the last entry stat was called on
    buffer,         \* entries readdir holds
    entry,          \* the process AddProcessList is reading, 0 if none
    record,         \* what it has read of it, or None
    now, before, uptime,
    cpuTimeTable, procList,
    \* history
    steady,         \* pids alive since the scan began
    seen            \* pids alive at some moment since the scan began

system == <<clock, alive, life, used, started>>
times == <<now, before, uptime>>
vars == <<system, phase, position, buffer, entry, record, times, cpuTimeTable, procList, steady, seen>>

None == <<>>
Records == [pid : Pids, runtime : Nat, cpu : 0..100]
Listed == {procList[n].pid : n \in DOMAIN procList}

TypeOK ==
    /\ clock \in Nat
    /\ alive \subseteq Pids
    /\ life \in [Pids -> Nat] /\ used \in [Pids -> Nat] /\ started \in [Pids -> Nat]
    /\ phase \in {"first", "scan", "idle", "exit"}
    /\ position \in Nat
    /\ buffer \subseteq Pids
    /\ entry \in Pids \cup {0}
    /\ record \in Records \cup {None}
    /\ now \in Nat /\ before \in Nat /\ uptime \in Nat
    /\ cpuTimeTable \in [Pids -> Nat]
    /\ procList \in Seq(Records)
    /\ steady \subseteq Pids /\ seen \subseteq Pids

\* mytop starts on a running system.
Init ==
    /\ clock = 1
    /\ alive \in SUBSET Pids
    /\ life = [p \in Pids |-> IF p \in alive THEN 1 ELSE 0]
    /\ used \in [Pids -> {0, 1}] /\ \A p \in Pids \ alive : used[p] = 0
    /\ started = [p \in Pids |-> 0]
    /\ phase = "first"
    /\ position = 0 /\ buffer = {} /\ entry = 0 /\ record = None
    /\ now = clock /\ before = 0 /\ uptime = clock
    /\ cpuTimeTable = [p \in Pids |-> 0]
    /\ procList = <<>>
    /\ steady = alive /\ seen = alive
--------------------------------------------------------------------------------
(***************************************************************************)
(* The system                                                               *)
(***************************************************************************)
mytop == <<phase, position, buffer, entry, record, times, cpuTimeTable, procList>>

Spawn(p) ==
    /\ p \notin alive /\ life[p] < MaxLives
    /\ alive' = alive \cup {p}
    /\ life' = [life EXCEPT ![p] = @ + 1]
    /\ used' = [used EXCEPT ![p] = 0]
    /\ started' = [started EXCEPT ![p] = clock]
    /\ seen' = seen \cup {p}
    /\ UNCHANGED <<clock, steady, mytop>>

End(p) ==
    /\ p \in alive
    /\ alive' = alive \ {p}
    /\ steady' = steady \ {p}
    /\ UNCHANGED <<clock, life, used, started, seen, mytop>>

\* A second passes; some of the processes spend it running.
Tick ==
    /\ clock < MaxClock
    /\ clock' = clock + 1
    /\ \E running \in SUBSET alive :
         used' = [p \in Pids |-> IF p \in running THEN used[p] + 1 ELSE used[p]]
    /\ UNCHANGED <<alive, life, started, steady, seen, mytop>>
--------------------------------------------------------------------------------
(***************************************************************************)
(* SearchProcess                                                            *)
(***************************************************************************)
Scanning == phase \in {"first", "scan"} /\ entry = 0

EraseProcessList == procList' = <<>>

\* now is read, EraseProcessList empties the list and the scan begins.
BeginScan ==
    /\ phase = "idle"
    /\ phase' = "scan"
    /\ now' = clock /\ uptime' = clock
    /\ EraseProcessList
    /\ position' = 0 /\ buffer' = {}
    /\ steady' = alive /\ seen' = alive
    /\ UNCHANGED <<system, entry, record, before, cpuTimeTable>>

\* The processes after the position, in the order of their pids.
Ahead == {p \in alive : p > position}

\* readdir with an empty buffer: the kernel gives the next BufSize entries.
Readdir ==
    /\ Scanning /\ buffer = {} /\ Ahead # {}
    /\ buffer' = {p \in Ahead : Cardinality({q \in Ahead : q < p}) < BufSize}
    /\ UNCHANGED <<system, phase, position, entry, record, times, cpuTimeTable, procList, steady, seen>>

\* stat of the next entry; the process may have ended since readdir read it.
Stat ==
    /\ Scanning
    /\ \E p \in buffer :
         /\ \A q \in buffer : p <= q
         /\ position' = p
         /\ buffer' = buffer \ {p}
         /\ IF p \in alive
            THEN entry' = p /\ UNCHANGED phase
            ELSE phase' = "exit" /\ UNCHANGED entry
    /\ UNCHANGED <<system, record, times, cpuTimeTable, procList, steady, seen>>

\* readdir returns NULL; before is set after the first scan, then to now.
EndScan ==
    /\ Scanning /\ buffer = {} /\ Ahead = {}
    /\ before' = IF phase = "first" THEN clock ELSE now
    /\ phase' = "idle"
    /\ UNCHANGED <<system, position, buffer, entry, record, now, uptime, cpuTimeTable,
                   procList, steady, seen>>
--------------------------------------------------------------------------------
(***************************************************************************)
(* AddProcessList                                                           *)
(***************************************************************************)
\* A quotient that is not a number, infinite, negative or above 100 becomes 0.
Percent(spent, interval) ==
    IF interval <= 0 \/ spent < 0 \/ spent > interval THEN 0
    ELSE (spent * 100) \div interval

\* %CPU since the last scan if the table has an entry, else since the start.  The
\* entry may be that of an earlier process with the pid.
Filled(p) ==
    LET old == cpuTimeTable[p]
        fresh == old = 0
    IN  [pid |-> p, runtime |-> used[p],
         cpu |-> IF fresh THEN Percent(used[p], uptime - started[p])
                 ELSE Percent(used[p] - old, now - before)]

\* Mutant: the table is written only when it has no entry yet.
ReadStatOnce ==
    /\ entry # 0 /\ record = None
    /\ entry \in alive
    /\ record' = Filled(entry)
    /\ cpuTimeTable' = [cpuTimeTable EXCEPT ![entry] = IF @ = 0 THEN used[entry] ELSE @]
    /\ UNCHANGED <<system, phase, position, buffer, entry, times, procList, steady, seen>>

\* /proc/pid/stat is read and the table written.
ReadStat ==
    /\ entry # 0 /\ record = None
    /\ entry \in alive
    /\ record' = Filled(entry)
    /\ cpuTimeTable' = [cpuTimeTable EXCEPT ![entry] = used[entry]]
    /\ UNCHANGED <<system, phase, position, buffer, entry, times, procList, steady, seen>>

\* status and cmdline are read and the record is appended.
AddRecord ==
    /\ entry # 0 /\ record # None
    /\ entry \in alive
    /\ procList' = Append(procList, record)
    /\ entry' = 0 /\ record' = None
    /\ UNCHANGED <<system, phase, position, buffer, times, cpuTimeTable,
                   steady, seen>>

\* A file of the process is gone: AddProcessList returns and the scan goes on.
Vanished ==
    /\ entry # 0
    /\ entry \notin alive
    /\ entry' = 0 /\ record' = None
    /\ UNCHANGED <<system, phase, position, buffer, times, cpuTimeTable, procList, steady, seen>>
--------------------------------------------------------------------------------
Next ==
    \/ Tick \/ \E p \in Pids : Spawn(p) \/ End(p)
    \/ BeginScan \/ Readdir \/ Stat \/ EndScan
    \/ ReadStat \/ AddRecord \/ Vanished

Spec == Init /\ [][Next]_vars
--------------------------------------------------------------------------------
(***************************************************************************)
(* Properties                                                               *)
(***************************************************************************)
\* Of every process on the list cpuTimeTable has the time the list shows.
TableMatchesList ==
    \A n \in DOMAIN procList : cpuTimeTable[procList[n].pid] = procList[n].runtime

\* The list that is shown holds each pid once, every process that was there during
\* the whole scan, and none that was not there during the scan; and at every moment
\* the table from which the next %CPU is computed agrees with it.
SnapshotComplete ==
    /\ phase = "idle" =>
        /\ steady \subseteq Listed
        /\ Listed \subseteq seen
        /\ \A m, n \in DOMAIN procList : procList[m].pid = procList[n].pid => m = n
    /\ TableMatchesList
================================================================================
