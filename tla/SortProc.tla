-------------------------------- MODULE SortProc --------------------------------
(***************************************************************************)
(* Assignment_2/mytop.c: SortProc, a bubble sort of pointers to the         *)
(* processes of procList, and isGreater, which compares two processes by    *)
(* the mode the user has chosen.  Arrays count from 0.                      *)
(***************************************************************************)
EXTENDS Integers

CONSTANTS
    Values,     \* the values of cpu, mem, rss and runtime
    MaxPid,     \* bound: pids
    MaxCnt      \* bound: processes on the list

ASSUME ValueAssumption == Values \subseteq Nat
ASSUME CountAssumption == MaxPid \in Nat /\ MaxCnt \in Nat

Procs == [pid : 1..MaxPid, cpu : Values, mem : Values, rss : Values, runtime : Values]
Modes == {"CPU", "MEM", "PID", "TIME"}

VARIABLES
    procCnt,
    processes,          \* procList, with what isGreater compares
    sorted,             \* sorted[k] is the index in processes it points to
    sortMode, reverseMode,
    i, j, sortPhase

list == <<procCnt, processes>>
modes == <<sortMode, reverseMode>>
sortVars == <<list, modes, sorted, i, j, sortPhase>>

Indexes == 0..(procCnt - 1)

SortTypeOK ==
    /\ procCnt \in 0..MaxCnt
    /\ processes \in [Indexes -> Procs]
    /\ \A k, l \in Indexes : processes[k].pid = processes[l].pid => k = l
    /\ sorted \in [Indexes -> Indexes]
    /\ sortMode \in Modes /\ reverseMode \in BOOLEAN
    /\ sortPhase \in {"copy", "sort", "done"}
    /\ i \in -1..(procCnt - 1)
    /\ j \in 0..procCnt

\* A scan has filled procList, each process once.
SortInit ==
    /\ procCnt \in 0..MaxCnt
    /\ processes \in [Indexes -> Procs]
    /\ \A k, l \in Indexes : processes[k].pid = processes[l].pid => k = l
    /\ sorted = [k \in Indexes |-> k]
    /\ sortMode = "CPU" /\ reverseMode = FALSE
    /\ i = procCnt - 1 /\ j = 0
    /\ sortPhase = "copy"
--------------------------------------------------------------------------------
\* What the mode compares first, and what it compares when that is equal.
Key(a) == CASE sortMode = "CPU" -> <<a.cpu, 0>>
            [] sortMode = "MEM" -> <<a.mem, a.rss>>
            [] sortMode = "TIME" -> <<a.runtime, 0>>
            [] sortMode = "PID" -> <<0, 0>>

Below(x, y) == x[1] < y[1] \/ (x[1] = y[1] /\ x[2] < y[2])

\* Mutant: reverseMode turns the comparison of equal values round, but not that of
\* different ones.
isGreaterTiesOnly(a, b) ==
    IF sortMode = "PID" THEN (a.pid > b.pid) # reverseMode
    ELSE IF Key(a) = Key(b) THEN (a.pid > b.pid) # reverseMode
    ELSE Below(Key(a), Key(b))

\* reverseMode turns value round, except where equal values are told apart by pid.
isGreater(a, b) ==
    IF sortMode = "PID" THEN (a.pid > b.pid) # reverseMode
    ELSE IF Key(a) = Key(b) THEN a.pid > b.pid
    ELSE Below(Key(a), Key(b)) # reverseMode

At(k) == processes[sorted[k]]

CopyPointers ==
    /\ sortPhase = "copy"
    /\ sorted' = [k \in Indexes |-> k]
    /\ i' = procCnt - 1 /\ j' = 0
    /\ sortPhase' = "sort"
    /\ UNCHANGED <<list, modes>>

\* Mutant: one of the two pointers is overwritten.
SwappedLosesOne == [sorted EXCEPT ![j] = sorted[j + 1]]

\* tmp = sorted[j]; sorted[j] = sorted[j+1]; sorted[j+1] = tmp.
Swapped == [sorted EXCEPT ![j] = sorted[j + 1], ![j + 1] = sorted[j]]

\* One turn of the inner loop.
Compare ==
    /\ sortPhase = "sort"
    /\ i > 0 /\ j < i
    /\ sorted' = IF isGreater(At(j), At(j + 1)) THEN Swapped ELSE sorted
    /\ j' = j + 1
    /\ UNCHANGED <<list, modes, i, sortPhase>>

NextPass ==
    /\ sortPhase = "sort"
    /\ i > 0 /\ j >= i
    /\ i' = i - 1 /\ j' = 0
    /\ UNCHANGED <<list, modes, sorted, sortPhase>>

Return ==
    /\ sortPhase = "sort"
    /\ i <= 0
    /\ sortPhase' = "done"
    /\ UNCHANGED <<list, modes, sorted, i, j>>

\* P, M, N, T and R of the main loop: the list is sorted again, the pointers first
\* copied anew.  (The new scan that comes before it is the choice of SortInit.)
ChooseMode(m) ==
    /\ sortPhase = "done"
    /\ sortPhase' = "copy"
    /\ sortMode' = m
    /\ UNCHANGED <<list, reverseMode, sorted, i, j>>

ToggleReverse ==
    /\ sortPhase = "done"
    /\ sortPhase' = "copy"
    /\ reverseMode' = ~reverseMode
    /\ UNCHANGED <<list, sortMode, sorted, i, j>>

SortNext ==
    \/ CopyPointers \/ Compare \/ NextPass \/ Return
    \/ ToggleReverse \/ \E m \in Modes : ChooseMode(m)

SortSpec == SortInit /\ [][SortNext]_sortVars
--------------------------------------------------------------------------------
(***************************************************************************)
(* Properties                                                               *)
(***************************************************************************)
\* The value the user sees the list ordered by (README.md:16-20).
Shown(a) == CASE sortMode = "CPU" -> a.cpu
              [] sortMode = "MEM" -> a.mem
              [] sortMode = "TIME" -> a.runtime
              [] sortMode = "PID" -> MaxPid - a.pid

\* SortProc is done: the value of the mode falls down the list, rises with R, and
\* processes with equal CPU or run time stand in the order of their pids.
ListInOrder ==
    sortPhase = "done" =>
        \A k, l \in Indexes : k < l =>
            /\ IF reverseMode THEN Shown(At(k)) <= Shown(At(l)) ELSE Shown(At(k)) >= Shown(At(l))
            /\ sortMode \in {"CPU", "TIME"} /\ Shown(At(k)) = Shown(At(l)) => At(k).pid < At(l).pid

\* At every step of the sort every process of procList is pointed to, by one pointer.
NoProcessLost ==
    /\ \A m \in Indexes : \E k \in Indexes : sorted[k] = m
    /\ \A k, l \in Indexes : sorted[k] = sorted[l] => k = l
================================================================================
