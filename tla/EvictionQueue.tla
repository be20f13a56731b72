----------------------------- MODULE EvictionQueue -----------------------------
(***************************************************************************)
(* What FIFO, LRU and Second-Chance promise, without page frames: the pages *)
(* in memory form a queue, the next victim first.  The three policies of    *)
(* Assignment_5/simulator.c differ only in what a hit does to the queue;    *)
(* PageRefinement shows that the simulator's arrays implement it.           *)
(***************************************************************************)
EXTENDS Integers, Sequences, SequencesExt

CONSTANTS Pages, FrameSizes

VARIABLES
    policy,     \* "FIFO", "LRU", "Second-Chance", or "none" between two runs
    room,       \* the number of pages memory holds
    queue,      \* the pages in memory, [page, marked], the next victim first
    faults

vars == <<policy, room, queue, faults>>

Policies == {"FIFO", "LRU", "Second-Chance"}

Entry(p, m) == [page |-> p, marked |-> m]

Holds(p) == \E n \in DOMAIN queue : queue[n].page = p

Init == policy = "none" /\ room \in FrameSizes /\ queue = <<>> /\ faults = 0

\* A run of a policy starts with an empty memory.
Start(m) ==
    /\ policy = "none"
    /\ policy' = m
    /\ UNCHANGED <<room, queue, faults>>

Stop ==
    /\ policy # "none"
    /\ policy' = "none"
    /\ queue' = <<>>
    /\ faults' = 0
    /\ UNCHANGED room

\* The queue after a hit on p.
Touched(p) ==
    LET n == CHOOSE n \in DOMAIN queue : queue[n].page = p
    IN  CASE policy = "FIFO" -> queue
          [] policy = "LRU" -> Append(RemoveAt(queue, n), Entry(p, FALSE))
          [] policy = "Second-Chance" -> [queue EXCEPT ![n].marked = TRUE]

\* The full queue without its victim: marked pages at the front lose their mark
\* and go to the back; when all are marked, the first one is the victim.
Evicted ==
    LET unmarked == {n \in DOMAIN queue : ~queue[n].marked}
        passed == IF unmarked = {} THEN Len(queue)
                  ELSE (CHOOSE n \in unmarked : \A k \in unmarked : n <= k) - 1
        turned == SubSeq(queue, passed + 1, Len(queue))
                  \o [n \in 1..passed |-> Entry(queue[n].page, FALSE)]
    IN  Tail(turned)

Reference(p) ==
    /\ policy # "none"
    /\ IF Holds(p)
       THEN queue' = Touched(p) /\ faults' = faults
       ELSE /\ queue' = Append(IF Len(queue) < room THEN queue ELSE Evicted, Entry(p, FALSE))
            /\ faults' = faults + 1
    /\ UNCHANGED <<policy, room>>

Next == Stop \/ (\E m \in Policies : Start(m)) \/ (\E p \in Pages : Reference(p))

Spec == Init /\ [][Next]_vars
================================================================================
