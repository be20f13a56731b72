----------------------------- MODULE PageRefinement -----------------------------
(***************************************************************************)
(* The methods of Assignment_5/simulator.c against what they are named for: *)
(* FIFO, LRU and Second-Chance implement EvictionQueue, and OPT never does  *)
(* worse than the best choice of victims.                                   *)
(***************************************************************************)
EXTENDS PageReplacement, SequencesExt, TLC

\* Frames in the order the policy will evict them.
Before(j, k) ==
    IF method = "LRU" THEN LastUse(j) < LastUse(k) ELSE Distance(j) < Distance(k)

EvictionOrder ==
    LET filled == SetToSortSeq({j \in Frames : page_frame[j] # Empty}, Before)
    IN  [n \in DOMAIN filled |->
            [page |-> page_frame[filled[n]], marked |-> reference_bit[filled[n]] = 1]]

Queued == phase = "serve" /\ method \in {"FIFO", "LRU", "Second-Chance"}

Q == INSTANCE EvictionQueue WITH
        policy <- IF Queued THEN method ELSE "none",
        room <- frame_size,
        queue <- IF Queued THEN EvictionOrder ELSE <<>>,
        faults <- IF Queued THEN page_fault ELSE 0

\* Seen as a queue of pages, next victim first, the frames of FIFO, LRU and
\* Second-Chance change as these policies say, and page_fault counts the misses.
ImplementsEvictionQueue == Q!Spec

\* The fewest faults any choice of victims can reach on the references from n on
\* when the pages R are in memory.
MinFaults ==
    LET best[n \in 1..(Len(page_reference) + 1), R \in SUBSET Pages] ==
          IF n > Len(page_reference) THEN 0
          ELSE IF page_reference[n] \in R THEN best[n + 1, R]
          ELSE LET kept == IF Cardinality(R) < frame_size THEN {R} ELSE {R \ {v} : v \in R}
                   costs == {best[n + 1, K \cup {page_reference[n]}] : K \in kept}
               IN  1 + CHOOSE c \in costs : \A d \in costs : c <= d
    IN  best

\* OPT: no victim it takes puts the least possible number of faults out of reach, so
\* the number it prints is the minimum for the string.
OptIsOptimal ==
    phase = "serve" /\ method = "OPT" /\ frame_size > 0 =>
        page_fault + MinFaults[i, Resident] = MinFaults[1, {}]

Symmetry == Permutations(Pages)
=================================================================================
