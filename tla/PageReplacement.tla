---------------------------- MODULE PageReplacement ----------------------------
(***************************************************************************)
(* Assignment_5/simulator.c: the page replacement simulator.  It reads the  *)
(* number of frames and a reference string from a file, then runs the       *)
(* methods the user names, one reference of the string per step.            *)
(*                                                                          *)
(* Positions of the string count from 1 (the code's i + 1), frames from 0.  *)
(* Page numbers are not negative: the code takes a negative frame for an    *)
(* empty one.                                                               *)
(***************************************************************************)
EXTENDS Integers, Sequences, FiniteSets

CONSTANTS
    Pages,          \* page numbers of the file
    FrameSizes,     \* the values frame_size may take
    MaxString,      \* length of page_reference (31 in the code)
    MaxTokens,      \* bound: tokens in a file
    Empty,          \* the -1 of a frame without a page
    Word            \* a token of the file that is not a number

ASSUME PageAssumption == Empty \notin Pages /\ Word \notin Pages
ASSUME FrameAssumption == FrameSizes \subseteq Nat
ASSUME StringAssumption == MaxString \in Nat /\ MaxString < 99 /\ MaxTokens \in Nat

VARIABLES
    phase,          \* where main is
    file,           \* the tokens not read yet
    temp,           \* the number scanned last
    frame_size, page_reference,
    method,
    i,              \* position of the reference to serve next
    page_frame, reference_bit, victim,
    page_fault

input == <<file, temp, frame_size, page_reference>>
memory == <<page_frame, reference_bit, victim, page_fault, i>>
vars == <<phase, method, input, memory>>

Methods == {"OPT", "FIFO", "LRU", "Second-Chance"}
Frames == 0..(frame_size - 1)
Phases == {"open", "read", "menu", "serve", "exit", "failed", "undefined"}

TypeOK ==
    /\ phase \in Phases
    /\ file \in Seq(Pages \cup {Word})
    /\ temp \in Pages
    /\ frame_size \in Nat
    /\ page_reference \in Seq(Pages)
    /\ Len(page_reference) <= MaxString
    /\ method \in Methods \cup {"none"}
    /\ i \in 1..(Len(page_reference) + 1)
    /\ page_frame \in [Frames -> Pages \cup {Empty}]
    /\ reference_bit \in [Frames -> {0, 1}]
    /\ victim \in 0..frame_size
    /\ page_fault \in 0..(i - 1)

Init ==
    /\ phase = "open"
    /\ file = <<>>
    /\ temp \in Pages
    /\ frame_size \in FrameSizes         \* what the first fscanf of Open reads, once
    /\ page_reference = <<>>
    /\ method = "none"
    /\ i = 1
    /\ page_frame = [j \in Frames |-> Empty]
    /\ reference_bit = [j \in Frames |-> 0]
    /\ victim = 0
    /\ page_fault = 0
--------------------------------------------------------------------------------
(***************************************************************************)
(* Reading the file                                                         *)
(***************************************************************************)
\* fopen and the first fscanf.
Open ==
    /\ phase = "open"
    /\ \E n \in 0..MaxTokens : file' \in [1..n -> Pages \cup {Word}]
    /\ phase' = "read"
    /\ UNCHANGED <<temp, frame_size, page_reference, method, memory>>

OpenFails ==
    /\ phase = "open"
    /\ phase' = "failed"
    /\ UNCHANGED <<method, input, memory>>

\* fscanf("%d") != EOF: a number is consumed, a word is left in the file and temp
\* keeps its value; either way temp is stored.
ReadPage ==
    /\ phase = "read"
    /\ file # <<>>
    /\ IF Head(file) = Word
       THEN UNCHANGED <<file, temp>>
       ELSE file' = Tail(file) /\ temp' = Head(file)
    /\ IF Len(page_reference) < MaxString
       THEN page_reference' = Append(page_reference, temp') /\ UNCHANGED phase
       ELSE phase' = "undefined" /\ UNCHANGED page_reference
    /\ UNCHANGED <<frame_size, method, memory>>

ReadEof ==
    /\ phase = "read"
    /\ file = <<>>
    /\ phase' = "menu"
    /\ UNCHANGED <<method, input, memory>>
--------------------------------------------------------------------------------
(***************************************************************************)
(* The menu                                                                 *)
(***************************************************************************)
\* A method starts with frames and bits cleared.
Choose(m) ==
    /\ phase = "menu"
    /\ phase' = "serve"
    /\ method' = m
    /\ page_frame' = [j \in Frames |-> Empty]
    /\ reference_bit' = [j \in Frames |-> 0]
    /\ victim' = 0
    /\ page_fault' = 0
    /\ i' = 1
    /\ UNCHANGED input

Exit ==
    /\ phase = "menu"
    /\ phase' = "exit"
    /\ UNCHANGED <<method, input, memory>>

\* "Number of page faults" is printed and the menu comes back.
Report ==
    /\ phase = "serve"
    /\ i > Len(page_reference)
    /\ phase' = "menu"
    /\ method' = "none"
    /\ UNCHANGED <<input, memory>>
--------------------------------------------------------------------------------
(***************************************************************************)
(* One reference                                                            *)
(***************************************************************************)
Page == page_reference[i]

\* Mutant: an empty frame is taken without looking for the page first.
StopsAtEmpty == {j \in Frames : page_frame[j] = Empty
                                \/ (page_frame[j] = Page /\ \A k \in Frames : page_frame[k] # Empty)}

\* The frame the first loop stops at: it holds the page or is empty.
Stops == {j \in Frames : page_frame[j] \in {Page, Empty}
                         /\ \A k \in 0..(j - 1) : page_frame[k] \notin {Page, Empty}}

Serving(m) == phase = "serve" /\ method = m /\ i <= Len(page_reference)

\* The loop stops at a frame: a hit, or a load into an empty frame.
HitOrFill(m) ==
    /\ Serving(m)
    /\ \E j \in Stops :
         /\ page_frame' = [page_frame EXCEPT ![j] = Page]
         /\ page_fault' = IF page_frame[j] = Empty THEN page_fault + 1 ELSE page_fault
         /\ reference_bit' = IF m = "Second-Chance"
                             THEN [reference_bit EXCEPT ![j] = IF page_frame[j] = Empty THEN 0 ELSE 1]
                             ELSE reference_bit
    /\ i' = i + 1
    /\ UNCHANGED <<phase, method, input, victim>>

\* page_frame[v] = page_reference[i]: v must be a frame.
Replace(v) ==
    IF v \in Frames
    THEN /\ page_frame' = [page_frame EXCEPT ![v] = Page]
         /\ page_fault' = page_fault + 1
         /\ i' = i + 1
         /\ UNCHANGED phase
    ELSE /\ phase' = "undefined"
         /\ UNCHANGED <<page_frame, page_fault, i>>

\* Mutant: victim runs past the last frame.
WrapForgets(v) == v

\* victim == frame_size is turned into 0.
Wrap(v) == IF v = frame_size THEN 0 ELSE v

\* Positions after i, or before it, at which frame j's page is referenced.
UsesAfter(j) == {k \in (i + 1)..Len(page_reference) : page_reference[k] = page_frame[j]}
UsesBefore(j) == {k \in 1..(i - 1) : page_reference[k] = page_frame[j]}

NextUse(j) == CHOOSE k \in UsesAfter(j) : \A n \in UsesAfter(j) : k <= n
LastUse(j) == CHOOSE k \in UsesBefore(j) : \A n \in UsesBefore(j) : k >= n

\* Mutant: the page referenced soonest is taken.
OptVictimsSoonest ==
    LET unused == {j \in Frames : UsesAfter(j) = {}}
    IN  IF unused # {} THEN {j \in unused : \A k \in unused : j <= k}
        ELSE {j \in Frames : \A k \in Frames : NextUse(k) >= NextUse(j)}

\* OPT: the first frame whose page is not referenced again, otherwise the one
\* whose next reference is the latest.
OptVictims ==
    LET unused == {j \in Frames : UsesAfter(j) = {}}
    IN  IF unused # {} THEN {j \in unused : \A k \in unused : j <= k}
        ELSE {j \in Frames : \A k \in Frames : NextUse(k) <= NextUse(j)}

Opt ==
    /\ Serving("OPT")
    /\ Stops = {}
    /\ \E v \in IF OptVictims = {} THEN {-1} ELSE OptVictims : Replace(v)
    /\ UNCHANGED <<method, input, reference_bit, victim>>

\* FIFO: the frames in turn.
Fifo ==
    /\ Serving("FIFO")
    /\ Stops = {}
    /\ Replace(victim)
    /\ victim' = IF victim \in Frames THEN Wrap(victim + 1) ELSE victim
    /\ UNCHANGED <<method, input, reference_bit>>

\* LRU: the frame whose page was referenced longest ago (location starts at 99).
LruVictims ==
    LET used == {j \in Frames : UsesBefore(j) # {} /\ LastUse(j) - 1 < 99}
    IN  {j \in used : \A k \in used : LastUse(j) <= LastUse(k)}

Lru ==
    /\ Serving("LRU")
    /\ Stops = {}
    /\ \E v \in IF LruVictims = {} THEN {-1} ELSE LruVictims : Replace(v)
    /\ UNCHANGED <<method, input, reference_bit, victim>>

\* How many frames the scan passes before it comes to frame j.
Distance(j) == IF j >= victim THEN j - victim ELSE j + frame_size - victim

\* Second-Chance: from victim on, around the frames, the first one whose bit is 0;
\* victim itself when every bit is 1.
ScVictims ==
    LET clear == {j \in Frames : reference_bit[j] = 0}
    IN  IF clear = {} THEN {victim}
        ELSE {j \in clear : \A k \in clear : Distance(j) <= Distance(k)}

\* Mutant: the bits that gave a second chance stay set.
PassedBitsKept(v) == reference_bit

\* The frames passed on the way lose their bit.
PassedBits(v) ==
    [j \in Frames |-> IF reference_bit[v] = 1 \/ Distance(j) < Distance(v)
                      THEN 0 ELSE reference_bit[j]]

SecondChance ==
    /\ Serving("Second-Chance")
    /\ Stops = {}
    /\ \E v \in ScVictims :
         /\ Replace(v)
         /\ victim' = IF v \in Frames THEN Wrap(v + 1) ELSE victim
         /\ reference_bit' = IF v \in Frames THEN PassedBits(v) ELSE reference_bit
    /\ UNCHANGED <<method, input>>
--------------------------------------------------------------------------------
Next ==
    \/ Open \/ OpenFails \/ ReadPage \/ ReadEof \/ Exit \/ Report
    \/ \E m \in Methods : Choose(m) \/ HitOrFill(m)
    \/ Opt \/ Fifo \/ Lru \/ SecondChance

Spec == Init /\ [][Next]_vars
--------------------------------------------------------------------------------
(***************************************************************************)
(* Properties                                                               *)
(***************************************************************************)
Resident == {page_frame[j] : j \in Frames} \ {Empty}

\* Every method: a page is in one frame only, and frames fill from the left, so the
\* first loop, which stops at the first empty frame, never misses a page.
NoDuplicates ==
    \A j, k \in Frames : j < k /\ page_frame[k] # Empty =>
        page_frame[j] \notin {Empty, page_frame[k]}

\* Every victim the methods compute is a frame: victim = -1 of lines 74 and 191 is
\* never used as an index.  Memory is left only by an input the program does not
\* check: no frames at all, or more numbers (or a word) than page_reference holds.
UndefinedOnlyByInput ==
    phase = "undefined" =>
        frame_size = 0 \/ (method = "none" /\ Len(page_reference) = MaxString)
================================================================================
