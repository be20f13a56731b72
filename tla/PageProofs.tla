------------------------------- MODULE PageProofs -------------------------------
(***************************************************************************)
(* Proofs about PageReplacement, for every number of frames, every string   *)
(* and every set of pages.                                                  *)
(***************************************************************************)
EXTENDS PageReplacement, WellFoundedInduction, TLAPS

\* What the frames hold was referenced before; the scan position is a frame; a
\* method runs only while the string is served.
Referenced ==
    \A j \in Frames : page_frame[j] # Empty => UsesBefore(j) # {}

VictimOK == frame_size > 0 => victim \in Frames

MethodOK == phase \notin {"serve", "undefined"} => method = "none"

PInv ==
    /\ TypeOK
    /\ NoDuplicates
    /\ Referenced
    /\ VictimOK
    /\ MethodOK
    /\ UndefinedOnlyByInput
---------------------------------------------------------------------------------
\* A nonempty set of naturals has a least element.
LEMMA Least ==
    ASSUME NEW S, S \subseteq Nat, S # {}
    PROVE  \E x \in S : \A y \in S : x <= y
<1> DEFINE R == OpToRel(<, Nat)
<1>1. IsWellFoundedOn(R, Nat)
  BY NatLessThanWellFounded
<1>2. PICK x \in S : \A y \in S : ~ (<<y, x>> \in R)
  <2> HIDE DEF R
  <2> QED
    BY <1>1, WFMin
<1>3. \A y \in Nat : y < x => <<y, x>> \in R
  BY DEF OpToRel
<1>4. \A y \in S : ~(y < x)
  BY <1>2, <1>3 DEF R
<1> QED
  BY <1>4

\* A function into the naturals takes a least value, and a bounded one a greatest.
LEMMA LeastValue ==
    ASSUME NEW T, T # {}, NEW f \in [T -> Nat]
    PROVE  \E j \in T : \A k \in T : f[j] <= f[k]
<1> DEFINE S == {f[j] : j \in T}
<1>1. S \subseteq Nat /\ S # {}
  OBVIOUS
<1>2. PICK x \in S : \A y \in S : x <= y
  BY <1>1, Least
<1> QED
  BY <1>2

LEMMA GreatestValue ==
    ASSUME NEW T, T # {}, NEW n \in Nat, NEW f \in [T -> 0..n]
    PROVE  \E j \in T : \A k \in T : f[k] <= f[j]
<1> DEFINE g == [j \in T |-> n - f[j]]
<1>1. g \in [T -> Nat]
  OBVIOUS
<1>2. PICK j \in T : \A k \in T : g[j] <= g[k]
  BY <1>1, LeastValue
<1>3. \A k \in T : f[k] <= f[j]
  BY <1>2
<1> QED
  BY <1>3

\* NextUse and LastUse are positions of the string.
LEMMA NextUseType ==
    ASSUME TypeOK, NEW j \in Frames, UsesAfter(j) # {}
    PROVE  NextUse(j) \in UsesAfter(j)
<1>1. UsesAfter(j) \subseteq Nat
  BY DEF UsesAfter, TypeOK
<1>2. \E k \in UsesAfter(j) : \A n \in UsesAfter(j) : k <= n
  BY <1>1, Least
<1> QED
  BY <1>2 DEF NextUse

LEMMA LastUseType ==
    ASSUME TypeOK, NEW j \in Frames, UsesBefore(j) # {}
    PROVE  LastUse(j) \in UsesBefore(j)
<1>1. UsesBefore(j) \subseteq 0..(i - 1) /\ i - 1 \in Nat
  BY DEF UsesBefore, TypeOK
<1> DEFINE id == [k \in UsesBefore(j) |-> k]
<1>2. id \in [UsesBefore(j) -> 0..(i - 1)]
  BY <1>1
<1>3. \E k \in UsesBefore(j) : \A n \in UsesBefore(j) : id[n] <= id[k]
  <2> HIDE DEF id
  <2> QED
    BY <1>1, <1>2, GreatestValue
<1>4. \E k \in UsesBefore(j) : \A n \in UsesBefore(j) : k >= n
  BY <1>1, <1>3
<1> QED
  BY <1>4 DEF LastUse

\* When the first loop runs to its end, memory is full and the page is not in it.
LEMMA FullMemory ==
    ASSUME TypeOK, Stops = {}, NEW j \in Frames
    PROVE  page_frame[j] \notin {Page, Empty}
<1> DEFINE S == {k \in Frames : page_frame[k] \in {Page, Empty}}
<1>1. SUFFICES ASSUME S # {} PROVE FALSE
  OBVIOUS
<1>2. S \subseteq Nat
  BY DEF Frames
<1>3. PICK x \in S : \A y \in S : x <= y
  BY <1>1, <1>2, Least
<1>4. \A k \in 0..(x - 1) : page_frame[k] \notin {Page, Empty}
  <2> SUFFICES ASSUME NEW k \in 0..(x - 1), page_frame[k] \in {Page, Empty} PROVE FALSE
    OBVIOUS
  <2>1. k \in Frames /\ k < x
    BY <1>2 DEF Frames, TypeOK
  <2> QED
    BY <1>2, <1>3, <2>1
<1> QED
  BY <1>3, <1>4 DEF Stops

LEMMA SomeFrame ==
    ASSUME TypeOK, frame_size > 0 PROVE Frames # {} /\ Frames \subseteq Nat
<1>1. frame_size \in Nat
  BY DEF TypeOK
<1>2. 0 \in Frames
  BY <1>1 DEF Frames
<1> QED
  BY <1>2 DEF Frames

\* OPT always finds a victim among the frames.
LEMMA OptVictim ==
    ASSUME TypeOK, frame_size > 0
    PROVE  OptVictims \subseteq Frames /\ OptVictims # {}
<1>1. Frames # {} /\ Frames \subseteq Nat
  BY SomeFrame
<1> DEFINE unused == {j \in Frames : UsesAfter(j) = {}}
<1>2. CASE unused # {}
  <2>1. unused \subseteq Nat
    BY <1>1
  <2>2. \E j \in unused : \A k \in unused : j <= k
    BY <1>2, <2>1, Least
  <2> QED
    BY <1>2, <2>2 DEF OptVictims
<1>3. CASE unused = {}
  <2> DEFINE f == [j \in Frames |-> NextUse(j)]
  <2>1. \A j \in Frames : NextUse(j) \in 0..Len(page_reference)
    BY <1>3, NextUseType DEF UsesAfter, TypeOK
  <2>2. Len(page_reference) \in Nat
    BY DEF TypeOK
  <2>3. f \in [Frames -> 0..Len(page_reference)]
    BY <2>1
  <2>4. \E j \in Frames : \A k \in Frames : f[k] <= f[j]
    <3> HIDE DEF f
    <3> QED
      BY <1>1, <2>2, <2>3, GreatestValue
  <2>5. \E j \in Frames : \A k \in Frames : NextUse(k) <= NextUse(j)
    BY <2>4
  <2> QED
    BY <1>3, <2>5 DEF OptVictims
<1> QED
  BY <1>2, <1>3

\* LRU always finds a victim: every page in memory was referenced before, at a
\* position below the 99 the search starts from.
LEMMA LruVictim ==
    ASSUME TypeOK, Referenced, Stops = {}, frame_size > 0
    PROVE  LruVictims \subseteq Frames /\ LruVictims # {}
<1>1. Frames # {} /\ Frames \subseteq Nat
  BY SomeFrame
<1>2. \A j \in Frames : UsesBefore(j) # {}
  BY FullMemory DEF Referenced
<1>3. \A j \in Frames : LastUse(j) \in Nat /\ LastUse(j) < 99
  <2> TAKE j \in Frames
  <2>1. LastUse(j) \in 1..(i - 1)
    BY <1>2, LastUseType DEF UsesBefore
  <2>2. i \in Nat /\ i - 1 <= MaxString
    BY StringAssumption DEF TypeOK
  <2> QED
    BY <2>1, <2>2, StringAssumption
<1>4. {j \in Frames : UsesBefore(j) # {} /\ LastUse(j) - 1 < 99} = Frames
  BY <1>2, <1>3
<1> DEFINE f == [j \in Frames |-> LastUse(j)]
<1>5. f \in [Frames -> Nat]
  BY <1>3
<1>6. \E j \in Frames : \A k \in Frames : f[j] <= f[k]
  <2> HIDE DEF f
  <2> QED
    BY <1>1, <1>5, LeastValue
<1> QED
  BY <1>4, <1>6 DEF LruVictims

LEMMA ScVictim ==
    ASSUME TypeOK, VictimOK, frame_size > 0 PROVE ScVictims \subseteq Frames
  BY DEF ScVictims, VictimOK
---------------------------------------------------------------------------------
\* The steps that leave the frames alone.
LEMMA QuietStep ==
    ASSUME PInv, Open \/ OpenFails \/ ReadEof \/ Exit \/ Report
    PROVE  PInv'
<1> USE DEF PInv
<1>1. UNCHANGED <<temp, frame_size, page_reference, memory>>
  BY DEF Open, OpenFails, ReadEof, Exit, Report, input
<1>2. /\ phase' \in {"read", "failed", "menu", "exit"}
      /\ method' = "none"
      /\ file' \in Seq(Pages \cup {Word})
  <2>1. CASE Open
    <3>1. PICK n \in 0..MaxTokens : file' \in [1..n -> Pages \cup {Word}]
      BY <2>1 DEF Open
    <3>2. file' \in Seq(Pages \cup {Word})
      BY <3>1, StringAssumption
    <3> QED
      BY <2>1, <3>2 DEF Open, MethodOK
  <2>2. CASE OpenFails \/ ReadEof \/ Exit \/ Report
    BY <2>2 DEF OpenFails, ReadEof, Exit, Report, input, MethodOK, TypeOK
  <2> QED
    BY <2>1, <2>2
<1>3. Frames' = Frames /\ (\A j : UsesBefore(j)' = UsesBefore(j))
  BY <1>1 DEF Frames, UsesBefore, memory
<1>4. TypeOK'
  BY <1>1, <1>2, <1>3 DEF TypeOK, Phases, Methods, memory
<1>5. NoDuplicates' /\ Referenced' /\ VictimOK'
  BY <1>1, <1>3 DEF NoDuplicates, Referenced, VictimOK, memory
<1>6. MethodOK' /\ UndefinedOnlyByInput'
  BY <1>2 DEF MethodOK, UndefinedOnlyByInput
<1> QED
  BY <1>4, <1>5, <1>6

\* Reading a token leaves the part of the string already served as it is.
LEMMA ReadStep == ASSUME PInv, ReadPage PROVE PInv'
<1> USE DEF PInv
<1>1. /\ phase = "read" /\ file # <<>>
      /\ UNCHANGED <<frame_size, method, memory>>
  BY DEF ReadPage
<1>2. method = "none"
  BY <1>1 DEF MethodOK
<1>3. file' \in Seq(Pages \cup {Word}) /\ temp' \in Pages
  <2>1. file \in Seq(Pages \cup {Word}) /\ Head(file) \in Pages \cup {Word}
        /\ Tail(file) \in Seq(Pages \cup {Word})
    BY <1>1 DEF TypeOK
  <2> QED
    BY <2>1 DEF ReadPage, TypeOK
<1>4. \/ /\ Len(page_reference) < MaxString
         /\ page_reference' = Append(page_reference, temp')
         /\ phase' = "read"
      \/ /\ Len(page_reference) = MaxString
         /\ page_reference' = page_reference
         /\ phase' = "undefined"
  BY <1>1, StringAssumption DEF ReadPage, TypeOK
<1>5. /\ page_reference' \in Seq(Pages)
      /\ Len(page_reference') <= MaxString
      /\ Len(page_reference) <= Len(page_reference')
      /\ \A k \in 1..Len(page_reference) : page_reference'[k] = page_reference[k]
  <2>1. page_reference \in Seq(Pages) /\ Len(page_reference) \in Nat
        /\ Len(page_reference) <= MaxString
    BY DEF TypeOK
  <2>2. CASE page_reference' = Append(page_reference, temp') /\ Len(page_reference) < MaxString
    BY <1>3, <2>1, <2>2, StringAssumption
  <2>3. CASE page_reference' = page_reference
    BY <2>1, <2>3
  <2> QED
    BY <1>4, <2>2, <2>3
<1>6. Frames' = Frames
  BY <1>1 DEF Frames
<1>7. \A j \in Frames : UsesBefore(j)' = UsesBefore(j)
  <2>1. \A k \in 1..(i - 1) : k \in 1..Len(page_reference)
    BY DEF TypeOK
  <2> QED
    BY <1>1, <1>5, <2>1 DEF UsesBefore, memory
<1>8. TypeOK'
  <2>1. i' \in 1..(Len(page_reference') + 1)
    BY <1>1, <1>5 DEF TypeOK, memory
  <2> QED
    BY <1>1, <1>3, <1>4, <1>5, <1>6, <2>1 DEF TypeOK, Phases, memory
<1>9. NoDuplicates' /\ Referenced' /\ VictimOK'
  BY <1>1, <1>6, <1>7 DEF NoDuplicates, Referenced, VictimOK, memory
<1>10. MethodOK' /\ UndefinedOnlyByInput'
  BY <1>1, <1>2, <1>4 DEF MethodOK, UndefinedOnlyByInput
<1> QED
  BY <1>8, <1>9, <1>10

LEMMA ChooseStep == ASSUME PInv, NEW m \in Methods, Choose(m) PROVE PInv'
<1> USE DEF PInv
<1>1. /\ phase' = "serve" /\ method' = m
      /\ page_frame' = [j \in Frames |-> Empty]
      /\ reference_bit' = [j \in Frames |-> 0]
      /\ victim' = 0 /\ page_fault' = 0 /\ i' = 1
      /\ UNCHANGED <<file, temp, frame_size, page_reference>>
  BY DEF Choose, input
<1>2. Frames' = Frames
  BY <1>1 DEF Frames
<1>3. TypeOK'
  BY <1>1, <1>2 DEF TypeOK, Phases
<1>4. NoDuplicates' /\ Referenced'
  BY <1>1, <1>2 DEF NoDuplicates, Referenced
<1>5. VictimOK'
  BY <1>1 DEF VictimOK, Frames, TypeOK
<1>6. MethodOK' /\ UndefinedOnlyByInput'
  BY <1>1 DEF MethodOK, UndefinedOnlyByInput
<1> QED
  BY <1>3, <1>4, <1>5, <1>6

\* Putting the page of this reference into frame j: the positions before i only grow.
LEMMA Served ==
    ASSUME PInv, i <= Len(page_reference), NEW j \in Frames,
           page_frame' = [page_frame EXCEPT ![j] = Page], i' = i + 1,
           UNCHANGED <<frame_size, page_reference>>
    PROVE  /\ Frames' = Frames
           /\ Page \in Pages
           /\ page_frame' \in [Frames -> Pages \cup {Empty}]
           /\ i' \in 1..(Len(page_reference') + 1)
           /\ Referenced'
<1> USE DEF PInv
<1>1. Frames' = Frames
  BY DEF Frames
<1>2. Page \in Pages /\ i \in Nat \ {0}
  BY DEF TypeOK, Page
<1>3. page_frame' \in [Frames -> Pages \cup {Empty}]
  BY <1>2 DEF TypeOK
<1>4. i' \in 1..(Len(page_reference') + 1)
  BY DEF TypeOK
<1>5. ASSUME NEW k \in Frames, page_frame'[k] # Empty PROVE UsesBefore(k)' # {}
  <2>1. CASE k = j
    <3>1. i \in 1..(i' - 1) /\ page_reference'[i] = page_frame'[k]
      BY <1>2, <2>1 DEF TypeOK, Page
    <3> QED
      BY <3>1 DEF UsesBefore
  <2>2. CASE k # j
    <3>1. page_frame'[k] = page_frame[k]
      BY <2>2 DEF TypeOK
    <3>2. UsesBefore(k) # {}
      BY <1>5, <3>1 DEF Referenced
    <3>3. UsesBefore(k) \subseteq UsesBefore(k)'
      BY <1>2, <3>1 DEF UsesBefore
    <3> QED
      BY <3>2, <3>3
  <2> QED
    BY <2>1, <2>2
<1>6. Referenced'
  BY <1>1, <1>5 DEF Referenced
<1> QED
  BY <1>1, <1>2, <1>3, <1>4, <1>6

LEMMA HitOrFillStep == ASSUME PInv, NEW m \in Methods, HitOrFill(m) PROVE PInv'
<1> USE DEF PInv
<1>1. /\ phase = "serve" /\ method = m /\ i <= Len(page_reference)
      /\ i' = i + 1
      /\ UNCHANGED <<phase, method, file, temp, frame_size, page_reference, victim>>
  BY DEF HitOrFill, Serving, input
<1>2. PICK j \in Stops :
         /\ page_frame' = [page_frame EXCEPT ![j] = Page]
         /\ page_fault' = IF page_frame[j] = Empty THEN page_fault + 1 ELSE page_fault
         /\ reference_bit' = IF m = "Second-Chance"
                             THEN [reference_bit EXCEPT ![j] = IF page_frame[j] = Empty THEN 0 ELSE 1]
                             ELSE reference_bit
  BY DEF HitOrFill
<1>3. /\ j \in Frames
      /\ page_frame[j] \in {Page, Empty}
      /\ \A k \in Frames : k < j => page_frame[k] \notin {Page, Empty}
  BY DEF Stops, Frames, TypeOK
<1>4. /\ Frames' = Frames
      /\ Page \in Pages
      /\ page_frame' \in [Frames -> Pages \cup {Empty}]
      /\ i' \in 1..(Len(page_reference') + 1)
      /\ Referenced'
  BY <1>1, <1>2, <1>3, Served
<1>5. page_fault' \in 0..(i' - 1)
  BY <1>1, <1>2 DEF TypeOK
<1>6. reference_bit' \in [Frames -> {0, 1}]
  BY <1>2, <1>3 DEF TypeOK
<1>7. TypeOK'
  BY <1>1, <1>4, <1>5, <1>6 DEF TypeOK
<1>8. NoDuplicates'
  <2> SUFFICES ASSUME NEW a \in Frames, NEW b \in Frames, a < b, page_frame'[b] # Empty
               PROVE  page_frame'[a] \notin {Empty, page_frame'[b]}
    BY <1>4 DEF NoDuplicates
  <2>1. CASE page_frame[j] = Page
    <3>1. page_frame' = page_frame
      BY <1>2, <1>3, <2>1 DEF TypeOK
    <3> QED
      BY <3>1 DEF NoDuplicates
  <2>2. CASE page_frame[j] = Empty
    <3>1. \A k \in Frames : k > j => page_frame[k] = Empty
      BY <1>3, <2>2 DEF NoDuplicates
    <3>2. \A k \in Frames \ {j} : page_frame'[k] = page_frame[k]
      BY <1>2 DEF TypeOK
    <3>3. page_frame'[j] = Page
      BY <1>2, <1>3 DEF TypeOK
    <3>4. b <= j /\ a < j
      BY <1>3, <3>1, <3>2 DEF Frames, TypeOK
    <3>5. CASE b = j
      BY <1>3, <1>4, <3>2, <3>3, <3>4, <3>5, PageAssumption
    <3>6. CASE b # j
      BY <3>2, <3>4, <3>6 DEF NoDuplicates, Frames
    <3> QED
      BY <3>5, <3>6
  <2> QED
    BY <1>3, <2>1, <2>2
<1>9. VictimOK' /\ MethodOK' /\ UndefinedOnlyByInput'
  BY <1>1, <1>4 DEF VictimOK, MethodOK, UndefinedOnlyByInput
<1> QED
  BY <1>4, <1>7, <1>8, <1>9

\* Replacing the page of a frame of a full memory, the same for the four methods.
LEMMA ReplaceStep ==
    ASSUME PInv, phase = "serve", method \in Methods, i <= Len(page_reference), Stops = {},
           NEW v, frame_size > 0 => v \in Frames, Replace(v),
           UNCHANGED <<method, file, temp, frame_size, page_reference>>,
           reference_bit' \in [Frames -> {0, 1}],
           victim' \in 0..frame_size,
           frame_size > 0 => victim' \in Frames
    PROVE  PInv'
<1> USE DEF PInv
<1>1. CASE v \in Frames
  <2>1. /\ page_frame' = [page_frame EXCEPT ![v] = Page]
        /\ page_fault' = page_fault + 1
        /\ i' = i + 1
        /\ UNCHANGED phase
    BY <1>1 DEF Replace
  <2>2. /\ Frames' = Frames
        /\ Page \in Pages
        /\ page_frame' \in [Frames -> Pages \cup {Empty}]
        /\ i' \in 1..(Len(page_reference') + 1)
        /\ Referenced'
    BY <1>1, <2>1, Served
  <2>3. page_fault' \in 0..(i' - 1)
    BY <2>1 DEF TypeOK
  <2>4. TypeOK'
    BY <2>1, <2>2, <2>3 DEF TypeOK
  <2>5. NoDuplicates'
    <3> SUFFICES ASSUME NEW a \in Frames, NEW b \in Frames, a < b, page_frame'[b] # Empty
                 PROVE  page_frame'[a] \notin {Empty, page_frame'[b]}
      BY <2>2 DEF NoDuplicates
    <3>1. page_frame[a] \notin {Page, Empty} /\ page_frame[b] \notin {Page, Empty}
      BY FullMemory
    <3>2. page_frame'[v] = Page /\ \A k \in Frames \ {v} : page_frame'[k] = page_frame[k]
      BY <1>1, <2>1 DEF TypeOK
    <3>3. a # b
      BY DEF Frames
    <3> QED
      BY <2>2, <3>1, <3>2, <3>3, PageAssumption DEF NoDuplicates
  <2>6. VictimOK' /\ MethodOK' /\ UndefinedOnlyByInput'
    BY <2>1, <2>2 DEF VictimOK, MethodOK, UndefinedOnlyByInput
  <2> QED
    BY <2>2, <2>4, <2>5, <2>6
<1>2. CASE v \notin Frames
  <2>1. /\ phase' = "undefined"
        /\ UNCHANGED <<page_frame, page_fault, i>>
    BY <1>2 DEF Replace
  <2>2. frame_size = 0
    BY <1>2 DEF TypeOK
  <2>3. Frames' = Frames /\ \A j : UsesBefore(j)' = UsesBefore(j)
    BY <2>1 DEF Frames, UsesBefore
  <2>4. TypeOK'
    BY <2>1, <2>3 DEF TypeOK, Phases
  <2>5. NoDuplicates' /\ Referenced' /\ VictimOK' /\ MethodOK' /\ UndefinedOnlyByInput'
    BY <2>1, <2>2, <2>3 DEF NoDuplicates, Referenced, VictimOK, MethodOK, UndefinedOnlyByInput
  <2> QED
    BY <2>4, <2>5
<1> QED
  BY <1>1, <1>2

LEMMA OptStep == ASSUME PInv, Opt PROVE PInv'
<1>1. PICK v \in IF OptVictims = {} THEN {-1} ELSE OptVictims : Replace(v)
  BY DEF Opt
<1>2. frame_size > 0 => v \in Frames
  BY OptVictim DEF PInv
<1>3. /\ phase = "serve" /\ method \in Methods /\ i <= Len(page_reference) /\ Stops = {}
      /\ UNCHANGED <<method, file, temp, frame_size, page_reference>>
      /\ UNCHANGED <<reference_bit, victim>>
  BY DEF Opt, Serving, input, Methods
<1>4. /\ reference_bit' \in [Frames -> {0, 1}]
      /\ victim' \in 0..frame_size
      /\ frame_size > 0 => victim' \in Frames
  BY <1>3 DEF PInv, TypeOK, VictimOK
<1> QED
  BY <1>1, <1>2, <1>3, <1>4, ReplaceStep

LEMMA LruStep == ASSUME PInv, Lru PROVE PInv'
<1>1. PICK v \in IF LruVictims = {} THEN {-1} ELSE LruVictims : Replace(v)
  BY DEF Lru
<1>2. /\ phase = "serve" /\ method \in Methods /\ i <= Len(page_reference) /\ Stops = {}
      /\ UNCHANGED <<method, file, temp, frame_size, page_reference>>
      /\ UNCHANGED <<reference_bit, victim>>
  BY DEF Lru, Serving, input, Methods
<1>3. frame_size > 0 => v \in Frames
  BY <1>2, LruVictim DEF PInv
<1>4. /\ reference_bit' \in [Frames -> {0, 1}]
      /\ victim' \in 0..frame_size
      /\ frame_size > 0 => victim' \in Frames
  BY <1>2 DEF PInv, TypeOK, VictimOK
<1> QED
  BY <1>1, <1>2, <1>3, <1>4, ReplaceStep

\* The next position after a frame, around the frames.
LEMMA WrapFrame ==
    ASSUME frame_size \in Nat, NEW v \in Frames
    PROVE  Wrap(v + 1) \in Frames /\ Wrap(v + 1) \in 0..frame_size
  BY DEF Wrap, Frames

LEMMA FifoStep == ASSUME PInv, Fifo PROVE PInv'
<1>1. /\ phase = "serve" /\ method \in Methods /\ i <= Len(page_reference) /\ Stops = {}
      /\ UNCHANGED <<method, file, temp, frame_size, page_reference>>
      /\ UNCHANGED reference_bit
      /\ Replace(victim)
      /\ victim' = IF victim \in Frames THEN Wrap(victim + 1) ELSE victim
  BY DEF Fifo, Serving, input, Methods
<1>2. frame_size > 0 => victim \in Frames
  BY DEF PInv, VictimOK
<1>3. frame_size \in Nat /\ victim \in 0..frame_size /\ reference_bit' \in [Frames -> {0, 1}]
  BY <1>1 DEF PInv, TypeOK
<1>4. /\ victim' \in 0..frame_size
      /\ frame_size > 0 => victim' \in Frames
  BY <1>1, <1>2, <1>3, WrapFrame
<1> QED
  BY <1>1, <1>2, <1>3, <1>4, ReplaceStep

LEMMA SecondChanceStep == ASSUME PInv, SecondChance PROVE PInv'
<1>1. PICK v \in ScVictims :
         /\ Replace(v)
         /\ victim' = IF v \in Frames THEN Wrap(v + 1) ELSE victim
         /\ reference_bit' = IF v \in Frames THEN PassedBits(v) ELSE reference_bit
  BY DEF SecondChance
<1>2. /\ phase = "serve" /\ method \in Methods /\ i <= Len(page_reference) /\ Stops = {}
      /\ UNCHANGED <<method, file, temp, frame_size, page_reference>>
  BY DEF SecondChance, Serving, input, Methods
<1>3. frame_size > 0 => v \in Frames
  BY ScVictim DEF PInv
<1>4. frame_size \in Nat /\ victim \in 0..frame_size /\ reference_bit \in [Frames -> {0, 1}]
  BY DEF PInv, TypeOK
<1>5. reference_bit' \in [Frames -> {0, 1}]
  BY <1>1, <1>4 DEF PassedBits
<1>6. /\ victim' \in 0..frame_size
      /\ frame_size > 0 => victim' \in Frames
  BY <1>1, <1>3, <1>4, WrapFrame
<1> QED
  BY <1>1, <1>2, <1>3, <1>5, <1>6, ReplaceStep

LEMMA PageInit == Init => PInv
<1> SUFFICES ASSUME Init PROVE PInv
  OBVIOUS
<1>1. frame_size \in Nat
  BY FrameAssumption DEF Init
<1>2. TypeOK
  BY <1>1, StringAssumption DEF Init, TypeOK, Phases, Frames
<1>3. NoDuplicates /\ Referenced
  BY DEF Init, NoDuplicates, Referenced
<1>4. VictimOK /\ MethodOK /\ UndefinedOnlyByInput
  BY <1>1 DEF Init, VictimOK, MethodOK, UndefinedOnlyByInput, Frames
<1> QED
  BY <1>2, <1>3, <1>4 DEF PInv

\* One step per action.
LEMMA PageStep == PInv /\ [Next]_vars => PInv'
<1> SUFFICES ASSUME PInv, [Next]_vars PROVE PInv'
  OBVIOUS
<1>1. CASE Open \/ OpenFails \/ ReadEof \/ Exit \/ Report
  BY <1>1, QuietStep
<1>2. CASE ReadPage
  BY <1>2, ReadStep
<1>3. ASSUME NEW m \in Methods, Choose(m) PROVE PInv'
  BY <1>3, ChooseStep
<1>4. ASSUME NEW m \in Methods, HitOrFill(m) PROVE PInv'
  BY <1>4, HitOrFillStep
<1>5. CASE Opt
  BY <1>5, OptStep
<1>6. CASE Fifo
  BY <1>6, FifoStep
<1>7. CASE Lru
  BY <1>7, LruStep
<1>8. CASE SecondChance
  BY <1>8, SecondChanceStep
<1>9. CASE UNCHANGED vars
  BY <1>9 DEF vars, input, memory, PInv, TypeOK, NoDuplicates, Referenced, VictimOK,
     MethodOK, UndefinedOnlyByInput, Frames, UsesBefore
<1> QED
  BY <1>1, <1>2, <1>3, <1>4, <1>5, <1>6, <1>7, <1>8, <1>9 DEF Next

\* simulator.c:54-305: the invariant of the frames holds for every method and string.
THEOREM PageInvariant == Spec => []PInv
  BY PageInit, PageStep, PTL DEF Spec

\* simulator.c: every variable keeps its range, and page_fault never exceeds the
\* references served.
THEOREM PageTypeCorrect == Spec => []TypeOK
<1>1. PInv => TypeOK
  BY DEF PInv
<1> QED
  BY <1>1, PageInvariant, PTL

\* simulator.c:58-71 and its three copies: no page is ever in two frames.
THEOREM NoDuplicatesCorrect == Spec => []NoDuplicates
<1>1. PInv => NoDuplicates
  BY DEF PInv
<1> QED
  BY <1>1, PageInvariant, PTL

\* simulator.c:94, 141, 204, 256-285: every index the methods write to is a frame, for
\* every string and every number of frames but 0.
THEOREM VictimsInBounds == Spec => []UndefinedOnlyByInput
<1>1. PInv => UndefinedOnlyByInput
  BY DEF PInv
<1> QED
  BY <1>1, PageInvariant, PTL
=================================================================================
